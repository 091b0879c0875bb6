-------------------------- MODULE User_proofs --------------------------
(***************************************************************************)
(* Proofs about what the operator's computer runs and what it loads.  The  *)
(* GUI, for any controllers with good and bad plugins: what it shows,      *)
(* requests and the Controller Manager has loaded agree, and a run can be  *)
(* stopped.  The loading of controllers, for any packages whose scripts    *)
(* are a pair: an unloaded controller leaves nothing behind.  Save and     *)
(* Load, for any plugins of the repository: no parameter is lost or        *)
(* another controller's.  The logger, for any topics, command lines and    *)
(* numbers of messages: the limits of the command line are kept, and no    *)
(* message that was to be recorded is lost.                                *)
(***************************************************************************)
EXTENDS Gui, GuiParameters, Loading, Recorder, FiniteSetTheorems, SequenceTheorems, TLAPS

----------------------------------------------------------------------------
(* The GUI: the types of its state and of the Controller Manager's.        *)

UserCommand == {"STOP", "RUN", "E_STOP", "UNLOAD_CONTROLLER"}
Requested   == Controllers \cup {"none"}
Order       == [command : UserCommand, requestedController : Requested]

ManagerType ==
  [state : {"NO_CONTROLLER_LOADED", "CONTROLLER_STOPPED", "CONTROLLER_RUNNING",
            "CONTROLLER_ESTOPPED"},
   name : Requested, requested : Requested, commandBuffer : Seq(UserCommand),
   waits : {"none", "ACK_DISABLE", "ACK_E_STOP", "ACK_RESET"}]

GuiType ==
  /\ go \in Order
  /\ controller_loaded \in BOOLEAN /\ dialog \in BOOLEAN /\ closed \in BOOLEAN
  /\ tabs \in Seq(Controllers) /\ page \in Nat /\ currentControllerID \in Nat
  /\ guiDataIn = << >> \/ \E m \in Order : guiDataIn = <<m>>
  /\ cm \in ManagerType
  /\ overwritten \in BOOLEAN

(* Each ticked row has one tab.                                            *)
TabsInv ==
  /\ IsFiniteSet(ticked) /\ Range1(tabs) = ticked
  /\ \A i, j \in DOMAIN tabs : tabs[i] = tabs[j] => i = j

(* A loaded controller is the one of the page that is shown, and of the    *)
(* page to switch back to; the motors are enabled only with one loaded.    *)
PageInv ==
  /\ controller_loaded =>
       /\ page = currentControllerID /\ page \in 2 .. Len(tabs) + 1
       /\ tabs[page - 1] = controllerName /\ go.requestedController = controllerName
       /\ ~dialog
  /\ go.command \in {"RUN", "E_STOP"} => controller_loaded
  /\ closed => ~controller_loaded /\ go = Takedown
  /\ go.command = "UNLOAD_CONTROLLER" => closed

(* What the Controller Manager will have read last is what the GUI means.  *)
LastInv ==
  /\ IF guiDataIn # << >> THEN guiDataIn[1].requestedController = go.requestedController
                          ELSE cm.requested = go.requestedController
  /\ go.command # "RUN" =>
       IF guiDataIn # << >> THEN guiDataIn[1].command # "RUN"
       ELSE IF cm.commandBuffer # << >>
            THEN cm.commandBuffer[Len(cm.commandBuffer)] # "RUN"
            ELSE cm.state = "CONTROLLER_RUNNING" => cm.waits = "ACK_RESET"

(* An unload is to come from the Controller Manager's own queue.           *)
Unloading ==
  \/ cm.waits = "ACK_RESET"
  \/ "UNLOAD_CONTROLLER" \in Range1(cm.commandBuffer)

UnloadArrives == guiDataIn # << >> /\ guiDataIn[1].command = "UNLOAD_CONTROLLER"

(* A controller the GUI does not mean is unloaded before long, and no other *)
(* is loaded meanwhile.                                                    *)
MeantInv ==
  /\ cm.state = "NO_CONTROLLER_LOADED" => cm.name = "none"
  /\ ~overwritten =>
       /\ cm.requested \in {"none", go.requestedController} \/ UnloadArrives
       /\ cm.name \in {"none", go.requestedController} \/ Unloading \/ UnloadArrives
  /\ closed => UnloadArrives \/ (guiDataIn = << >> /\ (cm.name = "none" \/ Unloading))

GuiInv == GuiType /\ TabsInv /\ PageInv /\ LastInv /\ MeantInv

----------------------------------------------------------------------------
(* Sequences: what is at the end of a queue, and what its steps leave.     *)

(* What a queue holds after something has been put in.                     *)
LEMMA QueueAppend ==
  ASSUME NEW S, NEW s \in Seq(S), NEW e \in S
  PROVE  /\ Append(s, e) \in Seq(S) /\ Append(s, e) # << >>
         /\ Range1(Append(s, e)) = Range1(s) \cup {e}
         /\ Append(s, e)[Len(Append(s, e))] = e
         /\ Len(Append(s, e)) = Len(s) + 1
         /\ \A i \in DOMAIN s : Append(s, e)[i] = s[i]
<1>1. /\ Append(s, e) \in Seq(S) /\ Len(Append(s, e)) = Len(s) + 1
      /\ Append(s, e)[Len(s) + 1] = e
      /\ \A i \in 1 .. Len(s) : Append(s, e)[i] = s[i]
  BY AppendProperties
<1>2. DOMAIN Append(s, e) = 1 .. Len(s) + 1 /\ DOMAIN s = 1 .. Len(s) /\ Len(s) \in Nat
  BY <1>1, LenProperties
<1>3. Range1(Append(s, e)) = Range1(s) \cup {e}
  <2>1. ASSUME NEW x \in Range1(Append(s, e)) PROVE x \in Range1(s) \cup {e}
    <3>1. PICK i \in 1 .. Len(s) + 1 : x = Append(s, e)[i]
      BY <1>2 DEF Range1
    <3>2. CASE i = Len(s) + 1
      BY <1>1, <3>1, <3>2
    <3>3. CASE i \in 1 .. Len(s)
      BY <1>1, <1>2, <3>1, <3>3 DEF Range1
    <3> QED
      BY <1>2, <3>2, <3>3
  <2>2. ASSUME NEW x \in Range1(s) \cup {e} PROVE x \in Range1(Append(s, e))
    <3>1. CASE x = e
      <4>1. Len(s) + 1 \in DOMAIN Append(s, e)
        BY <1>2
      <4> QED
        BY <1>1, <3>1, <4>1 DEF Range1
    <3>2. CASE x \in Range1(s)
      <4>1. PICK i \in 1 .. Len(s) : x = s[i]
        BY <1>2, <3>2 DEF Range1
      <4>2. i \in DOMAIN Append(s, e) /\ Append(s, e)[i] = x
        BY <1>1, <1>2, <4>1
      <4> QED
        BY <4>2 DEF Range1
    <3> QED
      BY <2>2, <3>1, <3>2
  <2> QED
    BY <2>1, <2>2
<1>4. Append(s, e) # << >>
  BY <1>1, <1>2, EmptySeq
<1> QED
  BY <1>1, <1>2, <1>3, <1>4

(* What it holds after something has been taken out.                       *)
LEMMA QueueTail ==
  ASSUME NEW S, NEW s \in Seq(S), s # << >>
  PROVE  /\ Head(s) \in S /\ Tail(s) \in Seq(S)
         /\ Range1(s) = Range1(Tail(s)) \cup {Head(s)}
         /\ Tail(s) # << >> => Tail(s)[Len(Tail(s))] = s[Len(s)]
         /\ Tail(s) = << >> => Head(s) = s[Len(s)]
<1>1. /\ Head(s) \in S /\ Head(s) = s[1] /\ Tail(s) \in Seq(S) /\ Len(Tail(s)) = Len(s) - 1
      /\ \A i \in 1 .. Len(Tail(s)) : Tail(s)[i] = s[i + 1]
  BY HeadTailProperties
<1>2. /\ DOMAIN s = 1 .. Len(s) /\ DOMAIN Tail(s) = 1 .. Len(s) - 1 /\ Len(s) \in Nat
      /\ Len(s) # 0
  BY <1>1, LenProperties, EmptySeq
<1>3. Range1(s) = Range1(Tail(s)) \cup {Head(s)}
  <2>1. ASSUME NEW x \in Range1(s) PROVE x \in Range1(Tail(s)) \cup {Head(s)}
    <3>1. PICK i \in 1 .. Len(s) : x = s[i]
      BY <1>2 DEF Range1
    <3>2. CASE i = 1
      BY <1>1, <3>1, <3>2
    <3>3. CASE i # 1
      <4>1. i - 1 \in DOMAIN Tail(s) /\ Tail(s)[i - 1] = x
        BY <1>1, <1>2, <3>1, <3>3
      <4> QED
        BY <4>1 DEF Range1
    <3> QED
      BY <3>2, <3>3
  <2>2. ASSUME NEW x \in Range1(Tail(s)) PROVE x \in Range1(s)
    <3>1. PICK i \in 1 .. Len(s) - 1 : x = Tail(s)[i]
      BY <1>2 DEF Range1
    <3>2. i + 1 \in DOMAIN s /\ s[i + 1] = x
      BY <1>1, <1>2, <3>1
    <3> QED
      BY <3>2 DEF Range1
  <2>3. Head(s) \in Range1(s)
    BY <1>1, <1>2 DEF Range1
  <2> QED
    BY <2>1, <2>2, <2>3
<1>4. Tail(s) # << >> => Tail(s)[Len(Tail(s))] = s[Len(s)]
  <2>1. Tail(s) # << >> => Len(Tail(s)) # 0
    BY <1>1, EmptySeq
  <2>2. Tail(s) # << >> => Len(s) - 1 \in 1 .. Len(s) - 1 /\ (Len(s) - 1) + 1 = Len(s)
    BY <1>1, <1>2, <2>1
  <2> QED
    BY <1>1, <2>2
<1>5. ASSUME Tail(s) = << >> PROVE Head(s) = s[Len(s)]
  <2>1. Len(Tail(s)) = 0
    BY <1>5, EmptySeq
  <2>2. Len(s) \in Nat /\ Len(Tail(s)) = Len(s) - 1
    BY <1>1, <1>2
  <2>3. Len(s) = 1
    BY <2>1, <2>2
  <2> QED
    BY <1>1, <2>3
<1> QED
  BY <1>1, <1>3, <1>4, <1>5

(* A list without the first of two that are different loses it alone.      *)
LEMMA TabRemoved ==
  ASSUME GuiType, TabsInv, NEW c \in ticked
  PROVE  /\ Removed(c) \in Seq(Controllers) /\ Range1(Removed(c)) = ticked \ {c}
         /\ \A i, j \in DOMAIN Removed(c) : Removed(c)[i] = Removed(c)[j] => i = j
<1> DEFINE First(i) == i \in DOMAIN tabs /\ tabs[i] = c /\ \A j \in 1 .. i - 1 : tabs[j] # c
           n == Len(tabs)
<1>1. n \in Nat /\ DOMAIN tabs = 1 .. n /\ \A i \in 1 .. n : tabs[i] \in Controllers
  BY LenProperties, ElementOfSeq DEF GuiType
<1>2. PICK k \in 1 .. n : tabs[k] = c
  BY <1>1 DEF TabsInv, Range1
<1>3. \A i \in 1 .. n : tabs[i] = c => i = k
  BY <1>1, <1>2 DEF TabsInv
<1>4. First(k)
  BY <1>1, <1>2, <1>3
<1> DEFINE r == [i \in 1 .. n - 1 |-> IF i < k THEN tabs[i] ELSE tabs[i + 1]]
<1>5. Removed(c) = r
  <2>1. (CHOOSE i \in DOMAIN tabs : tabs[i] = c /\ \A j \in 1 .. i - 1 : tabs[j] # c) = k
    BY <1>1, <1>3, <1>4
  <2>2. Removed(c) = SubSeq(tabs, 1, k - 1) \o SubSeq(tabs, k + 1, n)
    BY <2>1 DEF Removed
  <2> DEFINE a == SubSeq(tabs, 1, k - 1)
             b == SubSeq(tabs, k + 1, n)
  <2>3. /\ a \in Seq(Controllers) /\ Len(a) = k - 1
        /\ \A i \in 1 .. k - 1 : a[i] = tabs[i]
    BY <1>1, <1>2, SubSeqProperties
  <2>4. /\ b \in Seq(Controllers) /\ Len(b) = n - k
        /\ \A i \in 1 .. n - k : b[i] = tabs[i + k]
    <3>1. /\ b \in Seq(Controllers)
          /\ Len(b) = IF k + 1 <= n THEN n - (k + 1) + 1 ELSE 0
          /\ \A i \in 1 .. n - (k + 1) + 1 : b[i] = tabs[(k + 1) + i - 1]
      BY <1>1, <1>2, SubSeqProperties
    <3>2. /\ n - (k + 1) + 1 = n - k
          /\ \A i \in 1 .. n - k : (k + 1) + i - 1 = i + k
          /\ n - k = IF k + 1 <= n THEN n - (k + 1) + 1 ELSE 0
      <4>1. n \in Int /\ k \in Int /\ k <= n
        BY <1>1, <1>2
      <4> HIDE DEF n
      <4> QED
        BY <4>1
    <3> HIDE DEF b
    <3>3. Len(b) = n - k
      BY <3>1, <3>2
    <3>4. ASSUME NEW i \in 1 .. n - k PROVE b[i] = tabs[i + k]
      BY <3>1, <3>2
    <3> QED
      BY <3>1, <3>3, <3>4
  <2> HIDE DEF a, b
  <2>5. /\ a \o b \in Seq(Controllers) /\ Len(a \o b) = n - 1
        /\ \A i \in 1 .. n - 1 : (a \o b)[i] = IF i <= k - 1 THEN a[i] ELSE b[i - (k - 1)]
    <3>1. (k - 1) + (n - k) = n - 1
      BY <1>1, <1>2
    <3>2. /\ a \o b \in Seq(Controllers) /\ Len(a \o b) = Len(a) + Len(b)
          /\ \A i \in 1 .. Len(a) + Len(b) :
               (a \o b)[i] = IF i <= Len(a) THEN a[i] ELSE b[i - Len(a)]
      BY <2>3, <2>4, ConcatProperties
    <3> QED
      BY <2>3, <2>4, <3>1, <3>2
  <2>6. \A i \in 1 .. n - 1 : (a \o b)[i] = r[i]
    <3> SUFFICES ASSUME NEW i \in 1 .. n - 1 PROVE (a \o b)[i] = r[i]
      OBVIOUS
    <3>1. CASE i < k
      BY <1>1, <1>2, <2>3, <2>5, <3>1
    <3>2. CASE ~(i < k)
      <4>1. i - (k - 1) \in 1 .. n - k /\ (i - (k - 1)) + k = i + 1 /\ ~(i <= k - 1)
        BY <1>1, <1>2, <3>2
      <4> QED
        BY <2>4, <2>5, <3>2, <4>1
    <3> QED
      BY <3>1, <3>2
  <2>7. r \in Seq(Controllers) /\ Len(r) = n - 1
    BY <1>1, <1>2
  <2> QED
    BY <2>2, <2>5, <2>6, <2>7, SeqEqual DEF a, b
<1>6. r \in Seq(Controllers) /\ DOMAIN r = 1 .. n - 1
  BY <1>1, <1>2
<1>7. ASSUME NEW x \in Range1(r) PROVE x \in ticked \ {c}
  <2>1. PICK i \in 1 .. n - 1 : x = r[i]
    BY <1>6, <1>7 DEF Range1
  <2>2. \E j \in 1 .. n : j # k /\ x = tabs[j]
    BY <1>1, <1>2, <2>1
  <2> QED
    BY <1>1, <1>3, <2>2 DEF TabsInv, Range1
<1>8. ASSUME NEW x \in ticked, x # c PROVE x \in Range1(r)
  <2>1. PICK j \in 1 .. n : x = tabs[j] /\ j # k
    BY <1>1, <1>2, <1>8 DEF TabsInv, Range1
  <2>2. \E i \in 1 .. n - 1 : r[i] = x
    <3>1. CASE j < k
      BY <1>1, <1>2, <2>1, <3>1
    <3>2. CASE j > k
      <4>1. j - 1 \in 1 .. n - 1 /\ r[j - 1] = tabs[j]
        BY <1>1, <1>2, <2>1, <3>2
      <4> QED
        BY <2>1, <4>1
    <3> QED
      BY <1>2, <2>1, <3>1, <3>2
  <2> QED
    BY <1>6, <2>2 DEF Range1
<1>9. \A i, j \in 1 .. n - 1 : r[i] = r[j] => i = j
  BY <1>1, <1>2 DEF TabsInv
<1> QED
  BY <1>5, <1>6, <1>7, <1>8, <1>9

----------------------------------------------------------------------------
(* The GUI's steps.  Those that send nothing leave the robot's side alone. *)

(* The commands are as they were when nothing is sent or read.             *)
LEMMA NothingSent ==
  ASSUME LastInv, MeantInv, UNCHANGED <<go, closed, guiDataIn, cm, overwritten>>
  PROVE  LastInv' /\ MeantInv'
BY DEF LastInv, MeantInv, Unloading, UnloadArrives

(* The tabs are as they were.                                              *)
LEMMA TabsKept == ASSUME TabsInv, UNCHANGED <<tabs, ticked>> PROVE TabsInv'
BY DEF TabsInv

(* A row of the list is ticked or unticked.                                *)
LEMMA ListStep ==
  ASSUME GuiInv, NEW c \in Controllers, load_controller(c) \/ unload_controller(c)
  PROVE  GuiInv'
<1>1. /\ UNCHANGED <<go, controller_loaded, controllerName, currentControllerID, page, closed,
                     guiDataIn, cm, overwritten>>
      /\ ~controller_loaded
  BY DEF load_controller, unload_controller
<1>2. LastInv' /\ MeantInv'
  BY <1>1, NothingSent DEF GuiInv
<1>3. PageInv'
  BY <1>1 DEF GuiInv, PageInv
<1>4. CASE load_controller(c)
  <2>1. CASE UNCHANGED <<tabs, ticked>> /\ dialog' \in BOOLEAN
    <3>1. GuiType'
      BY <1>1, <2>1 DEF GuiInv, GuiType
    <3>2. TabsInv'
      BY <2>1, TabsKept DEF GuiInv
    <3> QED
      BY <1>2, <1>3, <3>1, <3>2 DEF GuiInv
  <2>2. CASE tabs' = Append(tabs, c) /\ ticked' = ticked \cup {c} /\ dialog' = dialog
    <3>1. /\ tabs' \in Seq(Controllers) /\ Range1(tabs') = Range1(tabs) \cup {c}
          /\ Len(tabs') = Len(tabs) + 1 /\ tabs'[Len(tabs')] = c
          /\ \A i \in DOMAIN tabs : tabs'[i] = tabs[i]
      BY <2>2, QueueAppend DEF GuiInv, GuiType
    <3>2. GuiType'
      BY <1>1, <2>2, <3>1 DEF GuiInv, GuiType
    <3>3. c \notin Range1(tabs)
      BY <1>4 DEF load_controller, GuiInv, TabsInv
    <3>4. DOMAIN tabs = 1 .. Len(tabs) /\ DOMAIN tabs' = 1 .. Len(tabs) + 1 /\ Len(tabs) \in Nat
      BY <3>1, LenProperties DEF GuiInv, GuiType
    <3>5. ASSUME NEW i \in DOMAIN tabs', NEW j \in DOMAIN tabs', tabs'[i] = tabs'[j]
          PROVE  i = j
      <4>1. \A k \in DOMAIN tabs : tabs[k] # c
        BY <3>3 DEF Range1
      <4> QED
        BY <3>1, <3>4, <3>5, <4>1 DEF GuiInv, TabsInv
    <3>6. IsFiniteSet(ticked')
      BY <2>2, FS_AddElement DEF GuiInv, TabsInv
    <3>7. TabsInv'
      BY <2>2, <3>1, <3>5, <3>6 DEF GuiInv, TabsInv, Range1
    <3> QED
      BY <1>2, <1>3, <3>2, <3>7 DEF GuiInv
  <2> QED
    BY <1>4, <2>1, <2>2 DEF load_controller
<1>5. CASE unload_controller(c)
  <2>1. c \in ticked /\ tabs' = Removed(c) /\ ticked' = ticked \ {c} /\ dialog' = dialog
    BY <1>5 DEF unload_controller
  <2>2. /\ tabs' \in Seq(Controllers) /\ Range1(tabs)' = ticked'
        /\ \A i, j \in DOMAIN tabs' : tabs'[i] = tabs'[j] => i = j
    BY <2>1, TabRemoved DEF GuiInv, Range1
  <2>3. IsFiniteSet(ticked')
    BY <2>1, FS_RemoveElement DEF GuiInv, TabsInv
  <2>4. GuiType'
    BY <1>1, <2>1, <2>2 DEF GuiInv, GuiType
  <2>5. TabsInv'
    BY <2>2, <2>3 DEF TabsInv
  <2> QED
    BY <1>2, <1>3, <2>4, <2>5 DEF GuiInv
<1> QED
  BY <1>4, <1>5

(* A dialog is dismissed, or a page returned to.                           *)
LEMMA SilentStep ==
  ASSUME GuiInv, Dismiss \/ \E p \in 1 .. Len(tabs) + 1 : switch_back(p)
  PROVE  GuiInv'
<1>1. UNCHANGED <<go, controller_loaded, controllerName, currentControllerID, tabs, ticked,
                  closed, guiDataIn, cm, overwritten>>
  BY DEF Dismiss, switch_back
<1>2. LastInv' /\ MeantInv' /\ TabsInv'
  BY <1>1, NothingSent, TabsKept DEF GuiInv
<1>3. CASE Dismiss
  <2>1. page' = page /\ dialog' = FALSE
    BY <1>3 DEF Dismiss
  <2>2. GuiType' /\ PageInv'
    BY <1>1, <2>1 DEF GuiInv, GuiType, PageInv
  <2> QED
    BY <1>2, <2>2 DEF GuiInv
<1>4. ASSUME NEW p \in 1 .. Len(tabs) + 1, switch_back(p) PROVE GuiInv'
  <2>1. page' = currentControllerID /\ dialog' = dialog
    BY <1>4 DEF switch_back
  <2>2. GuiType' /\ PageInv'
    BY <1>1, <2>1 DEF GuiInv, GuiType, PageInv
  <2> QED
    BY <1>2, <2>2 DEF GuiInv
<1> QED
  BY <1>3, <1>4

(* One message that goes on about the same controller.                     *)
LEMMA PublishStep ==
  ASSUME GuiType, LastInv, MeantInv, NEW m \in Order, Publish(m), go' = m,
         m.requestedController = go.requestedController, closed' = FALSE
  PROVE  /\ LastInv' /\ MeantInv' /\ cm' = cm /\ overwritten' \in BOOLEAN
         /\ guiDataIn' = <<m>>
<1>1. /\ guiDataIn' = <<m>> /\ <<m>> # << >> /\ <<m>>[1] = m
      /\ overwritten' = (overwritten \/ guiDataIn # << >>) /\ cm' = cm
  BY DEF Publish
<1>2. LastInv'
  BY <1>1 DEF LastInv
<1>3. MeantInv'
  BY <1>1 DEF LastInv, MeantInv, Unloading, UnloadArrives
<1> QED
  BY <1>1, <1>2, <1>3 DEF GuiType

(* Two messages, of which one at least unloads.                            *)
LEMMA BothStep ==
  ASSUME GuiType, LastInv, MeantInv, NEW m \in Order, NEW n \in Order, PublishBoth(m, n),
         n.requestedController = go'.requestedController, n.command # "RUN",
         "UNLOAD_CONTROLLER" \in {m.command, n.command},
         \/ m.requestedController \in {"none", go'.requestedController}
         \/ n.command = "UNLOAD_CONTROLLER",
         closed' => n = Takedown
  PROVE  /\ LastInv' /\ MeantInv' /\ cm' \in ManagerType /\ overwritten' \in BOOLEAN
         /\ guiDataIn' = <<n>>
<1>1. /\ guiDataIn' = <<n>> /\ <<n>> # << >> /\ <<n>>[1] = n /\ overwritten' \in BOOLEAN
      /\ cm'.state = cm.state /\ cm'.name = cm.name
  BY DEF PublishBoth, GuiType, ManagerType
<1>2. LastInv'
  BY <1>1 DEF LastInv
<1>3. /\ cm' \in ManagerType
      /\ ~overwritten' => /\ cm'.requested = m.requestedController
                          /\ m.command \in Range1(cm'.commandBuffer)
  <2>1. CASE overwritten' = TRUE /\ cm' = cm
    BY <2>1 DEF GuiType
  <2>2. CASE cm' = [cm EXCEPT !.requested = m.requestedController,
                              !.commandBuffer = Append(@, m.command)]
    <3>1. /\ Append(cm.commandBuffer, m.command) \in Seq(UserCommand)
          /\ m.command \in Range1(Append(cm.commandBuffer, m.command))
      <4>1. cm.commandBuffer \in Seq(UserCommand) /\ m.command \in UserCommand
        BY DEF GuiType, ManagerType, Order
      <4> QED
        BY <4>1, QueueAppend
    <3>2. m.requestedController \in Requested
      BY DEF Order
    <3> QED
      BY <2>2, <3>1, <3>2 DEF GuiType, ManagerType
  <2> QED
    BY <2>1, <2>2 DEF PublishBoth
<1>4. MeantInv'
  <2>1. cm'.state = "NO_CONTROLLER_LOADED" => cm'.name = "none"
    BY <1>1 DEF MeantInv
  <2>2. closed' => UnloadArrives'
    BY <1>1 DEF UnloadArrives, Takedown, Command
  <2>3. ASSUME ~overwritten'
        PROVE  /\ cm'.requested \in {"none", go'.requestedController} \/ UnloadArrives'
               /\ Unloading' \/ UnloadArrives'
    BY <1>1, <1>3, <2>3 DEF Unloading, UnloadArrives
  <2> QED
    BY <2>1, <2>2, <2>3 DEF MeantInv
<1> QED
  BY <1>1, <1>2, <1>3, <1>4

(* Another page is turned to.                                              *)
LEMMA PageStep ==
  ASSUME GuiInv, switch_to_list \/ \E p \in 2 .. Len(tabs) + 1 : switch_controllers(p)
  PROVE  GuiInv'
<1>1. Takedown \in Order /\ \A c \in Requested : Command("STOP", c) \in Order
  BY DEF Takedown, Command, Order, Requested, UserCommand
<1>2. CASE switch_to_list
  <2>1. /\ PublishBoth(Takedown, Takedown) /\ go' = Command("STOP", "none")
        /\ controller_loaded' = FALSE /\ page' = 1 /\ ~closed
        /\ UNCHANGED <<controllerName, currentControllerID, tabs, ticked, dialog, closed>>
    BY <1>2 DEF switch_to_list, Acts
  <2>2. /\ LastInv' /\ MeantInv' /\ cm' \in ManagerType /\ overwritten' \in BOOLEAN
        /\ guiDataIn' = <<Takedown>>
    BY <1>1, <2>1, BothStep DEF GuiInv, Takedown, Command
  <2>3. GuiType'
    BY <1>1, <2>1, <2>2 DEF GuiInv, GuiType, Requested
  <2>4. TabsInv' /\ PageInv'
    BY <2>1, TabsKept DEF GuiInv, PageInv, Command
  <2> QED
    BY <2>2, <2>3, <2>4 DEF GuiInv
<1>3. ASSUME NEW p \in 2 .. Len(tabs) + 1, switch_controllers(p) PROVE GuiInv'
  <2> DEFINE c == tabs[p - 1]
             n == Command("STOP", c)
  <2>1. c \in Controllers /\ n \in Order
    <3>1. p - 1 \in 1 .. Len(tabs)
      BY LenProperties DEF GuiInv, GuiType
    <3> QED
      BY <1>1, <3>1, ElementOfSeq DEF GuiInv, GuiType, Requested
  <2>2. /\ PublishBoth(Takedown, n) /\ go' = n /\ ~closed
        /\ controllerName' = c /\ currentControllerID' = p /\ page' = p
        /\ controller_loaded' = (quality[c] # "noFunctions")
        /\ dialog' = (quality[c] = "noFunctions")
        /\ UNCHANGED <<tabs, ticked, closed>>
    BY <1>3 DEF switch_controllers, ShownID, Acts
  <2>3. /\ LastInv' /\ MeantInv' /\ cm' \in ManagerType /\ overwritten' \in BOOLEAN
        /\ guiDataIn' = <<n>>
    BY <1>1, <2>1, <2>2, BothStep DEF GuiInv, Takedown, Command
  <2>4. GuiType'
    BY <2>1, <2>2, <2>3 DEF GuiInv, GuiType
  <2>5. TabsInv' /\ PageInv'
    BY <2>2, TabsKept DEF GuiInv, PageInv, Command
  <2> QED
    BY <2>3, <2>4, <2>5 DEF GuiInv
<1> QED
  BY <1>2, <1>3

(* A button is pressed.                                                    *)
LEMMA ButtonStep ==
  ASSUME GuiInv, enable_motors \/ disable_motors \/ estop_button_clicked
  PROVE  GuiInv'
<1> DEFINE Pressed(command) == [go EXCEPT !.command = command]
<1>1. PICK command \in {"RUN", "STOP", "E_STOP"} :
        /\ go' = Pressed(command) /\ Publish(Pressed(command)) /\ ~closed
        /\ command # "STOP" => controller_loaded
        /\ UNCHANGED <<controller_loaded, shell, closed>>
  BY DEF enable_motors, disable_motors, estop_button_clicked, Acts
<1>2. /\ Pressed(command) \in Order /\ Pressed(command).command = command
      /\ Pressed(command).requestedController = go.requestedController
  BY DEF GuiInv, GuiType, Order, UserCommand
<1>3. /\ LastInv' /\ MeantInv' /\ cm' = cm /\ overwritten' \in BOOLEAN
      /\ guiDataIn' = <<Pressed(command)>>
  BY <1>1, <1>2, PublishStep DEF GuiInv, GuiType
<1> HIDE DEF Pressed
<1>4. GuiType'
  BY <1>1, <1>2, <1>3 DEF GuiInv, GuiType, shell
<1>5. TabsInv' /\ PageInv'
  BY <1>1, <1>2, TabsKept DEF GuiInv, PageInv, shell
<1> QED
  BY <1>3, <1>4, <1>5 DEF GuiInv

(* The GUI is closed or started.                                           *)
LEMMA ShutStep == ASSUME GuiInv, close \/ main PROVE GuiInv'
<1>1. Takedown \in Order /\ Command("STOP", "none") \in Order
  BY DEF Takedown, Command, Order, Requested, UserCommand
<1>2. CASE close
  <2> DEFINE m == [go EXCEPT !.command = "STOP"]
  <2>1. /\ closed' = TRUE /\ go' = Takedown /\ PublishBoth(m, Takedown)
        /\ controller_loaded' = FALSE /\ UNCHANGED shell
    BY <1>2 DEF close
  <2>2. m \in Order
    BY DEF GuiInv, GuiType, Order, UserCommand
  <2>3. /\ LastInv' /\ MeantInv' /\ cm' \in ManagerType /\ overwritten' \in BOOLEAN
        /\ guiDataIn' = <<Takedown>>
    <3> HIDE DEF m
    <3> QED
      BY <1>1, <2>1, <2>2, BothStep DEF GuiInv, Takedown, Command
  <2>4. GuiType'
    BY <1>1, <2>1, <2>3 DEF GuiInv, GuiType, shell
  <2>5. TabsInv' /\ PageInv'
    BY <2>1, TabsKept DEF GuiInv, PageInv, shell, Takedown, Command
  <2> QED
    BY <2>3, <2>4, <2>5 DEF GuiInv
<1>3. CASE main
  <2>1. /\ closed /\ closed' = FALSE /\ go' = Command("STOP", "none")
        /\ controller_loaded' = FALSE /\ currentControllerID' = 2 /\ page' = 1
        /\ tabs' = << >> /\ ticked' = {} /\ dialog' = FALSE
        /\ UNCHANGED <<guiDataIn, cm, overwritten>>
    BY <1>3 DEF main
  <2>2. go = Takedown /\ go'.requestedController = go.requestedController
        /\ go.command # "RUN"
    BY <2>1 DEF GuiInv, PageInv, Takedown, Command
  <2>3. LastInv' /\ MeantInv'
    <3>1. /\ guiDataIn' = guiDataIn /\ cm' = cm /\ overwritten' = overwritten
          /\ closed' = FALSE
          /\ Unloading' = Unloading /\ UnloadArrives' = UnloadArrives
      BY <2>1 DEF Unloading, UnloadArrives
    <3>2. LastInv'
      BY <2>2, <3>1 DEF GuiInv, LastInv
    <3>3. MeantInv'
      BY <2>2, <3>1 DEF GuiInv, MeantInv
    <3> QED
      BY <3>2, <3>3
  <2>4. GuiType'
    <3>1. tabs' \in Seq(Controllers)
      BY <2>1, EmptySeq
    <3> QED
      BY <1>1, <2>1, <3>1 DEF GuiInv, GuiType
  <2>5. TabsInv'
    BY <2>1, FS_EmptySet DEF TabsInv, Range1
  <2>6. PageInv'
    BY <2>1 DEF PageInv, Command
  <2> QED
    BY <2>3, <2>4, <2>5, <2>6 DEF GuiInv
<1> QED
  BY <1>2, <1>3

----------------------------------------------------------------------------
(* The Controller Manager's steps leave the GUI alone.                     *)

(* The GUI's parts of the invariant do not depend on the robot.            *)
LEMMA GuiKept ==
  ASSUME TabsInv, PageInv, UNCHANGED gui
  PROVE  TabsInv' /\ PageInv'
BY DEF TabsInv, PageInv, gui, shell

(* The Controller Manager reads the GUI's message.                         *)
LEMMA ReadStep == ASSUME GuiInv, updateHook PROVE GuiInv'
<1>1. PICK m \in Order : guiDataIn = <<m>>
  BY DEF updateHook, GuiInv, GuiType
<1> DEFINE queue1 == Append(cm.commandBuffer, m.command)
<1>2. /\ guiDataIn' = << >> /\ UNCHANGED <<gui, overwritten>>
      /\ cm' = [cm EXCEPT !.requested = m.requestedController, !.commandBuffer = queue1]
  BY <1>1 DEF updateHook
<1>3. /\ queue1 \in Seq(UserCommand) /\ queue1 # << >>
      /\ Range1(queue1) = Range1(cm.commandBuffer) \cup {m.command}
      /\ queue1[Len(queue1)] = m.command
  <2>1. cm.commandBuffer \in Seq(UserCommand) /\ m.command \in UserCommand
    BY DEF GuiInv, GuiType, ManagerType, Order
  <2> QED
    BY <2>1, QueueAppend
<1> HIDE DEF queue1
<1>4. /\ cm' \in ManagerType
      /\ cm'.requested = m.requestedController /\ cm'.commandBuffer = queue1
      /\ cm'.state = cm.state /\ cm'.name = cm.name /\ cm'.waits = cm.waits
  BY <1>2, <1>3 DEF GuiInv, GuiType, ManagerType, Order
<1>5. GuiType'
  BY <1>2, <1>4 DEF GuiInv, GuiType, gui, shell
<1>6. /\ guiDataIn # << >> /\ guiDataIn[1] = m
      /\ go' = go /\ closed' = closed /\ overwritten' = overwritten
  BY <1>1, <1>2 DEF gui
<1>7. LastInv'
  BY <1>2, <1>3, <1>4, <1>6 DEF GuiInv, LastInv
<1>8. MeantInv'
  BY <1>2, <1>3, <1>4, <1>6 DEF GuiInv, LastInv, MeantInv, Unloading, UnloadArrives
<1> QED
  BY <1>2, <1>5, <1>7, <1>8, GuiKept DEF GuiInv

(* What a command does.                                                    *)
LEMMA CommandFacts ==
  ASSUME GuiInv, cm.waits = "none", NEW c \in UserCommand, NEW runs \in BOOLEAN
  PROVE  LET h == handleUserCommand(c, runs) IN
         /\ h \in ManagerType
         /\ h.requested = cm.requested /\ h.commandBuffer = cm.commandBuffer
         /\ h.state = "NO_CONTROLLER_LOADED" => h.name = "none"
         /\ h.name = cm.name \/ h.name = cm.requested
         /\ c = "UNLOAD_CONTROLLER" => h.name = cm.name /\ (h.waits = "ACK_RESET" \/ h.name = "none")
         /\ c # "RUN" /\ h.state = "CONTROLLER_RUNNING" => h.waits = "ACK_RESET"
<1>1. cm \in ManagerType /\ (cm.state = "NO_CONTROLLER_LOADED" => cm.name = "none")
  BY DEF GuiInv, GuiType, MeantInv
<1> QED
  BY <1>1 DEF ManagerType, handleUserCommand, UserCommand

(* It carries out the first command of its queue.                          *)
LEMMA ProcessStep ==
  ASSUME GuiInv, NEW runs \in BOOLEAN, tryProcessCommand(runs) PROVE GuiInv'
<1> DEFINE s == cm.commandBuffer
           h == handleUserCommand(Head(s), runs)
<1>1. /\ cm.waits = "none" /\ s # << >>
      /\ cm' = [h EXCEPT !.commandBuffer = Tail(h.commandBuffer)]
      /\ UNCHANGED <<gui, guiDataIn, overwritten>>
  BY DEF tryProcessCommand
<1>2. s \in Seq(UserCommand)
  BY DEF GuiInv, GuiType, ManagerType
<1>3. /\ Head(s) \in UserCommand /\ Tail(s) \in Seq(UserCommand)
      /\ Range1(s) = Range1(Tail(s)) \cup {Head(s)}
      /\ Tail(s) # << >> => Tail(s)[Len(Tail(s))] = s[Len(s)]
      /\ Tail(s) = << >> => Head(s) = s[Len(s)]
  BY <1>1, <1>2, QueueTail
<1>4. /\ h \in ManagerType
      /\ h.requested = cm.requested /\ h.commandBuffer = s
      /\ h.state = "NO_CONTROLLER_LOADED" => h.name = "none"
      /\ h.name = cm.name \/ h.name = cm.requested
      /\ Head(s) = "UNLOAD_CONTROLLER" =>
           h.name = cm.name /\ (h.waits = "ACK_RESET" \/ h.name = "none")
      /\ Head(s) # "RUN" /\ h.state = "CONTROLLER_RUNNING" => h.waits = "ACK_RESET"
  BY <1>1, <1>3, CommandFacts
<1> HIDE DEF h
<1>5. /\ cm' \in ManagerType
      /\ cm'.requested = cm.requested /\ cm'.commandBuffer = Tail(s)
      /\ cm'.state = h.state /\ cm'.name = h.name /\ cm'.waits = h.waits
  BY <1>1, <1>3, <1>4 DEF ManagerType
<1>6. go' = go /\ closed' = closed /\ guiDataIn' = guiDataIn /\ overwritten' = overwritten
  BY <1>1 DEF gui
<1>7. GuiType'
  BY <1>1, <1>5 DEF GuiInv, GuiType, gui, shell
<1>8. LastInv'
  BY <1>1, <1>3, <1>4, <1>5, <1>6 DEF GuiInv, LastInv
<1>9. MeantInv'
  <2>1. cm'.state = "NO_CONTROLLER_LOADED" => cm'.name = "none"
    BY <1>4, <1>5
  <2>2. UnloadArrives' = UnloadArrives
    BY <1>6 DEF UnloadArrives
  <2>3. Unloading => Unloading' \/ cm'.name = "none"
    BY <1>1, <1>3, <1>4, <1>5 DEF Unloading
  <2>4. ~overwritten =>
          /\ cm'.requested \in {"none", go'.requestedController} \/ UnloadArrives'
          /\ cm'.name \in {"none", go'.requestedController} \/ Unloading' \/ UnloadArrives'
    BY <1>4, <1>5, <1>6, <2>2, <2>3 DEF GuiInv, MeantInv
  <2>5. closed => \/ UnloadArrives'
                  \/ guiDataIn' = << >> /\ (cm'.name = "none" \/ Unloading')
    BY <1>4, <1>5, <1>6, <2>2, <2>3
    DEF GuiInv, MeantInv, LastInv, PageInv, Takedown, Command
  <2> QED
    BY <1>6, <2>1, <2>4, <2>5 DEF MeantInv
<1> QED
  BY <1>1, <1>7, <1>8, <1>9, GuiKept DEF GuiInv

(* RT Ops answers, or stops by itself.                                     *)
LEMMA EventStep == ASSUME GuiInv, Answer \/ throwEstop PROVE GuiInv'
<1>1. /\ UNCHANGED <<gui, guiDataIn, overwritten>>
      /\ cm'.requested = cm.requested /\ cm'.commandBuffer = cm.commandBuffer
      /\ cm' \in ManagerType
      /\ \/ cm'.name = cm.name /\ (cm.waits = "ACK_RESET" => cm'.waits = "ACK_RESET")
         \/ cm'.name = "none"
      /\ cm'.state = "NO_CONTROLLER_LOADED" => cm'.name = "none"
      /\ cm'.state = "CONTROLLER_RUNNING" => cm.state = "CONTROLLER_RUNNING"
                                             /\ cm.waits # "ACK_RESET"
  <2>1. cm \in ManagerType /\ (cm.state = "NO_CONTROLLER_LOADED" => cm.name = "none")
    BY DEF GuiInv, GuiType, MeantInv
  <2>2. CASE Answer
    BY <2>1, <2>2 DEF Answer, setState, ManagerType, Requested
  <2>3. CASE throwEstop
    BY <2>1, <2>3 DEF throwEstop, ManagerType
  <2> QED
    BY <2>2, <2>3
<1>2. go' = go /\ closed' = closed /\ guiDataIn' = guiDataIn /\ overwritten' = overwritten
  BY <1>1 DEF gui
<1>3. GuiType'
  BY <1>1 DEF GuiInv, GuiType, gui, shell
<1>4. LastInv'
  BY <1>1, <1>2 DEF GuiInv, LastInv
<1>5. Unloading => Unloading' \/ cm'.name = "none"
  BY <1>1 DEF Unloading
<1>6. MeantInv'
  BY <1>1, <1>2, <1>5 DEF GuiInv, MeantInv, UnloadArrives
<1> QED
  BY <1>1, <1>3, <1>4, <1>6, GuiKept DEF GuiInv

----------------------------------------------------------------------------
(* The invariant of the GUI holds always.                                  *)
LEMMA GuiAlways == GuiSpec => []GuiInv
<1>1. GuiInit => GuiInv
  <2> SUFFICES ASSUME GuiInit PROVE GuiInv
    OBVIOUS
  <2>1. GuiType
    <3>1. tabs \in Seq(Controllers) /\ cm.commandBuffer \in Seq(UserCommand)
      BY EmptySeq DEF GuiInit
    <3> QED
      BY <3>1 DEF GuiInit, GuiType, ManagerType, Order, Requested, UserCommand, Command
  <2>2. TabsInv
    BY FS_EmptySet DEF GuiInit, TabsInv, Range1
  <2>3. PageInv /\ LastInv /\ MeantInv
    BY DEF GuiInit, PageInv, LastInv, MeantInv, Command
  <2> QED
    BY <2>1, <2>2, <2>3 DEF GuiInv
<1>2. GuiInv /\ [GuiNext]_gvars => GuiInv'
  <2> SUFFICES ASSUME GuiInv, [GuiNext]_gvars PROVE GuiInv'
    OBVIOUS
  <2>1. CASE UNCHANGED gvars
    BY <2>1 DEF gvars, shell, GuiInv, GuiType, TabsInv, PageInv, LastInv, MeantInv,
                Unloading, UnloadArrives
  <2>2. CASE GuiNext
    BY <2>2, ListStep, SilentStep, PageStep, ButtonStep, ShutStep, ReadStep, ProcessStep,
       EventStep DEF GuiNext
  <2> QED
    BY <2>1, <2>2
<1> QED
  BY <1>1, <1>2, PTL DEF GuiSpec

(***************************************************************************)
(* A controller that runs can be stopped: the E-stop button works, or a    *)
(* command that ends the run is on its way (RunningCanBeStopped).  The     *)
(* last command the Controller Manager will have read is the last the GUI  *)
(* gave, and a GUI that gave RUN last has a loaded controller and no       *)
(* dialog open.                                                            *)
(***************************************************************************)
THEOREM RunIsStoppable == GuiSpec => []RunningCanBeStopped
<1>1. GuiInv => RunningCanBeStopped
  <2> SUFFICES ASSUME GuiInv, cm.state = "CONTROLLER_RUNNING", go.command # "RUN",
                      cm.waits # "ACK_RESET", guiDataIn = << >>
               PROVE  {"STOP", "E_STOP", "UNLOAD_CONTROLLER"} \cap Range1(cm.commandBuffer) # {}
    BY DEF RunningCanBeStopped, GuiInv, LastInv, PageInv
  <2> DEFINE s == cm.commandBuffer
  <2>1. s \in Seq(UserCommand) /\ s # << >> /\ s[Len(s)] # "RUN"
    BY DEF GuiInv, GuiType, ManagerType, LastInv
  <2>2. Len(s) \in DOMAIN s
    <3>1. Len(s) \in Nat \ {0} /\ DOMAIN s = 1 .. Len(s)
      BY <2>1, EmptySeq, LenProperties
    <3> QED
      BY <3>1
  <2>3. s[Len(s)] \in UserCommand
    BY <2>1, <2>2, LenProperties
  <2> QED
    BY <2>1, <2>2, <2>3 DEF UserCommand, Range1
<1> QED
  BY <1>1, GuiAlways, PTL

(***************************************************************************)
(* What the GUI shows, what it requests and what the Controller Manager    *)
(* has loaded agree (GuiAgrees), for any plugins, good and bad: as long as *)
(* no message was overwritten, an old controller is unloaded before a new  *)
(* one can be loaded, and closing unloads in any case.                     *)
(***************************************************************************)
THEOREM GuiAndRobotAgree == GuiSpec => []GuiAgrees
<1>1. GuiInv => GuiAgrees
  <2> SUFFICES ASSUME GuiInv PROVE GuiAgrees
    OBVIOUS
  <2>1. TabsAreTicked
    <3>1. tabs \in Bijection(1 .. Len(tabs), ticked)
      <4>1. DOMAIN tabs = 1 .. Len(tabs) /\ tabs = [i \in 1 .. Len(tabs) |-> tabs[i]]
        BY LenProperties DEF GuiInv, GuiType
      <4>2. tabs \in [1 .. Len(tabs) -> ticked]
        BY <4>1 DEF GuiInv, TabsInv, Range1
      <4>3. tabs \in Injection(1 .. Len(tabs), ticked)
        BY <4>1, <4>2 DEF GuiInv, TabsInv, Injection, IsInjective
      <4>4. tabs \in Surjection(1 .. Len(tabs), ticked)
        BY <4>1, <4>2 DEF GuiInv, TabsInv, Range1, Surjection
      <4> QED
        BY <4>3, <4>4 DEF Bijection
    <3>2. Len(tabs) \in Nat
      BY LenProperties DEF GuiInv, GuiType
    <3>3. Cardinality(ticked) = Len(tabs)
      BY <3>1, <3>2, FS_CountingElements DEF ExistsBijection
    <3> QED
      BY <3>3 DEF GuiInv, TabsInv, TabsAreTicked
  <2>2. LoadedIsShown
    BY DEF GuiInv, GuiType, PageInv, LoadedIsShown
  <2>3. AtRest => ~Unloading /\ ~UnloadArrives
    BY DEF AtRest, Unloading, UnloadArrives, Range1
  <2>4. LoadedAsRequested /\ CloseUnloads
    BY <2>3 DEF GuiInv, MeantInv, LoadedAsRequested, CloseUnloads
  <2> QED
    BY <2>1, <2>2, <2>4 DEF GuiAgrees
<1> QED
  BY <1>1, GuiAlways, PTL

----------------------------------------------------------------------------
(* The logger.                                                             *)

Message == [id : Nat, time : Nat]

(* The types, as far as the arguments need them.                           *)
RecorderType ==
  /\ opt.limit \in Nat /\ opt.max_size \in Nat /\ opt.max_duration \in Nat
  /\ opt.buffer_size \in Nat
  /\ clock \in Nat /\ num_subscribers \in Int
  /\ queue \in Seq(Message)
  /\ DOMAIN past = {"received", "owed", "dropped", "raced", "unheld", "renamed", "missed",
                    "stopped", "shots"}
  /\ IsFiniteSet(past.owed)
  /\ DOMAIN callback = Topics /\ DOMAIN topic = Topics
  /\ \A t \in Topics :
       /\ DOMAIN callback[t] = {"at", "id", "time", "seen"}
       /\ callback[t].time \in Nat /\ callback[t].seen \in Int
       /\ callback[t].at \in {"idle", "push", "count", "subtract"}
       /\ DOMAIN topic[t] = {"subscribed", "recorded", "count", "step", "seen"}
       /\ topic[t].count \in Int /\ topic[t].seen \in Int
       /\ topic[t].step \in {"none", "assign", "add"}

(* What the writer's steps leave as it was.                                *)
WriterKeeps ==
  /\ UNCHANGED <<opt, clock, cbVars, notified>> /\ (ok' => ok)
  /\ DOMAIN past' = DOMAIN past /\ past'.owed = past.owed /\ past'.raced = past.raced
  /\ past'.unheld = past.unheld
  /\ past'.renamed = past.renamed /\ past'.shots = past.shots

(* What the writer leaves alone.                                           *)
LEMMA WriterFrame ==
  ASSUME RecorderType, WriterNext
  PROVE  /\ WriterKeeps
         /\ Lock \/ UNCHANGED <<queue, queue_size>>
<1>1. ASSUME NEW b \in BOOLEAN, startWriting(b)
      PROVE  WriterKeeps /\ UNCHANGED <<queue, queue_size>>
  BY <1>1 DEF startWriting, cbVars, queueVars, WriterKeeps
<1>2. ASSUME Continue \/ SnapshotLoop \/ SnapshotWait \/ stopWriting
      PROVE  WriterKeeps /\ UNCHANGED <<queue, queue_size>>
  BY <1>2 DEF Continue, SnapshotLoop, SnapshotWait, stopWriting, cbVars, queueVars,
     fileVars, WriterKeeps
<1>3. ASSUME Lock
      PROVE  WriterKeeps
  BY <1>3 DEF Lock, cbVars, fileVars, WriterKeeps
<1>4. ASSUME Wait \/ checkSize \/ Duration
      PROVE  WriterKeeps /\ UNCHANGED <<queue, queue_size>>
  BY <1>4 DEF Wait, checkSize, Duration, checkDuration, ShutDown, Cut, cbVars, queueVars,
     WriterKeeps, RecorderType
<1>5. ASSUME NEW due \in BOOLEAN, NEW space \in BOOLEAN, Write(due, space)
      PROVE  WriterKeeps /\ UNCHANGED <<queue, queue_size>>
  BY <1>5 DEF Write, cbVars, queueVars, WriterKeeps, RecorderType
<1>6. ASSUME NEW b \in BOOLEAN, SnapshotLock(b)
      PROVE  WriterKeeps /\ UNCHANGED <<queue, queue_size>>
  BY <1>6 DEF SnapshotLock, cbVars, WriterKeeps
<1> QED
  BY <1>1, <1>2, <1>3, <1>4, <1>5, <1>6 DEF WriterNext

(* Ids of messages are natural numbers.                                    *)
LEMMA NextIdType == ASSUME RecorderType PROVE NextId \in Nat
BY FS_CardinalityType DEF RecorderType, NextId

(* The buffer keeps the newest messages, no more than there is room for.   *)
LEMMA KeptFacts ==
  ASSUME RecorderType, NEW q \in Seq(Message)
  PROVE  /\ Kept(q) \in Seq(Message)
         /\ Len(Kept(q)) <= Len(q)
         /\ opt.buffer_size > 0 => Len(Kept(q)) <= opt.buffer_size
<1>1. CASE opt.buffer_size > 0 /\ Len(q) > opt.buffer_size
  <2> DEFINE first == Len(q) - opt.buffer_size + 1
  <2>1. first \in 1 .. Len(q) /\ Len(q) \in Nat /\ opt.buffer_size \in Nat
    BY <1>1 DEF RecorderType
  <2>2. /\ SubSeq(q, first, Len(q)) \in Seq(Message)
        /\ Len(SubSeq(q, first, Len(q))) = opt.buffer_size
    BY <2>1, SubSeqProperties
  <2> QED
    BY <1>1, <2>2 DEF Kept
<1>2. CASE ~(opt.buffer_size > 0 /\ Len(q) > opt.buffer_size)
  BY <1>2 DEF Kept, RecorderType
<1> QED
  BY <1>1, <1>2

(* The steps of a topic's thread keep the types of its own data.           *)
LEMMA CallbackType ==
  ASSUME RecorderType, NEW t \in Topics, CallbackNext(t)
  PROVE  RecorderType'
<1>0. IsFiniteSet(past.owed)
  BY DEF RecorderType
<1>1. CASE doQueue(t)
  <2>1. [id |-> NextId, time |-> callback[t].time] \in Message
    BY NextIdType DEF RecorderType, Message
  <2>2. Append(queue, [id |-> NextId, time |-> callback[t].time]) \in Seq(Message)
    BY <2>1 DEF RecorderType
  <2>3. queue' \in Seq(Message)
    BY <1>1, <2>2, KeptFacts DEF doQueue
  <2>4. past'.owed = past.owed \cup {NextId} /\ DOMAIN past' = DOMAIN past
    BY <1>1 DEF doQueue, RecorderType
  <2>5. IsFiniteSet(past'.owed)
    BY <1>0, <2>4, FS_AddElement
  <2>6. /\ DOMAIN callback' = Topics
        /\ \A u \in Topics : \/ callback'[u] = callback[u]
                             \/ callback'[u] = [Idle EXCEPT !.at = "count"]
                             \/ callback'[u] = Idle
    BY <1>1 DEF doQueue, RecorderType
  <2> QED
    BY <1>1, <2>3, <2>4, <2>5, <2>6 DEF doQueue, RecorderType, Idle
<1>2. CASE Count(t)
  <2>1. /\ DOMAIN callback' = Topics
        /\ \A u \in Topics :
             \/ callback'[u] = callback[u]
             \/ callback'[u] = [Idle EXCEPT !.at = "subtract", !.seen = num_subscribers]
             \/ callback'[u] = Idle
    BY <1>2 DEF Count, RecorderType
  <2>2. /\ DOMAIN topic' = Topics
        /\ \A u \in Topics :
             /\ DOMAIN topic'[u] = {"subscribed", "recorded", "count", "step", "seen"}
             /\ topic'[u].count \in Int /\ topic'[u].seen \in Int
             /\ topic'[u].step = topic[u].step
    BY <1>2 DEF Count, RecorderType
  <2>3. past'.owed = past.owed /\ DOMAIN past' = DOMAIN past
    BY <1>2 DEF Count, RecorderType
  <2> QED
    BY <1>0, <1>2, <2>1, <2>2, <2>3 DEF Count, RecorderType, Idle, queueVars
<1>3. CASE Subtract(t)
  <2>1. /\ DOMAIN callback' = Topics
        /\ \A u \in Topics : callback'[u] = callback[u] \/ callback'[u] = Idle
    BY <1>3 DEF Subtract, RecorderType
  <2>2. past'.owed = past.owed /\ DOMAIN past' = DOMAIN past
    BY <1>3 DEF Subtract, RecorderType
  <2>3. num_subscribers' \in Int
    BY <1>3 DEF Subtract, RecorderType
  <2> QED
    BY <1>0, <1>3, <2>1, <2>2, <2>3 DEF Subtract, RecorderType, Idle, queueVars
<1> QED
  BY <1>1, <1>2, <1>3 DEF CallbackNext

(* The other steps of the environment, the user and the spinner.           *)
LEMMA OtherType ==
  ASSUME RecorderType,
         \/ Tick \/ Interrupt \/ Notify \/ snapshotTrigger \/ Joined
         \/ \E t \in Topics : doCheckMaster(t) \/ subscribe(t) \/ Receive(t)
  PROVE  RecorderType'
<1>1. CASE Tick \/ Interrupt \/ Joined
  BY <1>1 DEF Tick, Interrupt, Joined, RecorderType, queueVars, cbVars, rvars
<1>2. CASE Notify
  BY <1>2 DEF Notify, RecorderType, queueVars, cbVars
<1>3. CASE snapshotTrigger
  <2>1. queue' \in Seq(Message)
    BY <1>3 DEF snapshotTrigger
  <2>2. past'.owed = past.owed /\ DOMAIN past' = DOMAIN past
    BY <1>3 DEF snapshotTrigger, RecorderType
  <2>3. IsFiniteSet(past'.owed)
    BY <2>2 DEF RecorderType
  <2> QED
    BY <1>3, <2>1, <2>2, <2>3 DEF snapshotTrigger, RecorderType, cbVars
<1>4. ASSUME NEW t \in Topics, doCheckMaster(t) \/ subscribe(t)
      PROVE  RecorderType'
  <2>1. /\ DOMAIN topic' = Topics
        /\ \A u \in Topics :
             /\ DOMAIN topic'[u] = {"subscribed", "recorded", "count", "step", "seen"}
             /\ topic'[u].count \in Int /\ topic'[u].seen \in Int
             /\ topic'[u].step \in {"none", "assign", "add"}
    <3>1. CASE doCheckMaster(t)
      BY <3>1 DEF doCheckMaster, RecorderType
    <3>2. CASE Assign(t)
      BY <3>2 DEF Assign, RecorderType
    <3>3. CASE Add(t)
      BY <3>3 DEF Add, RecorderType
    <3> QED
      BY <1>4, <3>1, <3>2, <3>3 DEF subscribe
  <2>2. /\ past'.owed = past.owed /\ DOMAIN past' = DOMAIN past
        /\ num_subscribers' \in Int
        /\ UNCHANGED <<opt, clock, ok, queueVars, callback, notified, writer, fileVars>>
    <3>1. CASE doCheckMaster(t)
      BY <3>1 DEF doCheckMaster, RecorderType
    <3>2. CASE Assign(t)
      BY <3>2 DEF Assign, RecorderType
    <3>3. CASE Add(t)
      BY <3>3 DEF Add, RecorderType
    <3> QED
      BY <1>4, <3>1, <3>2, <3>3 DEF subscribe
  <2> QED
    BY <2>1, <2>2 DEF RecorderType, queueVars
<1>5. ASSUME NEW t \in Topics, Receive(t)
      PROVE  RecorderType'
  <2>1. /\ DOMAIN callback' = Topics
        /\ \A u \in Topics : \/ callback'[u] = callback[u]
                             \/ callback'[u] = [Idle EXCEPT !.at = "push", !.time = clock]
    BY <1>5 DEF Receive, RecorderType
  <2>2. past'.owed = past.owed /\ DOMAIN past' = DOMAIN past
    BY <1>5 DEF Receive, RecorderType
  <2> QED
    BY <1>5, <2>1, <2>2 DEF Receive, RecorderType, queueVars, Idle
<1> QED
  BY <1>1, <1>2, <1>3, <1>4, <1>5

(* The recorder's variables keep their types.                              *)
LEMMA TypeStep == ASSUME RecorderType, [RecorderNext]_rvars PROVE RecorderType'
<1>1. CASE WriterNext
  <2>1. queue # <<>> => Tail(queue) \in Seq(Message)
    BY DEF RecorderType
  <2>2. queue' \in Seq(Message)
    BY <1>1, <2>1, WriterFrame DEF Lock, RecorderType
  <2> QED
    BY <1>1, <2>2, WriterFrame DEF WriterKeeps, RecorderType, cbVars
<1>2. ASSUME NEW t \in Topics, CallbackNext(t)
      PROVE  RecorderType'
  BY <1>2, CallbackType
<1>3. CASE UNCHANGED rvars
  BY <1>3 DEF rvars, queueVars, cbVars, RecorderType
<1> QED
  BY <1>1, <1>2, <1>3, OtherType DEF RecorderNext

(* They have them at first.                                                *)
LEMMA TypeInit == ASSUME RecorderInit PROVE RecorderType
<1>1. PICK o \in Options : opt = parseOptions(o)
  BY DEF RecorderInit
<1>2. /\ opt.limit = o.limit /\ opt.max_size = o.max_size /\ opt.topics = o.topics
      /\ opt.max_duration = o.max_duration /\ opt.buffer_size = o.buffer_size
  BY <1>1, RecorderConstants DEF parseOptions
<1>3. /\ opt.limit \in Nat /\ opt.max_size \in Nat /\ opt.max_duration \in Nat
      /\ opt.buffer_size \in Nat /\ opt.topics \subseteq Topics
  BY <1>2, RecorderConstants
<1>4. IsFiniteSet(Listening(opt))
  BY <1>3, RecorderConstants, FS_Subset DEF Listening
<1>5. num_subscribers \in Int
  BY <1>4, FS_CardinalityType DEF RecorderInit
<1>6. IsFiniteSet(past.owed)
  BY FS_EmptySet DEF RecorderInit
<1> QED
  BY <1>3, <1>5, <1>6 DEF RecorderInit, RecorderType, Idle

(* The queue's size is counted right and keeps to the buffer.              *)
LEMMA BufferStep ==
  ASSUME RecorderType, BufferBounded, [RecorderNext]_rvars
  PROVE  BufferBounded'
<1>1. CASE WriterNext
  <2>1. CASE Lock
    <3>1. CASE queue # <<>>
      <4>1. Len(Tail(queue)) = Len(queue) - 1
        BY <3>1 DEF RecorderType
      <4> QED
        BY <1>1, <2>1, <3>1, <4>1 DEF Lock, BufferBounded, RecorderType
    <3>2. CASE queue = <<>>
      BY <2>1, <3>2 DEF Lock, BufferBounded
    <3> QED
      BY <3>1, <3>2
  <2>2. CASE UNCHANGED <<queue, queue_size>>
    BY <1>1, <2>2, WriterFrame DEF WriterKeeps, BufferBounded
  <2> QED
    BY <1>1, <2>1, <2>2, WriterFrame
<1>2. ASSUME NEW t \in Topics, doQueue(t)
      PROVE  BufferBounded'
  <2> DEFINE all == Append(queue, [id |-> NextId, time |-> callback[t].time])
  <2>1. [id |-> NextId, time |-> callback[t].time] \in Message
    BY NextIdType DEF RecorderType, Message
  <2>2. all \in Seq(Message) /\ Len(all) = Len(queue) + 1
    BY <2>1 DEF RecorderType
  <2>3. /\ queue' = Kept(all) /\ opt' = opt
        /\ queue_size' = queue_size + 1 - (Len(all) - Len(queue'))
    BY <1>2 DEF doQueue
  <2> HIDE DEF all
  <2>4. Len(Kept(all)) \in Nat /\ Len(queue) \in Nat
    BY <2>2, KeptFacts DEF RecorderType
  <2>5. queue_size' = Len(queue')
    BY <2>2, <2>3, <2>4 DEF BufferBounded
  <2> QED
    BY <2>2, <2>3, <2>5, KeptFacts DEF BufferBounded
<1>3. CASE snapshotTrigger
  BY <1>3 DEF snapshotTrigger, BufferBounded, RecorderType
<1>4. CASE \/ Tick \/ Interrupt \/ Notify \/ Joined \/ UNCHANGED rvars
           \/ \E t \in Topics : doCheckMaster(t) \/ Receive(t) \/ Count(t) \/ Subtract(t)
  BY <1>4 DEF Tick, Interrupt, Notify, Joined, rvars, doCheckMaster, Receive, Count,
     Subtract, queueVars, BufferBounded
<1>5. ASSUME NEW t \in Topics, Assign(t) \/ Add(t)
      PROVE  BufferBounded'
  BY <1>5 DEF Assign, Add, queueVars, BufferBounded
<1> QED
  BY <1>1, <1>2, <1>3, <1>4, <1>5 DEF RecorderNext, CallbackNext, subscribe

----------------------------------------------------------------------------
(* --limit.  A topic is subscribed while it has messages left to count; a  *)
(* message taken while it had is counted, or is the last one.  Only a      *)
(* topic that reached the limit before *sub was assigned is subscribed     *)
(* still.                                                                  *)
TopicLimit(t) ==
  /\ topic[t].count >= 0
  /\ topic[t].step = "none" /\ ~topic[t].recorded =>
       ~topic[t].subscribed /\ callback[t].at = "idle" /\ topic[t].count > 0
  /\ topic[t].step = "assign" => ~topic[t].recorded
  /\ topic[t].step = "add" => topic[t].recorded
  /\ topic[t].subscribed /\ t \notin past.unheld => topic[t].count > 0
  /\ callback[t].at = "push" /\ t \notin past.unheld => topic[t].count > 0
  /\ callback[t].at = "count" => topic[t].count > 0
  /\ callback[t].at = "subtract" => topic[t].count = 0

TopicInv == opt.limit > 0 => \A t \in Topics : TopicLimit(t)

(* Between shutdowns, num_subscribers_ is the number of topics it counts   *)
(* that have not reached the limit, as long as no two threads change it at *)
(* the same time and no topic reaches the limit before it is counted.      *)
Left(t) == topic[t].count > 0 \/ callback[t].at = "subtract"

Unfinished == {t \in Topics : Counted(t) /\ Left(t)}

EndInv ==
  opt.limit > 0 /\ ~past.raced =>
    /\ num_subscribers = Cardinality(Unfinished)
    /\ ok /\ num_subscribers = 0 => \A t \in Topics : ~Counted(t)
    /\ \A t \in Topics : Counted(t) \/ Left(t)

(* The topics not finished are finitely many.                              *)
LEMMA UnfinishedFinite == IsFiniteSet(Unfinished)
BY RecorderConstants, FS_Subset DEF Unfinished

(* The steps of one topic t.                                               *)
OfTopic(t) ==
  doQueue(t) \/ Count(t) \/ Subtract(t) \/ doCheckMaster(t) \/ Assign(t) \/ Add(t) \/ Receive(t)

(* What they do to it, and that they do nothing to the others.             *)
LEMMA TopicSteps ==
  ASSUME RecorderType, NEW t \in Topics, OfTopic(t)
  PROVE  /\ opt' = opt
         /\ \A u \in Topics \ {t} :
              /\ topic'[u] = topic[u] /\ callback'[u] = callback[u]
              /\ u \in past'.unheld <=> u \in past.unheld
         /\ TopicInv => (opt.limit > 0 => TopicLimit(t)')
<1>1. CASE doQueue(t)
  <2>1. /\ opt' = opt /\ topic' = topic /\ past'.unheld = past.unheld
        /\ \A u \in Topics \ {t} : callback'[u] = callback[u]
        /\ callback[t].at = "push"
        /\ callback'[t].at = IF topic[t].count > 0 THEN "count" ELSE "idle"
    BY <1>1 DEF doQueue, RecorderType, Idle
  <2> QED
    BY <2>1 DEF TopicInv, TopicLimit, RecorderType
<1>2. CASE Count(t)
  <2>1. /\ opt' = opt
        /\ \A u \in Topics \ {t} : topic'[u] = topic[u] /\ callback'[u] = callback[u]
    BY <1>2 DEF Count, RecorderType
  <2>2. past'.unheld = IF Unheld(t) THEN past.unheld \cup {t} ELSE past.unheld
    BY <1>2 DEF Count, RecorderType
  <2>3. /\ topic'[t].count = topic[t].count - 1
        /\ topic'[t].subscribed = (topic[t].subscribed /\ (~Last(t) \/ Unheld(t)))
        /\ topic'[t].recorded = topic[t].recorded /\ topic'[t].step = topic[t].step
    BY <1>2 DEF Count, RecorderType
  <2>4. callback'[t].at = IF Last(t) THEN "subtract" ELSE "idle"
    BY <1>2 DEF Count, RecorderType, Idle
  <2>5. ASSUME TopicInv, opt.limit > 0
        PROVE  TopicLimit(t)'
    <3>1. callback[t].at = "count" /\ topic[t].count > 0 /\ topic[t].count \in Int
      BY <1>2, <2>5 DEF Count, RecorderType, TopicInv, TopicLimit
    <3>2. /\ topic[t].step = "assign" => ~topic[t].recorded
          /\ topic[t].step = "add" => topic[t].recorded
      BY <2>5 DEF TopicInv, TopicLimit
    <3>3. ~(topic[t].step = "none" /\ ~topic[t].recorded)
      BY <2>5, <3>1 DEF TopicInv, TopicLimit
    <3>4. CASE Last(t)
      <4>1. topic'[t].count = 0
        BY <2>3, <3>4 DEF Last
      <4>2. topic'[t].subscribed => t \in past'.unheld
        BY <2>2, <2>3, <3>4, Zenon
      <4>3. callback'[t].at = "subtract"
        BY <2>4, <3>4
      <4>4. topic'[t].count >= 0
        BY <4>1
      <4>5. callback'[t].at \notin {"idle", "push", "count"}
        BY <4>3
      <4> QED
        BY <2>3, <3>2, <3>3, <4>1, <4>2, <4>4, <4>5, Zenon DEF TopicLimit
    <3>5. CASE ~Last(t)
      <4>1. topic'[t].count > 0 /\ topic'[t].count \in Int
        BY <2>3, <3>1, <3>5 DEF Last
      <4> QED
        BY <2>3, <2>4, <3>2, <3>3, <3>5, <4>1 DEF TopicLimit
    <3> QED
      BY <3>4, <3>5
  <2> QED
    BY <2>1, <2>2, <2>5
<1>3. CASE Subtract(t)
  <2>1. /\ opt' = opt /\ topic' = topic /\ past'.unheld = past.unheld
        /\ \A u \in Topics \ {t} : callback'[u] = callback[u]
        /\ callback'[t].at = "idle"
    BY <1>3 DEF Subtract, RecorderType, Idle
  <2> QED
    BY <1>3, <2>1 DEF Subtract, TopicInv, TopicLimit
<1>4. CASE doCheckMaster(t) \/ Assign(t) \/ Add(t)
  <2>1. /\ opt' = opt /\ callback' = callback /\ past'.unheld = past.unheld
        /\ \A u \in Topics \ {t} : topic'[u] = topic[u]
        /\ topic'[t].count = topic[t].count
    BY <1>4 DEF doCheckMaster, Assign, Add, RecorderType
  <2>2. CASE doCheckMaster(t)
    <3>1. /\ topic[t].step = "none" /\ ~topic[t].recorded
          /\ topic'[t].subscribed /\ topic'[t].step = "assign" /\ ~topic'[t].recorded
      BY <2>2 DEF doCheckMaster, shouldSubscribeToTopic, RecorderType
    <3> QED
      BY <2>1, <3>1 DEF TopicInv, TopicLimit
  <2>3. CASE Assign(t)
    <3>1. /\ topic'[t].subscribed = topic[t].subscribed
          /\ topic'[t].recorded /\ topic'[t].step = "add"
      BY <2>3 DEF Assign, RecorderType
    <3> QED
      BY <2>1, <3>1 DEF TopicInv, TopicLimit
  <2>4. CASE Add(t)
    <3>1. /\ topic[t].step = "add" /\ topic'[t].step = "none"
          /\ topic'[t].subscribed = topic[t].subscribed
          /\ topic'[t].recorded = topic[t].recorded
      BY <2>4 DEF Add, RecorderType
    <3> QED
      BY <2>1, <3>1 DEF TopicInv, TopicLimit
  <2> QED
    BY <1>4, <2>1, <2>2, <2>3, <2>4
<1>5. CASE Receive(t)
  <2>1. /\ opt' = opt /\ topic' = topic /\ past'.unheld = past.unheld
        /\ \A u \in Topics \ {t} : callback'[u] = callback[u]
        /\ topic[t].subscribed /\ callback'[t].at = "push"
    BY <1>5 DEF Receive, RecorderType, Idle
  <2> QED
    BY <2>1 DEF TopicInv, TopicLimit
<1> QED
  BY <1>1, <1>2, <1>3, <1>4, <1>5 DEF OfTopic

(* Every step preserves the invariant of a topic's thread.                 *)
LEMMA TopicStep ==
  ASSUME RecorderType, TopicInv, [RecorderNext]_rvars
  PROVE  TopicInv'
<1>1. CASE UNCHANGED <<opt, cbVars>> /\ past'.unheld = past.unheld
  BY <1>1 DEF cbVars, TopicInv, TopicLimit
<1>2. ASSUME NEW t \in Topics, OfTopic(t)
      PROVE  TopicInv'
  <2>1. /\ opt' = opt
        /\ \A u \in Topics \ {t} :
              /\ topic'[u] = topic[u] /\ callback'[u] = callback[u]
              /\ u \in past'.unheld <=> u \in past.unheld
        /\ opt.limit > 0 => TopicLimit(t)'
    BY <1>2, TopicSteps
  <2>2. \A u \in Topics \ {t} : opt.limit > 0 => TopicLimit(u)'
    BY <2>1 DEF TopicInv, TopicLimit
  <2> QED
    BY <2>1, <2>2 DEF TopicInv
<1>3. CASE Tick \/ Interrupt \/ Notify \/ snapshotTrigger \/ Joined \/ UNCHANGED rvars
  <2>1. UNCHANGED <<opt, cbVars>> /\ past'.unheld = past.unheld
    BY <1>3 DEF Tick, Interrupt, Notify, snapshotTrigger, Joined, rvars, RecorderType
  <2> QED
    BY <1>1, <2>1
<1>4. CASE WriterNext
  BY <1>1, <1>4, WriterFrame DEF WriterKeeps
<1> QED
  BY <1>2, <1>3, <1>4 DEF RecorderNext, CallbackNext, subscribe, OfTopic

(* Every step preserves what is known of the end.                          *)
LEMMA EndStep ==
  ASSUME RecorderType, TopicInv, EndInv, [RecorderNext]_rvars
  PROVE  EndInv'
<1> DEFINE Known == /\ num_subscribers' = Cardinality(Unfinished')
                    /\ ok' /\ num_subscribers' = 0 => \A u \in Topics : ~Counted(u)'
                    /\ \A u \in Topics : Counted(u)' \/ Left(u)'
<1>0. SUFFICES ASSUME opt'.limit > 0, ~past'.raced
               PROVE  Known
  BY DEF EndInv
<1>1. ASSUME UNCHANGED <<opt, num_subscribers>>, ok' => ok, past'.raced = past.raced,
             \A u \in Topics : (Counted(u)' <=> Counted(u)) /\ (Left(u)' <=> Left(u))
      PROVE  Known
  <2>1. Unfinished' = Unfinished
    BY <1>1 DEF Unfinished
  <2> QED
    BY <1>0, <1>1, <2>1 DEF EndInv
<1>2. CASE WriterNext
  BY <1>1, <1>2, WriterFrame DEF WriterKeeps, cbVars, Counted, Left
<1>3. CASE Tick \/ Interrupt \/ Notify \/ Joined \/ snapshotTrigger \/ UNCHANGED rvars
  <2>1. UNCHANGED <<opt, cbVars>> /\ (ok' => ok)
    BY <1>3 DEF Tick, Interrupt, Notify, Joined, snapshotTrigger, rvars
  <2>2. past'.raced = past.raced
    BY <1>3 DEF Tick, Interrupt, Notify, Joined, snapshotTrigger, rvars, RecorderType
  <2> QED
    BY <1>1, <2>1, <2>2 DEF cbVars, Counted, Left
<1>4. ASSUME NEW t \in Topics, OfTopic(t)
      PROVE  Known
  <2>1. /\ opt' = opt /\ opt.limit > 0 /\ TopicLimit(t)
        /\ topic[t].count \in Int
        /\ \A u \in Topics \ {t} : topic'[u] = topic[u] /\ callback'[u] = callback[u]
    BY <1>0, <1>4, TopicSteps DEF TopicInv, RecorderType
  <2>2. \A u \in Topics \ {t} : (Counted(u)' <=> Counted(u)) /\ (Left(u)' <=> Left(u))
    BY <2>1 DEF Counted, Left
  <2>3. CASE doQueue(t) \/ Receive(t)
    <3>1. UNCHANGED <<opt, topic, num_subscribers>> /\ ok' = ok /\ past'.raced = past.raced
      BY <2>3 DEF doQueue, Receive, RecorderType
    <3>2. callback[t].at # "subtract" /\ callback'[t].at # "subtract"
      <4>1. CASE doQueue(t)
        BY <4>1 DEF doQueue, RecorderType, Idle
      <4>2. CASE Receive(t)
        BY <4>2 DEF Receive, RecorderType, Idle
      <4> QED
        BY <2>3, <4>1, <4>2
    <3>3. (Counted(t)' <=> Counted(t)) /\ (Left(t)' <=> Left(t))
      BY <3>1, <3>2 DEF Counted, Left
    <3> QED
      BY <1>1, <2>2, <3>1, <3>3
  <2>4. CASE Count(t)
    <3>1. callback[t].at = "count" /\ topic[t].count > 0
      BY <2>1, <2>4 DEF Count, TopicLimit
    <3>2. /\ topic'[t].count = topic[t].count - 1
          /\ topic'[t].recorded = topic[t].recorded /\ topic'[t].step = topic[t].step
          /\ callback'[t].at = IF Last(t) THEN "subtract" ELSE "idle"
      BY <2>4 DEF Count, RecorderType, Idle
    <3>3. Left(t) /\ Left(t)'
      BY <2>1, <3>1, <3>2 DEF Last, Left
    <3>4. Counted(t)' <=> Counted(t)
      BY <3>2 DEF Counted
    <3>5. /\ num_subscribers' = num_subscribers /\ ok' = ok /\ past'.raced = past.raced
      BY <2>4 DEF Count, RecorderType
    <3> QED
      BY <1>1, <2>1, <2>2, <3>3, <3>4, <3>5
  <2>5. CASE Subtract(t)
    <3>1. past'.raced = (past.raced \/ callback[t].seen # num_subscribers \/ ~Counted(t))
      BY <2>5 DEF Subtract, RecorderType
    <3>2. ~past.raced /\ callback[t].seen = num_subscribers /\ Counted(t)
      BY <1>0, <3>1
    <3>3. topic[t].count = 0 /\ callback[t].at = "subtract"
      BY <2>1, <2>5 DEF Subtract, TopicLimit
    <3>4. topic' = topic /\ callback'[t].at = "idle"
      BY <2>5 DEF Subtract, RecorderType, Idle
    <3>5. Counted(t)' /\ ~Left(t)' /\ Left(t)
      BY <3>2, <3>3, <3>4 DEF Counted, Left
    <3>6. Unfinished' = Unfinished \ {t} /\ t \in Unfinished
      BY <2>2, <3>2, <3>5 DEF Unfinished
    <3>7. num_subscribers' = num_subscribers - 1 /\ (ok' => num_subscribers' # 0)
      BY <2>5, <3>2 DEF Subtract, StillOk
    <3>8. Cardinality(Unfinished') = Cardinality(Unfinished) - 1
      BY <3>6, UnfinishedFinite, FS_RemoveElement
    <3>9. /\ num_subscribers = Cardinality(Unfinished)
          /\ \A u \in Topics : Counted(u) \/ Left(u)
      BY <2>1, <3>2 DEF EndInv
    <3> QED
      BY <2>2, <3>5, <3>7, <3>8, <3>9
  <2>6. CASE doCheckMaster(t) \/ Assign(t)
    <3>1. UNCHANGED <<opt, num_subscribers, callback>> /\ ok' = ok /\ past' = past
      BY <2>6 DEF doCheckMaster, Assign
    <3>2. topic'[t].count = topic[t].count
      BY <2>6 DEF doCheckMaster, Assign, RecorderType
    <3>3. ~Counted(t) /\ ~Counted(t)'
      <4>1. CASE doCheckMaster(t)
        BY <4>1 DEF doCheckMaster, shouldSubscribeToTopic, Counted, RecorderType
      <4>2. CASE Assign(t)
        <5>1. topic[t].step = "assign" /\ ~topic[t].recorded /\ topic'[t].step = "add"
          BY <2>1, <4>2 DEF Assign, TopicLimit, RecorderType
        <5> QED
          BY <5>1 DEF Counted
      <4> QED
        BY <2>6, <4>1, <4>2
    <3>4. Left(t)' <=> Left(t)
      BY <3>1, <3>2 DEF Left
    <3> QED
      BY <1>1, <2>2, <3>1, <3>3, <3>4
  <2>7. CASE Add(t)
    <3>1. past'.raced = (past.raced \/ topic[t].seen # num_subscribers)
      BY <2>7 DEF Add, RecorderType
    <3>2. ~past.raced /\ num_subscribers' = num_subscribers + 1
      BY <1>0, <2>7, <3>1 DEF Add
    <3>3. topic[t].step = "add" /\ topic[t].recorded
      BY <2>1, <2>7 DEF Add, TopicLimit
    <3>4. /\ topic'[t].recorded /\ topic'[t].step = "none" /\ topic'[t].count = topic[t].count
          /\ callback' = callback
      BY <2>7, <3>3 DEF Add, RecorderType
    <3>5. ~Counted(t) /\ Counted(t)' /\ (Left(t)' <=> Left(t))
      BY <3>3, <3>4 DEF Counted, Left
    <3>6. /\ num_subscribers = Cardinality(Unfinished)
          /\ \A u \in Topics : Counted(u) \/ Left(u)
      BY <2>1, <3>2 DEF EndInv
    <3>7. Unfinished' = Unfinished \cup {t} /\ t \notin Unfinished
      BY <2>2, <3>5, <3>6 DEF Unfinished
    <3>8. /\ Cardinality(Unfinished') = Cardinality(Unfinished) + 1
          /\ Cardinality(Unfinished) \in Nat
      BY <3>7, UnfinishedFinite, FS_AddElement, FS_CardinalityType
    <3> QED
      BY <2>2, <3>2, <3>5, <3>6, <3>8
  <2> QED
    BY <1>4, <2>3, <2>4, <2>5, <2>6, <2>7 DEF OfTopic
<1> QED
  BY <1>2, <1>3, <1>4 DEF RecorderNext, CallbackNext, subscribe, OfTopic

(* Both hold at first.                                                     *)
LEMMA TopicInit == ASSUME RecorderInit PROVE TopicInv /\ EndInv /\ BufferBounded
<1>0. opt.limit \in Nat
  BY TypeInit DEF RecorderType
<1>1. TopicInv
  BY <1>0 DEF RecorderInit, TopicInv, TopicLimit, Idle
<1>2. ASSUME opt.limit > 0
      PROVE  num_subscribers = Cardinality(Unfinished)
  <2>1. Listening(opt) \subseteq Topics
    <3>1. PICK o \in Options : opt = parseOptions(o)
      BY DEF RecorderInit
    <3>2. opt.topics = o.topics
      BY <3>1, RecorderConstants DEF parseOptions
    <3> QED
      BY <3>2, RecorderConstants DEF Listening
  <2>2. Unfinished = Listening(opt)
    BY <1>2, <2>1 DEF RecorderInit, Unfinished, Counted, Left
  <2> QED
    BY <2>2 DEF RecorderInit
<1>3. num_subscribers = Cardinality(Unfinished) /\ num_subscribers = 0 => Unfinished = {}
  BY UnfinishedFinite, FS_EmptySet
<1>4. opt.limit > 0 /\ Unfinished = {} => \A t \in Topics : ~Counted(t)
  BY DEF RecorderInit, Unfinished, Counted, Left
<1>8. opt.limit > 0 => \A t \in Topics : Counted(t) \/ Left(t)
  BY DEF RecorderInit, Counted, Left
<1>5. EndInv
  BY <1>2, <1>3, <1>4, <1>8 DEF EndInv
<1>6. opt.buffer_size \in Nat
  BY TypeInit DEF RecorderType
<1>7. BufferBounded
  BY <1>6 DEF RecorderInit, BufferBounded
<1> QED
  BY <1>1, <1>5, <1>7

----------------------------------------------------------------------------
(* The writer and its files.                                               *)

Snapshot == [name : Nat \X Nat, queue : Seq(Message)]

FileType ==
  /\ DOMAIN writer = {"at", "hold"} /\ writer.hold \in Message
  /\ IF opt.snapshot
     THEN writer.at \in {"start", "loop", "lock", "check", "waiting", "close", "done"}
     ELSE writer.at \in {"start", "loop", "lock", "wait", "size", "duration", "write",
                         "close", "done", "aborted"}
  /\ queue_queue \in Seq(Snapshot)
  /\ DOMAIN bag = {"name", "ids"} /\ bag.ids \in Seq(Nat)
  /\ \A n \in DOMAIN bags : bags[n] \in Seq(Nat)
  /\ split_count \in Nat /\ start_time \in Int

(* The bag that is open has the name computed last, and the finished ones  *)
(* have others, of smaller indices.                                        *)
NameInv ==
  ~opt.snapshot =>
    /\ bag # NoBag => bag.name = target /\ writer.at \notin {"start", "done"}
    /\ opt.split => /\ bag # NoBag => target[2] = split_count
                    /\ writer.at # "done" => \A n \in DOMAIN bags : n[2] \in 0 .. split_count - 1
    /\ ~opt.split /\ writer.at # "done" => DOMAIN bags = {}

(* What has been written.                                                  *)
Written == IdsOf(bag.ids) \cup UNION {IdsOf(bags[n]) : n \in DOMAIN bags}

(* The size of the bags that are split.                                    *)
SplitInv ==
  SplitBounded /\ (opt.split /\ ~opt.snapshot /\ opt.max_size > 0 =>
    (writer.at \in {"duration", "write"} => Len(bag.ids) <= opt.max_size))

FileInv == FileType /\ NameInv /\ SplitInv

(* A bag's name has its index.                                             *)
LEMMA NameFacts ==
  ASSUME RecorderType, NEW k \in Nat
  PROVE  /\ updateFilenames(k) \in Nat \X Nat
         /\ opt.split => updateFilenames(k)[2] = k
         /\ updateFilenames(k) # NoName
<1>1. (IF opt.append_date THEN clock ELSE 0) \in Nat
  BY DEF RecorderType
<1>2. (IF opt.split THEN k ELSE 0) \in Nat
  OBVIOUS
<1> QED
  BY <1>1, <1>2 DEF updateFilenames, NoName

(* Closing the bag keeps what is written, under names of its own.          *)
LEMMA ClosedFacts ==
  ASSUME RecorderType, FileInv, ~opt.snapshot, writer.at # "done"
  PROVE  /\ bag = NoBag => Closed(bags) = bags
         /\ bag # NoBag => /\ DOMAIN Closed(bags) = DOMAIN bags \cup {target}
                           /\ target \notin DOMAIN bags
                           /\ Closed(bags)[target] = bag.ids
         /\ \A n \in DOMAIN bags : Closed(bags)[n] = bags[n]
<1>1. bag # NoBag => target \notin DOMAIN bags
  BY DEF FileInv, FileType, NameInv
<1> QED
  BY <1>1 DEF Closed, FileInv, NameInv

(* An empty queue holds no message.                                        *)
LEMMA EmptyIds == IdsOf(<<>>) = {}
BY DEF IdsOf

(* Splitting the bag keeps what is written, and begins a bag of a new name.*)
LEMMA CutFacts ==
  ASSUME RecorderType, FileInv, ~opt.snapshot, opt.split, writer.at # "done",
         opt' = opt, clock' = clock, NEW k \in Nat \ {0}, Cut(k)
  PROVE  /\ split_count' \in Nat /\ past' = past
         /\ bag' = [name |-> target', ids |-> <<>>] /\ target'[2] = split_count'
         /\ \A n \in DOMAIN bags' :
              /\ n[2] \in 0 .. split_count' - 1
              /\ \/ bags'[n] = <<>>
                 \/ bags'[n] = bag.ids
                 \/ \E m \in DOMAIN bags : bags'[n] = bags[m]
         /\ Written \subseteq Written'
<1> DEFINE empty == {updateFilenames(split_count + i) : i \in 1 .. k - 1}
<1>1. /\ bags' = [n \in DOMAIN Closed(bags) \cup empty |->
                     IF n \in empty THEN <<>> ELSE Closed(bags)[n]]
      /\ split_count' = split_count + k
      /\ target' = updateFilenames(split_count')
      /\ bag' = [name |-> target', ids |-> <<>>]
      /\ past' = past
  BY DEF Cut, SplitTo
<1>2. split_count \in Nat /\ split_count' \in Nat /\ split_count' > split_count
  BY <1>1 DEF FileInv, FileType
<1>3. updateFilenames(split_count')[2] = split_count'
  BY <1>2, NameFacts
<1>4. \A n \in empty : n[2] \in split_count + 1 .. split_count' - 1
  <2>1. ASSUME NEW i \in 1 .. k - 1
        PROVE  updateFilenames(split_count + i)[2] \in split_count + 1 .. split_count' - 1
    <3>1. split_count + i \in Nat /\ split_count + i \in split_count + 1 .. split_count' - 1
      BY <1>1, <1>2
    <3> QED
      BY <3>1, NameFacts
  <2> QED
    BY <2>1
<1>5. \A n \in DOMAIN Closed(bags) : n[2] \in 0 .. split_count
  <2>1. \A n \in DOMAIN bags : n[2] \in 0 .. split_count
    BY <1>2 DEF FileInv, NameInv
  <2>2. bag # NoBag => target[2] \in 0 .. split_count
    BY <1>2 DEF FileInv, NameInv
  <2> QED
    BY <2>1, <2>2, ClosedFacts
<1> HIDE DEF empty
<1>6. \A n \in DOMAIN Closed(bags) : n \notin empty /\ bags'[n] = Closed(bags)[n]
  BY <1>1, <1>2, <1>4, <1>5
<1>7. /\ bag # NoBag => /\ target \in DOMAIN bags' /\ bags'[target] = bag.ids
      /\ \A n \in DOMAIN bags : n \in DOMAIN bags' /\ bags'[n] = bags[n]
  BY <1>1, <1>6, ClosedFacts
<1>8. ASSUME NEW n \in DOMAIN bags'
      PROVE  /\ n[2] \in 0 .. split_count' - 1
             /\ \/ bags'[n] = <<>>
                \/ bags'[n] = bag.ids
                \/ \E m \in DOMAIN bags : bags'[n] = bags[m]
  <2>1. CASE n \in empty
    BY <1>1, <1>2, <1>4, <2>1
  <2>2. CASE n \in DOMAIN Closed(bags)
    BY <1>2, <1>5, <1>6, <2>2, ClosedFacts
  <2> QED
    BY <1>1, <1>8, <2>1, <2>2
<1>9. Written \subseteq Written'
  <2>1. IdsOf(bag.ids) \subseteq Written'
    <3>1. CASE bag = NoBag
      BY <3>1, EmptyIds DEF NoBag
    <3>2. CASE bag # NoBag
      BY <1>7, <3>2 DEF Written
    <3> QED
      BY <3>1, <3>2
  <2>2. UNION {IdsOf(bags[n]) : n \in DOMAIN bags} \subseteq Written'
    BY <1>7 DEF Written
  <2> QED
    BY <2>1, <2>2 DEF Written
<1> QED
  BY <1>1, <1>2, <1>3, <1>8, <1>9

(* A message that comes too long after the start is a period late at least.*)
LEMMA PeriodsFacts ==
  ASSUME RecorderType, FileInv, NEW t \in Nat, TooLong(t)
  PROVE  Periods(t) \in Nat \ {0} /\ start_time + Periods(t) * opt.max_duration \in Int
<1> DEFINE d == opt.max_duration
           a == t - start_time - 1
<1>1. d \in Nat \ {0} /\ a \in Nat /\ a >= d
  BY DEF TooLong, RecorderType, FileInv, FileType
<1>2. Periods(t) = a \div d
  BY DEF Periods
<1> HIDE DEF a, d
<1>3. a \div d \in Nat \ {0}
  BY <1>1, SMTT(30)
<1>4. Periods(t) * d \in Int
  BY <1>1, <1>2, <1>3
<1> QED
  BY <1>2, <1>3, <1>4 DEF d, FileInv, FileType

(* A split leaves the files in order.                                      *)
LEMMA CutStep ==
  ASSUME RecorderType, FileInv, ~opt.snapshot, opt.split, writer.at # "done",
         opt' = opt, clock' = clock, NEW k \in Nat \ {0}, Cut(k), start_time' \in Int,
         NEW next \in {"lock", "duration", "write"}, writer' = [writer EXCEPT !.at = next],
         queue_queue' = queue_queue
  PROVE  FileInv' /\ Written \subseteq Written' /\ past' = past
<1>1. /\ split_count' \in Nat /\ past' = past
      /\ bag' = [name |-> target', ids |-> <<>>] /\ target'[2] = split_count'
      /\ \A n \in DOMAIN bags' :
           /\ n[2] \in 0 .. split_count' - 1
           /\ \/ bags'[n] = <<>>
              \/ bags'[n] = bag.ids
              \/ \E m \in DOMAIN bags : bags'[n] = bags[m]
      /\ Written \subseteq Written'
  BY CutFacts
<1>2. /\ DOMAIN writer' = {"at", "hold"} /\ writer'.hold = writer.hold
      /\ writer'.at = next
  BY DEF FileInv, FileType
<1>3. /\ bag'.name = target' /\ bag'.ids = <<>> /\ DOMAIN bag' = {"name", "ids"}
  BY <1>1
<1>4. \A n \in DOMAIN bags' : bags'[n] \in Seq(Nat)
  <2>1. <<>> \in Seq(Nat) /\ bag.ids \in Seq(Nat) /\ \A m \in DOMAIN bags : bags[m] \in Seq(Nat)
    BY DEF FileInv, FileType
  <2> QED
    BY <1>1, <2>1
<1>5. FileType'
  BY <1>1, <1>2, <1>3, <1>4 DEF FileInv, FileType
<1>6. NameInv'
  BY <1>1, <1>2, <1>3 DEF NameInv
<1>7. ASSUME opt.max_size > 0
      PROVE  /\ Len(bag'.ids) <= opt.max_size /\ Len(bag'.ids) <= opt.max_size + 1
             /\ \A n \in DOMAIN bags' : Len(bags'[n]) <= opt.max_size + 1
  <2>1. /\ Len(bag.ids) <= opt.max_size + 1 /\ opt.max_size \in Nat
        /\ \A n \in DOMAIN bags : Len(bags[n]) <= opt.max_size + 1
    BY <1>7 DEF FileInv, SplitInv, SplitBounded, RecorderType
  <2> QED
    BY <1>1, <1>3, <2>1
<1>8. SplitInv'
  BY <1>7 DEF SplitInv, SplitBounded
<1> QED
  BY <1>1, <1>5, <1>6, <1>8 DEF FileInv

(* A message that was queued before the shutdown is in the queue, in the   *)
(* writer's hand or in a bag, unless it was dropped; when the writer stops *)
(* the queue has nothing of the kind any more.                             *)
Held == IF writer.at \in {"size", "duration", "write"} THEN {writer.hold.id} ELSE {}

KeptInv ==
  ~opt.snapshot /\ ~past.stopped /\ writer.at # "aborted" =>
    /\ past.owed \subseteq past.dropped \cup Ids(queue) \cup Held \cup Written
    /\ writer.at \in {"close", "done"} => ~ok /\ Ids(queue) \subseteq past.dropped

(* A step of the writer that leaves files and queue alone.                 *)
LEMMA MoveStep ==
  ASSUME RecorderType, FileInv, KeptInv,
         Continue \/ SnapshotLoop \/ SnapshotWait
  PROVE  FileInv' /\ KeptInv'
<1>1. /\ UNCHANGED <<opt, ok, past, queue, queue_queue, bag, bags, target, split_count,
                     start_time>>
      /\ writer'.hold = writer.hold /\ DOMAIN writer' = {"at", "hold"}
  BY DEF Continue, SnapshotLoop, SnapshotWait, queueVars, fileVars, Stop, FileInv, FileType
<1>2. \/ /\ opt.snapshot /\ writer'.at \in {"lock", "done", "waiting"}
      \/ /\ ~opt.snapshot /\ writer.at = "loop"
         /\ writer'.at \in {"lock", "close"}
         /\ writer'.at = "close" => ~ok /\ queue = <<>>
  BY DEF Continue, SnapshotLoop, SnapshotWait, Stop, FileInv, FileType
<1>3. FileType'
  BY <1>1, <1>2 DEF FileInv, FileType
<1>4. NameInv'
  BY <1>1, <1>2 DEF FileInv, NameInv
<1>5. SplitInv'
  BY <1>1, <1>2 DEF FileInv, SplitInv, SplitBounded
<1>6. KeptInv'
  BY <1>1, <1>2 DEF KeptInv, Held, Written, Ids
<1> QED
  BY <1>3, <1>4, <1>5, <1>6 DEF FileInv

(* The first bag is opened.                                                *)
LEMMA StartStep ==
  ASSUME RecorderType, FileInv, KeptInv, NEW b \in BOOLEAN, startWriting(b)
  PROVE  FileInv' /\ KeptInv'
<1>1. /\ UNCHANGED <<opt, past, queue, queue_queue, bags, split_count, start_time>>
      /\ ~opt.snapshot /\ writer.at = "start" /\ bag = NoBag
      /\ bag' = NoBag \/ bag' = [name |-> target', ids |-> <<>>]
      /\ target' = updateFilenames(split_count)
      /\ writer'.hold = writer.hold /\ DOMAIN writer' = {"at", "hold"} /\ writer'.at = "loop"
  BY DEF startWriting, queueVars, FileInv, FileType, NameInv
<1>2. /\ DOMAIN bag' = {"name", "ids"} /\ bag'.ids = <<>> /\ bag.ids = <<>>
      /\ bag' # NoBag => bag'.name = target'
  BY <1>1 DEF NoBag
<1>3. opt.split => target'[2] = split_count
  BY <1>1, NameFacts DEF FileInv, FileType
<1>4. FileType'
  BY <1>1, <1>2 DEF FileInv, FileType
<1>5. NameInv'
  BY <1>1, <1>2, <1>3 DEF FileInv, NameInv
<1>6. SplitInv'
  BY <1>1, <1>2 DEF FileInv, SplitInv, SplitBounded
<1>7. Written' = Written
  BY <1>1, <1>2 DEF Written
<1>8. KeptInv'
  BY <1>1, <1>7 DEF KeptInv, Held, Ids
<1> QED
  BY <1>4, <1>5, <1>6, <1>8 DEF FileInv

(* The oldest message is the head of the queue.                            *)
LEMMA HeadIds ==
  ASSUME NEW q \in Seq(Message), q # <<>>
  PROVE  /\ Ids(q) \subseteq {Head(q).id} \cup Ids(Tail(q))
         /\ Head(q) \in Message
<1>1. Head(q) = q[1] /\ Len(q) \in Nat \ {0} /\ DOMAIN q = 1 .. Len(q) /\ q[1] \in Message
  OBVIOUS
<1>2. /\ DOMAIN Tail(q) = 1 .. Len(q) - 1
      /\ \A i \in 1 .. Len(q) - 1 : Tail(q)[i] = q[i + 1]
  BY <1>1
<1>3. ASSUME NEW i \in DOMAIN q, i # 1
      PROVE  q[i].id \in Ids(Tail(q))
  <2>1. i - 1 \in DOMAIN Tail(q) /\ Tail(q)[i - 1] = q[i]
    BY <1>1, <1>2, <1>3
  <2> QED
    BY <2>1 DEF Ids
<1> QED
  BY <1>1, <1>3 DEF Ids

(* The writer takes a message from the queue.                              *)
LEMMA LockStep ==
  ASSUME RecorderType, FileInv, KeptInv, Lock
  PROVE  FileInv' /\ KeptInv'
<1>1. /\ UNCHANGED <<opt, ok, past, queue_queue, bag, bags, target, split_count, start_time>>
      /\ ~opt.snapshot /\ writer.at = "lock"
  BY DEF Lock, fileVars
<1>2. CASE queue # <<>>
  <2>1. /\ writer' = [at |-> "size", hold |-> Head(queue)] /\ queue' = Tail(queue)
    BY <1>2 DEF Lock
  <2>2. Ids(queue) \subseteq {Head(queue).id} \cup Ids(queue') /\ Head(queue) \in Message
    BY <1>2, <2>1, HeadIds DEF RecorderType
  <2>3. writer'.at = "size" /\ writer'.hold = Head(queue) /\ DOMAIN writer' = {"at", "hold"}
    BY <2>1
  <2>4. FileType'
    BY <1>1, <2>2, <2>3 DEF FileInv, FileType
  <2>5. NameInv'
    BY <1>1, <2>3 DEF FileInv, NameInv
  <2>6. SplitInv'
    BY <1>1, <2>3 DEF FileInv, SplitInv, SplitBounded
  <2>7. KeptInv'
    BY <1>1, <2>2, <2>3 DEF KeptInv, Held, Written
  <2> QED
    BY <2>4, <2>5, <2>6, <2>7 DEF FileInv
<1>3. CASE queue = <<>>
  <2>1. /\ queue' = queue /\ Ids(queue) = {}
        /\ writer'.hold = writer.hold /\ DOMAIN writer' = {"at", "hold"}
        /\ writer'.at \in {"wait", "close"} /\ (writer'.at = "close" => ~ok)
    BY <1>3 DEF Lock, Stop, Again, Ids, FileInv, FileType
  <2>2. FileType'
    BY <1>1, <2>1 DEF FileInv, FileType
  <2>3. NameInv'
    BY <1>1, <2>1 DEF FileInv, NameInv
  <2>4. SplitInv'
    BY <1>1, <2>1 DEF FileInv, SplitInv, SplitBounded
  <2>5. KeptInv'
    BY <1>1, <2>1 DEF KeptInv, Held, Written
  <2> QED
    BY <2>2, <2>3, <2>4, <2>5 DEF FileInv
<1> QED
  BY <1>2, <1>3

(* The writer goes from a place in its cycle to the next, or gives up at a *)
(* limit of size or duration; either way files and queue stay as they are. *)
LEMMA StayStep ==
  ASSUME RecorderType, FileInv, KeptInv, ~opt.snapshot,
         UNCHANGED <<opt, queue, queue_queue, bag, bags, target, split_count, start_time>>,
         \/ /\ writer.at \in {"wait", "size", "duration"} /\ ShutDown
         \/ /\ UNCHANGED <<ok, past>>
            /\ \/ writer.at = "wait" /\ writer' = [writer EXCEPT !.at = "lock"]
               \/ /\ writer.at = "size" /\ ~(opt.max_size > 0 /\ Full)
                  /\ writer' = [writer EXCEPT !.at = "duration"]
               \/ writer.at = "duration" /\ writer' = [writer EXCEPT !.at = "write"]
  PROVE  FileInv' /\ KeptInv'
<1>1. /\ writer'.hold = writer.hold /\ DOMAIN writer' = {"at", "hold"}
      /\ \/ writer'.at = "close" /\ past'.stopped
         \/ /\ UNCHANGED <<ok, past>>
            /\ \/ writer.at = "wait" /\ writer'.at = "lock"
               \/ writer.at = "size" /\ writer'.at = "duration"
               \/ writer.at = "duration" /\ writer'.at = "write"
      /\ writer.at \in {"wait", "size", "duration"}
  BY DEF ShutDown, Stop, FileInv, FileType, RecorderType
<1>2. FileType'
  BY <1>1 DEF FileInv, FileType
<1>3. NameInv'
  BY <1>1 DEF FileInv, NameInv
<1>4. SplitInv'
  <2>1. writer'.at \in {"duration", "write"} /\ opt.split /\ opt.max_size > 0
          => Len(bag.ids) <= opt.max_size
    <3>1. Len(bag.ids) \in Nat /\ opt.max_size \in Nat
      BY DEF FileInv, FileType, RecorderType
    <3>2. writer.at = "size" /\ writer'.at = "duration" /\ opt.max_size > 0
            => ~(Len(bag.ids) > opt.max_size)
      BY DEF ShutDown, Stop, Full, FileInv, FileType
    <3> QED
      BY <1>1, <3>1, <3>2 DEF FileInv, SplitInv
  <2> QED
    BY <2>1 DEF FileInv, SplitInv, SplitBounded
<1>5. KeptInv'
  BY <1>1 DEF KeptInv, Held, Written, Ids
<1> QED
  BY <1>2, <1>3, <1>4, <1>5 DEF FileInv

(* A split keeps what is kept.                                             *)
LEMMA SplitStep ==
  ASSUME RecorderType, FileInv, KeptInv, ~opt.snapshot, opt.split,
         UNCHANGED <<opt, clock, ok, queue, queue_queue>>,
         NEW k \in Nat \ {0}, Cut(k), start_time' \in Int,
         \/ writer.at = "wait" /\ writer' = [writer EXCEPT !.at = "lock"]
         \/ writer.at = "size" /\ writer' = [writer EXCEPT !.at = "duration"]
         \/ writer.at = "duration" /\ writer' = [writer EXCEPT !.at = "write"]
  PROVE  FileInv' /\ KeptInv'
<1>1. FileInv' /\ Written \subseteq Written' /\ past' = past
  BY CutStep
<1>2. /\ writer'.hold = writer.hold
      /\ \/ writer.at = "wait" /\ writer'.at = "lock"
         \/ writer.at = "size" /\ writer'.at = "duration"
         \/ writer.at = "duration" /\ writer'.at = "write"
  BY DEF FileInv, FileType
<1> QED
  BY <1>1, <1>2 DEF KeptInv, Held, Ids

(* A bag that has grown too large is split.                                *)
LEMMA SizeStep ==
  ASSUME RecorderType, FileInv, KeptInv, checkSize
  PROVE  FileInv' /\ KeptInv'
<1>1. /\ ~opt.snapshot /\ UNCHANGED <<opt, clock, queue, queue_queue>>
      /\ writer.at = "size"
  BY DEF checkSize, queueVars, FileInv, FileType
<1>2. CASE /\ opt.split /\ Cut(1) /\ writer' = [writer EXCEPT !.at = "duration"]
           /\ UNCHANGED <<ok, start_time>>
  <2>1. 1 \in Nat \ {0} /\ start_time' \in Int
    BY <1>2 DEF FileInv, FileType
  <2> QED
    BY <1>1, <1>2, <2>1, SplitStep
<1>3. CASE ~(/\ opt.split /\ Cut(1) /\ writer' = [writer EXCEPT !.at = "duration"]
             /\ UNCHANGED <<ok, start_time>>)
  <2>1. UNCHANGED <<bag, bags, target, split_count, start_time>>
    BY <1>3 DEF checkSize, ShutDown
  <2>2. \/ ShutDown
        \/ /\ UNCHANGED <<ok, past>> /\ ~(opt.max_size > 0 /\ Full)
           /\ writer' = [writer EXCEPT !.at = "duration"]
    BY <1>3 DEF checkSize
  <2> QED
    BY <1>1, <2>1, <2>2, StayStep
<1> QED
  BY <1>2, <1>3

(* The writer waits, or splits a bag that is open for too long.            *)
LEMMA DurationStep ==
  ASSUME RecorderType, FileInv, KeptInv, Wait \/ Duration
  PROVE  FileInv' /\ KeptInv'
<1>1. PICK t \in Nat, next \in {"lock", "write"} :
        /\ checkDuration(t, next)
        /\ \/ writer.at = "wait" /\ next = "lock"
           \/ writer.at = "duration" /\ next = "write"
  <2>1. clock \in Nat /\ writer.hold.time \in Nat
    BY DEF RecorderType, FileInv, FileType, Message
  <2> QED
    BY <2>1 DEF Wait, Duration
<1>2. ~opt.snapshot /\ UNCHANGED <<opt, clock, queue, queue_queue>>
  BY DEF Wait, Duration, queueVars, FileInv, FileType
<1>3. CASE /\ TooLong(t) /\ opt.split /\ Cut(Periods(t))
           /\ start_time' = start_time + Periods(t) * opt.max_duration
           /\ writer' = [writer EXCEPT !.at = next] /\ UNCHANGED ok
  <2>1. Periods(t) \in Nat \ {0} /\ start_time' \in Int
    BY <1>3, PeriodsFacts
  <2> QED
    BY <1>1, <1>2, <1>3, <2>1, SplitStep
<1>4. CASE TooLong(t) /\ ~opt.split /\ ShutDown
  BY <1>1, <1>2, <1>4, StayStep DEF ShutDown
<1>5. CASE /\ ~TooLong(t) /\ writer' = [writer EXCEPT !.at = next]
           /\ UNCHANGED <<ok, bag, bags, target, split_count, start_time, past>>
  BY <1>1, <1>2, <1>5, StayStep
<1> QED
  BY <1>1, <1>3, <1>4, <1>5 DEF checkDuration

(* A message is written, or the disk is full.                              *)
LEMMA WriteStep ==
  ASSUME RecorderType, FileInv, KeptInv, NEW due \in BOOLEAN, NEW space \in BOOLEAN,
         Write(due, space)
  PROVE  FileInv' /\ KeptInv'
<1>1. /\ ~opt.snapshot /\ writer.at = "write"
      /\ UNCHANGED <<opt, ok, queue, queue_queue, bags, target, split_count, start_time>>
      /\ writer'.hold = writer.hold /\ DOMAIN writer' = {"at", "hold"}
      /\ writer'.at \in {"loop", "aborted"}
  BY DEF Write, queueVars, FileInv, FileType
<1>2. bag.ids \in Seq(Nat) /\ writer.hold.id \in Nat /\ DOMAIN bag = {"name", "ids"}
  BY DEF FileInv, FileType, Message
<1>3. \/ bag' = bag
      \/ bag # NoBag /\ bag' = [bag EXCEPT !.ids = Append(@, writer.hold.id)]
  BY DEF Write
<1>4. /\ DOMAIN bag' = {"name", "ids"} /\ bag'.name = bag.name
      /\ bag'.ids \in Seq(Nat)
      /\ bag'.ids = bag.ids \/ Len(bag'.ids) = Len(bag.ids) + 1
      /\ IdsOf(bag.ids) \subseteq IdsOf(bag'.ids)
      /\ bag' # NoBag => bag # NoBag
  <2>1. CASE bag' = bag
    BY <1>2, <2>1
  <2>2. CASE bag # NoBag /\ bag' = [bag EXCEPT !.ids = Append(@, writer.hold.id)]
    <3>1. bag'.ids = Append(bag.ids, writer.hold.id) /\ bag'.name = bag.name
      BY <1>2, <2>2
    <3> QED
      BY <1>2, <2>2, <3>1 DEF IdsOf
  <2> QED
    BY <1>3, <2>1, <2>2
<1>5. FileType'
  BY <1>1, <1>4 DEF FileInv, FileType
<1>6. NameInv'
  BY <1>1, <1>4 DEF FileInv, NameInv
<1>7. SplitInv'
  <2>1. ASSUME opt.split, opt.max_size > 0
        PROVE  Len(bag'.ids) <= opt.max_size + 1
    <3>1. Len(bag.ids) <= opt.max_size /\ Len(bag.ids) \in Nat /\ opt.max_size \in Nat
      BY <1>1, <1>2, <2>1 DEF FileInv, SplitInv, RecorderType
    <3> QED
      BY <1>4, <3>1
  <2> QED
    BY <1>1, <2>1 DEF FileInv, SplitInv, SplitBounded
<1>8. KeptInv'
  <2>1. CASE Logging(due, space) /\ bag # NoBag
    <3>1. bag'.ids = Append(bag.ids, writer.hold.id) /\ past' = past
      BY <1>2, <2>1 DEF Write
    <3>2. writer.hold.id \in IdsOf(bag'.ids)
      <4>1. /\ Len(bag.ids) + 1 \in DOMAIN bag'.ids
            /\ bag'.ids[Len(bag.ids) + 1] = writer.hold.id
        BY <1>2, <3>1
      <4> QED
        BY <4>1 DEF IdsOf
    <3> QED
      BY <1>1, <1>4, <3>1, <3>2 DEF KeptInv, Held, Written, Ids
  <2>2. CASE Logging(due, space) /\ bag = NoBag
    BY <2>2 DEF Write, KeptInv, FileInv, FileType
  <2>3. CASE ~Logging(due, space)
    <3>1. /\ past'.dropped = past.dropped \cup {writer.hold.id}
          /\ past'.owed = past.owed /\ past'.stopped = past.stopped
      BY <2>3 DEF Write, RecorderType
    <3> QED
      BY <1>1, <1>4, <3>1 DEF KeptInv, Held, Written, Ids
  <2> QED
    BY <2>1, <2>2, <2>3
<1> QED
  BY <1>5, <1>6, <1>7, <1>8 DEF FileInv

(* The last bag is closed.                                                 *)
LEMMA CloseStep ==
  ASSUME RecorderType, FileInv, KeptInv, stopWriting
  PROVE  FileInv' /\ KeptInv'
<1>1. /\ writer.at = "close" /\ bags' = Closed(bags) /\ bag' = NoBag
      /\ UNCHANGED <<opt, ok, past, queue, queue_queue, target, split_count, start_time>>
      /\ writer'.hold = writer.hold /\ DOMAIN writer' = {"at", "hold"}
      /\ writer'.at = IF opt.snapshot THEN "loop" ELSE "done"
  BY DEF stopWriting, queueVars, FileInv, FileType
<1>2. DOMAIN bag' = {"name", "ids"} /\ bag'.ids = <<>>
  BY <1>1 DEF NoBag
<1>3. \A n \in DOMAIN bags' : \/ bags'[n] = bag.ids
                              \/ n \in DOMAIN bags /\ bags'[n] = bags[n]
  BY <1>1 DEF Closed
<1>4. FileType'
  BY <1>1, <1>2, <1>3 DEF FileInv, FileType
<1>5. NameInv'
  BY <1>1 DEF NameInv
<1>6. SplitInv'
  <2>1. ASSUME opt.split, ~opt.snapshot, opt.max_size > 0
        PROVE  /\ Len(bag'.ids) <= opt.max_size + 1
               /\ \A n \in DOMAIN bags' : Len(bags'[n]) <= opt.max_size + 1
    <3>1. /\ Len(bag.ids) <= opt.max_size + 1 /\ opt.max_size \in Nat
          /\ \A n \in DOMAIN bags : Len(bags[n]) <= opt.max_size + 1
      BY <2>1 DEF FileInv, SplitInv, SplitBounded, RecorderType
    <3> QED
      BY <1>2, <1>3, <2>1, <3>1
  <2> QED
    BY <1>1, <2>1 DEF SplitInv, SplitBounded
<1>7. ASSUME ~opt.snapshot
      PROVE  Written \subseteq Written'
  <2>1. /\ bag # NoBag => target \in DOMAIN bags' /\ bags'[target] = bag.ids
        /\ \A n \in DOMAIN bags : n \in DOMAIN bags' /\ bags'[n] = bags[n]
    BY <1>1, <1>7, ClosedFacts
  <2>2. IdsOf(bag.ids) \subseteq Written'
    <3>1. CASE bag = NoBag
      BY <3>1, EmptyIds DEF NoBag
    <3>2. CASE bag # NoBag
      BY <2>1, <3>2 DEF Written
    <3> QED
      BY <3>1, <3>2
  <2>3. UNION {IdsOf(bags[n]) : n \in DOMAIN bags} \subseteq Written'
    BY <2>1 DEF Written
  <2> QED
    BY <2>2, <2>3 DEF Written
<1>8. KeptInv'
  BY <1>1, <1>7 DEF KeptInv, Held, Ids
<1> QED
  BY <1>4, <1>5, <1>6, <1>8 DEF FileInv

(* The snapshotter takes up a snapshot.                                    *)
LEMMA SnapshotLockStep ==
  ASSUME RecorderType, FileInv, KeptInv, NEW opens \in BOOLEAN, SnapshotLock(opens)
  PROVE  FileInv' /\ KeptInv'
<1>1. /\ opt.snapshot
      /\ UNCHANGED <<opt, ok, past, queue, bags, target, split_count, start_time>>
  BY DEF SnapshotLock
<1>2. CASE queue_queue # <<>> /\ opens
  <2> DEFINE q == queue_queue[1].queue
             ids == [j \in DOMAIN q |-> q[j].id]
  <2>1. /\ queue_queue[1] \in Snapshot /\ Tail(queue_queue) \in Seq(Snapshot)
    BY <1>2 DEF FileInv, FileType
  <2>2. q \in Seq(Message)
    BY <2>1 DEF Snapshot
  <2>3. ids \in Seq(Nat)
    <3> HIDE DEF q
    <3>1. DOMAIN q = 1 .. Len(q) /\ Len(q) \in Nat /\ \A j \in 1 .. Len(q) : q[j] \in Message
      BY <2>2
    <3>2. \A j \in 1 .. Len(q) : q[j].id \in Nat
      BY <3>1 DEF Message
    <3>3. ids = [j \in 1 .. Len(q) |-> q[j].id]
      BY <3>1
    <3> QED
      BY <3>1, <3>2, <3>3
  <2>4. bag' = [name |-> queue_queue[1].name, ids |-> ids]
    BY <1>2 DEF SnapshotLock
  <2>5. /\ DOMAIN bag' = {"name", "ids"} /\ bag'.ids \in Seq(Nat)
    BY <2>3, <2>4
  <2>6. /\ writer'.hold = writer.hold /\ DOMAIN writer' = {"at", "hold"}
        /\ writer'.at = "close" /\ queue_queue' = Tail(queue_queue)
    BY <1>2 DEF SnapshotLock, Stop, FileInv, FileType
  <2> QED
    BY <1>1, <2>1, <2>5, <2>6 DEF FileInv, FileType, NameInv, SplitInv, SplitBounded, KeptInv
<1>3. CASE ~(queue_queue # <<>> /\ opens)
  <2>1. /\ UNCHANGED <<bag, queue_queue>> /\ writer'.hold = writer.hold
        /\ DOMAIN writer' = {"at", "hold"} /\ writer'.at \in {"check", "done"}
    BY <1>3 DEF SnapshotLock, FileInv, FileType
  <2> QED
    BY <1>1, <2>1 DEF FileInv, FileType, NameInv, SplitInv, SplitBounded, KeptInv
<1> QED
  BY <1>2, <1>3

(* What does not touch the files, and queues no message.                   *)
LEMMA QuietStep ==
  ASSUME RecorderType, FileInv, KeptInv,
         UNCHANGED <<opt, queue, queue_queue, writer, fileVars>>, ok' => ok,
         past'.owed = past.owed, past'.dropped = past.dropped,
         past'.stopped = past.stopped
  PROVE  FileInv' /\ KeptInv'
BY DEF FileInv, FileType, NameInv, SplitInv, SplitBounded, KeptInv, Held, Written, Ids,
       fileVars

(* The spinner queues a message: it is in the queue, or dropped from it.   *)
LEMMA QueuedStep ==
  ASSUME RecorderType, FileInv, KeptInv, NEW t \in Topics, doQueue(t)
  PROVE  FileInv' /\ KeptInv'
<1> DEFINE m   == [id |-> NextId, time |-> callback[t].time]
           all == Append(queue, m)
<1>1. m \in Message /\ m.id = NextId
  BY NextIdType DEF RecorderType, Message
<1>2. /\ queue' = Kept(all) /\ UNCHANGED <<opt, ok, queue_queue, writer, fileVars>>
      /\ past'.owed = past.owed \cup {NextId} /\ past'.stopped = past.stopped
      /\ past'.dropped = past.dropped \cup (Ids(all) \ Ids(queue')) \cup
                         IF ok THEN {} ELSE {NextId}
  BY <1>1 DEF doQueue, RecorderType
<1> HIDE DEF m
<1>3. Ids(all) = Ids(queue) \cup {NextId}
  <2>1. queue \in Seq(Message) /\ all \in Seq(Message)
    BY <1>1 DEF RecorderType
  <2>2. /\ DOMAIN queue = 1 .. Len(queue) /\ Len(queue) \in Nat
        /\ DOMAIN all = 1 .. Len(queue) + 1
        /\ \A i \in 1 .. Len(queue) : all[i] = queue[i]
        /\ all[Len(queue) + 1] = m
    BY <1>1, <2>1
  <2>3. DOMAIN all = DOMAIN queue \cup {Len(queue) + 1}
    BY <2>2
  <2> HIDE DEF all
  <2> QED
    BY <1>1, <2>2, <2>3 DEF Ids
<1>4. Ids(Kept(all)) \subseteq Ids(all)
  <2>1. all \in Seq(Message)
    BY <1>1 DEF RecorderType
  <2> HIDE DEF all
  <2>2. CASE opt.buffer_size > 0 /\ Len(all) > opt.buffer_size
    <3> DEFINE first == Len(all) - opt.buffer_size + 1
    <3>1. first \in 1 .. Len(all) /\ Len(all) \in Nat /\ opt.buffer_size \in Nat
      BY <2>1, <2>2 DEF RecorderType
    <3>2. Kept(all) = SubSeq(all, first, Len(all))
      BY <2>2 DEF Kept
    <3>3. /\ SubSeq(all, first, Len(all)) \in Seq(Message)
          /\ Len(SubSeq(all, first, Len(all))) = Len(all) - first + 1
          /\ \A i \in 1 .. Len(all) - first + 1 :
               SubSeq(all, first, Len(all))[i] = all[first + i - 1]
      BY <2>1, <3>1, SubSeqProperties
    <3>4. DOMAIN Kept(all) = 1 .. Len(all) - first + 1
      BY <3>2, <3>3
    <3>5. \A i \in 1 .. Len(all) - first + 1 : first + i - 1 \in DOMAIN all
      BY <2>1, <3>1
    <3> HIDE DEF first
    <3> QED
      BY <3>2, <3>3, <3>4, <3>5 DEF Ids
  <2>3. CASE ~(opt.buffer_size > 0 /\ Len(all) > opt.buffer_size)
    BY <2>3 DEF Kept
  <2> QED
    BY <2>2, <2>3
<1> HIDE DEF all
<1>5. FileInv'
  BY <1>2 DEF FileInv, FileType, NameInv, SplitInv, SplitBounded, fileVars
<1>6. KeptInv'
  <2>1. Written' = Written /\ Held' = Held
    BY <1>2 DEF Written, Held, fileVars
  <2>2. past.dropped \subseteq past'.dropped /\ Ids(all) \subseteq past'.dropped \cup Ids(queue')
    BY <1>2
  <2>3. ~ok => NextId \in past'.dropped
    BY <1>2
  <2>4. opt' = opt /\ writer' = writer /\ ok' = ok /\ past'.stopped = past.stopped
    BY <1>2
  <2> SUFFICES ASSUME ~opt.snapshot, ~past.stopped, writer.at # "aborted"
               PROVE  /\ past'.owed \subseteq past'.dropped \cup Ids(queue') \cup Held \cup Written
                      /\ writer.at \in {"close", "done"} => ~ok /\ Ids(queue') \subseteq past'.dropped
    BY <2>1, <2>4 DEF KeptInv
  <2>5. past'.owed \subseteq past'.dropped \cup Ids(queue') \cup Held \cup Written
    BY <1>2, <1>3, <2>2 DEF KeptInv
  <2>6. writer.at \in {"close", "done"} => ~ok /\ Ids(queue') \subseteq past'.dropped
    BY <1>2, <1>3, <1>4, <2>2, <2>3 DEF KeptInv
  <2> QED
    BY <2>5, <2>6
<1> QED
  BY <1>5, <1>6

(* A snapshot is triggered.                                                *)
LEMMA TriggerStep ==
  ASSUME RecorderType, FileInv, KeptInv, snapshotTrigger
  PROVE  FileInv' /\ KeptInv'
<1>1. /\ opt.snapshot /\ UNCHANGED <<opt, ok, bag, bags, split_count, start_time>>
      /\ writer'.hold = writer.hold /\ DOMAIN writer' = {"at", "hold"}
      /\ writer'.at = writer.at \/ writer'.at = "lock"
  BY DEF snapshotTrigger, NotifyAll, FileInv, FileType
<1>2. [name |-> SnapshotName, queue |-> queue] \in Snapshot
  BY NameFacts DEF SnapshotName, Snapshot, RecorderType, FileInv, FileType
<1>3. queue_queue' \in Seq(Snapshot)
  BY <1>2 DEF snapshotTrigger, FileInv, FileType
<1> QED
  BY <1>1, <1>3 DEF FileInv, FileType, NameInv, SplitInv, SplitBounded, KeptInv

(* Every step preserves the invariant of files and messages.               *)
LEMMA FileStep ==
  ASSUME RecorderType, FileInv, KeptInv, [RecorderNext]_rvars
  PROVE  FileInv' /\ KeptInv'
<1>1. CASE WriterNext
  BY <1>1, MoveStep, StartStep, LockStep, SizeStep, DurationStep, WriteStep, CloseStep,
     SnapshotLockStep DEF WriterNext
<1>2. CASE snapshotTrigger
  BY <1>2, TriggerStep
<1>3. CASE Notify
  <2>1. /\ UNCHANGED <<opt, ok, queue, queue_queue, fileVars>>
        /\ past'.owed = past.owed /\ past'.dropped = past.dropped
        /\ past'.stopped = past.stopped
    BY <1>3 DEF Notify, queueVars, RecorderType
  <2>2. CASE writer' = writer
    BY <2>1, <2>2, QuietStep
  <2>3. CASE writer.at = "waiting" /\ writer' = [writer EXCEPT !.at = "lock"]
    <3>1. opt.snapshot /\ writer'.at = "lock" /\ writer'.hold = writer.hold
          /\ DOMAIN writer' = {"at", "hold"}
      BY <2>3 DEF FileInv, FileType
    <3> QED
      BY <2>1, <3>1 DEF FileInv, FileType, NameInv, SplitInv, SplitBounded, KeptInv, fileVars
  <2> QED
    BY <1>3, <2>2, <2>3 DEF Notify, NotifyAll
<1>4. CASE Tick \/ Interrupt \/ Joined \/ UNCHANGED rvars
  BY <1>4, QuietStep DEF Tick, Interrupt, Joined, rvars, queueVars, fileVars
<1>5. ASSUME NEW t \in Topics, doQueue(t)
      PROVE  FileInv' /\ KeptInv'
  BY <1>5, QueuedStep
<1>6. ASSUME NEW t \in Topics,
             doCheckMaster(t) \/ subscribe(t) \/ Receive(t) \/ Count(t) \/ Subtract(t)
      PROVE  FileInv' /\ KeptInv'
  <2>1. /\ UNCHANGED <<opt, queue, queue_queue, writer, fileVars>> /\ (ok' => ok)
    <3>1. CASE doCheckMaster(t) \/ subscribe(t)
      BY <3>1 DEF doCheckMaster, subscribe, Assign, Add, queueVars
    <3>2. CASE Receive(t)
      BY <3>2 DEF Receive, queueVars
    <3>3. CASE Count(t)
      BY <3>3 DEF Count, queueVars
    <3>4. CASE Subtract(t)
      BY <3>4 DEF Subtract, StillOk, queueVars
    <3> QED
      BY <1>6, <3>1, <3>2, <3>3, <3>4
  <2>2. /\ past'.owed = past.owed /\ past'.dropped = past.dropped
        /\ past'.stopped = past.stopped
    BY <1>6 DEF doCheckMaster, subscribe, Assign, Add, Receive, Count, Subtract, RecorderType
  <2> QED
    BY <2>1, <2>2, QuietStep
<1> QED
  BY <1>1, <1>2, <1>3, <1>4, <1>5, <1>6 DEF RecorderNext, CallbackNext

(* It holds at first.                                                      *)
LEMMA FileInit == ASSUME RecorderInit PROVE FileInv /\ KeptInv
<1>1. bag.ids = <<>> /\ DOMAIN bags = {} /\ DOMAIN bag = {"name", "ids"} /\ bag = NoBag
  BY DEF RecorderInit, NoBag
<1>2. FileType
  BY <1>1 DEF RecorderInit, FileType, Message
<1>3. NameInv
  BY <1>1 DEF RecorderInit, NameInv
<1>4. SplitInv
  <2>1. opt.max_size \in Nat
    BY TypeInit DEF RecorderType
  <2>2. Len(bag.ids) = 0 /\ DOMAIN bags = {}
    BY <1>1
  <2>3. writer.at = "start"
    BY DEF RecorderInit
  <2> QED
    BY <2>1, <2>2, <2>3 DEF SplitInv, SplitBounded
<1>5. KeptInv
  BY DEF RecorderInit, KeptInv
<1> QED
  BY <1>2, <1>3, <1>4, <1>5 DEF FileInv

----------------------------------------------------------------------------
(* Snapshots.  While no trigger comes before the last snapshot is finished, *)
(* one snapshot at most waits or is being written, and it has the name that *)
(* was computed last, under which the bag will be closed.                   *)
Pending == IF queue_queue # <<>> \/ writer.at = "close" THEN {target} ELSE {}

ShotInv ==
  opt.snapshot /\ ~past.renamed /\ writer.at # "done" =>
    /\ Len(queue_queue) <= 1
    /\ queue_queue # <<>> => /\ queue_queue[1].name = target /\ target # NoName
                             /\ writer.at # "close"
    /\ writer.at = "close" => bag.name = target /\ bag # NoBag
    /\ past.shots \subseteq DOMAIN bags \cup Pending

(* The steps that neither take, leave nor write a snapshot.                *)
LEMMA ShotKept ==
  ASSUME ShotInv, UNCHANGED <<opt, queue_queue, bag, bags, target>>,
         past'.renamed = past.renamed, past'.shots = past.shots,
         writer.at = "done" => writer'.at = "done",
         writer.at = "close" <=> writer'.at = "close"
  PROVE  ShotInv'
BY DEF ShotInv, Pending

(* A triggered snapshot has the name computed last.                        *)
LEMMA TriggerShot ==
  ASSUME RecorderType, FileInv, ShotInv, snapshotTrigger
  PROVE  ShotInv'
<1> DEFINE new == [name |-> SnapshotName, queue |-> queue]
<1>1. /\ past'.renamed = (past.renamed \/ writer.at = "close" \/ queue_queue # <<>>)
      /\ past'.shots = past.shots \cup {target'}
  BY DEF snapshotTrigger, RecorderType
<1>2. /\ opt.snapshot /\ target' = SnapshotName /\ queue_queue' = Append(queue_queue, new)
      /\ UNCHANGED <<opt, bag, bags>>
  BY DEF snapshotTrigger, SnapshotName
<1>3. target' # NoName
  BY <1>2, NameFacts DEF SnapshotName, FileInv, FileType
<1>4. writer'.at = writer.at \/ (writer.at = "waiting" /\ writer'.at = "lock")
  BY DEF snapshotTrigger, NotifyAll, FileInv, FileType
<1> SUFFICES ASSUME ~past'.renamed, writer'.at # "done"
             PROVE  /\ Len(queue_queue') = 1 /\ queue_queue'[1].name = target'
                    /\ queue_queue' # <<>> /\ writer'.at # "close"
                    /\ past'.shots \subseteq DOMAIN bags \cup {target'}
  BY <1>2, <1>3 DEF ShotInv, Pending
<1>5. ~past.renamed /\ queue_queue = <<>> /\ writer.at \notin {"close", "done"}
  BY <1>1, <1>4
<1>6. queue_queue' = <<new>>
  BY <1>2, <1>5
<1>7. Len(queue_queue') = 1 /\ queue_queue'[1].name = target' /\ queue_queue' # <<>>
  <2>1. new.name = target'
    BY <1>2
  <2> HIDE DEF new
  <2> QED
    BY <1>6, <2>1
<1>8. past.shots \subseteq DOMAIN bags
  BY <1>2, <1>5 DEF ShotInv, Pending
<1> QED
  BY <1>1, <1>4, <1>5, <1>7, <1>8

(* The snapshotter takes it up under that name.                            *)
LEMMA LockShot ==
  ASSUME RecorderType, FileInv, ShotInv, NEW opens \in BOOLEAN, SnapshotLock(opens)
  PROVE  ShotInv'
<1>1. opt.snapshot /\ writer.at = "lock" /\ UNCHANGED <<opt, past, bags, target>>
  BY DEF SnapshotLock
<1>2. CASE queue_queue # <<>> /\ opens
  <2>1. bag'.name = queue_queue[1].name /\ queue_queue' = Tail(queue_queue)
        /\ writer'.at = "close"
    BY <1>2 DEF SnapshotLock, Stop, FileInv, FileType
  <2> SUFFICES ASSUME ~past.renamed
               PROVE  /\ queue_queue' = <<>> /\ Len(queue_queue') = 0
                      /\ bag'.name = target /\ bag' # NoBag
                      /\ past.shots \subseteq DOMAIN bags \cup {target}
    BY <1>1, <2>1 DEF ShotInv, Pending
  <2>2. /\ Len(queue_queue) <= 1 /\ queue_queue[1].name = target /\ target # NoName
        /\ past.shots \subseteq DOMAIN bags \cup {target}
    BY <1>1, <1>2 DEF ShotInv, Pending
  <2>3. queue_queue \in Seq(Snapshot)
    BY DEF FileInv, FileType
  <2>4. queue_queue' = <<>> /\ Len(queue_queue') = 0
    <3>1. Tail(queue_queue) \in Seq(Snapshot) /\ Len(Tail(queue_queue)) = Len(queue_queue) - 1
      BY <1>2, <2>3
    <3>2. Len(queue_queue) = 1
      <4>1. queue_queue # <<>>
        BY <1>2, Zenon
      <4>2. Len(queue_queue) <= 1
        BY <2>2, Zenon
      <4>3. Len(queue_queue) \in Nat \ {0}
        BY <2>3, <4>1, EmptySeq, Zenon
      <4>4. \A n \in Nat \ {0} : n <= 1 => n = 1
        OBVIOUS
      <4> QED
        BY <4>2, <4>3, <4>4, Zenon
    <3>3. Tail(queue_queue) = <<>>
      BY <3>1, <3>2, EmptySeq
    <3>4. queue_queue' = <<>>
      BY <2>1, <3>3
    <3> QED
      BY <3>4
  <2>5. bag' # NoBag
    BY <2>1, <2>2 DEF NoBag, NoName
  <2> QED
    BY <2>1, <2>2, <2>4, <2>5
<1>3. CASE ~(queue_queue # <<>> /\ opens)
  <2>1. UNCHANGED <<bag, queue_queue>> /\ writer'.at \in {"check", "done"}
    BY <1>3 DEF SnapshotLock, FileInv, FileType
  <2>2. CASE writer'.at = "done"
    BY <2>2 DEF ShotInv
  <2>3. CASE writer'.at = "check"
    BY <1>1, <2>1, <2>3, ShotKept
  <2> QED
    BY <2>1, <2>2, <2>3
<1> QED
  BY <1>2, <1>3

(* It closes it under that name.                                           *)
LEMMA CloseShot ==
  ASSUME RecorderType, FileInv, ShotInv, stopWriting
  PROVE  ShotInv'
<1>1. /\ writer.at = "close" /\ bags' = Closed(bags)
      /\ UNCHANGED <<opt, past, queue_queue, target>>
      /\ opt.snapshot => writer'.at = "loop"
  BY DEF stopWriting, queueVars, FileInv, FileType
<1> SUFFICES ASSUME opt.snapshot, ~past.renamed
             PROVE  queue_queue = <<>> /\ past.shots \subseteq DOMAIN bags'
  BY <1>1 DEF ShotInv, Pending
<1>2. /\ queue_queue = <<>> /\ bag.name = target /\ bag # NoBag
      /\ past.shots \subseteq DOMAIN bags \cup {target}
  BY <1>1 DEF ShotInv, Pending
<1>3. DOMAIN bags' = DOMAIN bags \cup {target}
  BY <1>1, <1>2 DEF Closed
<1> QED
  BY <1>2, <1>3

(* Every step preserves the invariant of snapshots.                        *)
LEMMA ShotStep ==
  ASSUME RecorderType, FileInv, ShotInv, [RecorderNext]_rvars
  PROVE  ShotInv'
<1>1. CASE WriterNext
  <2>1. CASE ~opt.snapshot
    BY <1>1, <2>1, WriterFrame DEF WriterKeeps, ShotInv
  <2>2. CASE SnapshotLoop \/ SnapshotWait
    <3>1. /\ UNCHANGED <<opt, queue_queue, bag, bags, target, past>>
          /\ writer.at \notin {"close", "done"} /\ writer'.at # "close"
      BY <2>2 DEF SnapshotLoop, SnapshotWait, queueVars, fileVars, FileInv, FileType
    <3> QED
      BY <3>1, ShotKept
  <2>3. CASE opt.snapshot
    <3>1. writer.at \notin {"wait", "size", "duration", "write"}
      BY <2>3 DEF FileInv, FileType
    <3> QED
      BY <1>1, <2>2, <2>3, <3>1, LockShot, CloseShot
      DEF WriterNext, startWriting, Continue, Lock, Wait, checkSize, Duration, Write
  <2> QED
    BY <2>1, <2>3
<1>2. CASE snapshotTrigger
  BY <1>2, TriggerShot
<1>3. CASE Notify
  <2>1. /\ UNCHANGED <<opt, queue_queue, bag, bags, target>>
        /\ past'.renamed = past.renamed /\ past'.shots = past.shots
    BY <1>3 DEF Notify, queueVars, fileVars, RecorderType
  <2>2. writer'.at = writer.at \/ (writer.at = "waiting" /\ writer'.at = "lock")
    BY <1>3 DEF Notify, NotifyAll, FileInv, FileType
  <2> QED
    BY <2>1, <2>2, ShotKept
<1>4. CASE Tick \/ Interrupt \/ Joined \/ UNCHANGED rvars
  BY <1>4, ShotKept DEF Tick, Interrupt, Joined, rvars, queueVars, fileVars
<1>5. ASSUME NEW t \in Topics,
             \/ doCheckMaster(t) \/ subscribe(t) \/ Receive(t)
             \/ doQueue(t) \/ Count(t) \/ Subtract(t)
      PROVE  ShotInv'
  <2>1. UNCHANGED <<opt, queue_queue, bag, bags, target, writer>>
    <3>1. CASE doCheckMaster(t) \/ subscribe(t) \/ Receive(t)
      BY <3>1 DEF doCheckMaster, subscribe, Assign, Add, Receive, queueVars, fileVars
    <3>2. CASE doQueue(t)
      BY <3>2 DEF doQueue, fileVars
    <3>3. CASE Count(t) \/ Subtract(t)
      BY <3>3 DEF Count, Subtract, queueVars, fileVars
    <3> QED
      BY <1>5, <3>1, <3>2, <3>3
  <2>2. past'.renamed = past.renamed /\ past'.shots = past.shots
    BY <1>5 DEF doCheckMaster, subscribe, Assign, Add, Receive, doQueue, Count, Subtract,
       RecorderType
  <2> QED
    BY <2>1, <2>2, ShotKept
<1> QED
  BY <1>1, <1>2, <1>3, <1>4, <1>5 DEF RecorderNext, CallbackNext

----------------------------------------------------------------------------
LoggerInv ==
  /\ RecorderType /\ BufferBounded /\ TopicInv /\ EndInv
  /\ FileInv /\ KeptInv /\ ShotInv

(* The invariant of the recorder holds always.                             *)
LEMMA LoggerAlways == RecorderSpec => []LoggerInv
<1>1. RecorderInit => LoggerInv
  <2> SUFFICES ASSUME RecorderInit PROVE LoggerInv
    OBVIOUS
  <2>1. ShotInv
    BY DEF RecorderInit, ShotInv
  <2> QED
    BY <2>1, TypeInit, TopicInit, FileInit DEF LoggerInv
<1>2. LoggerInv /\ [RecorderNext]_rvars => LoggerInv'
  BY TypeStep, BufferStep, TopicStep, EndStep, FileStep, ShotStep DEF LoggerInv
<1> QED
  BY <1>1, <1>2, PTL DEF RecorderSpec

(* The limits of the command line are kept, however the threads of the     *)
(* topics, the writer and the user interleave: queue_size_ is the length   *)
(* of the queue and keeps to the buffer, no topic has more messages taken  *)
(* than --limit, unless one reached it before subscribe had assigned its   *)
(* subscriber, the recorder shuts down when all topics have reached it     *)
(* (unless two threads changed num_subscribers_ at the same time, or a     *)
(* topic was counted out before it was counted in), and a bag that is      *)
(* split by size exceeds it by one message at most.                        *)
THEOREM LimitsHold == RecorderSpec => []LimitsKept
<1>1. LoggerInv => LimitsKept
  <2> SUFFICES ASSUME LoggerInv PROVE LimitsKept
    OBVIOUS
  <2>1. BufferBounded /\ SplitBounded
    BY DEF LoggerInv, FileInv, SplitInv
  <2>2. LimitKept
    BY DEF LoggerInv, TopicInv, TopicLimit, LimitKept
  <2>3. EndsAtLimit
    <3> SUFFICES ASSUME opt.limit > 0, ~past.raced,
                        \E t \in Topics : topic[t].recorded,
                        \A t \in Topics : /\ callback[t] = Idle
                                          /\ topic[t].recorded => topic[t].count = 0
                 PROVE  ~ok
      BY DEF EndsAtLimit
    <3>1. \A t \in Topics : callback[t].at = "idle"
      BY DEF Idle
    <3>2. Unfinished = {}
      BY <3>1 DEF Unfinished, Counted, Left
    <3>3. num_subscribers = 0
      BY <3>2, FS_EmptySet DEF LoggerInv, EndInv
    <3>4. PICK t \in Topics : topic[t].recorded
      OBVIOUS
    <3>5. Counted(t)
      BY <3>1, <3>4 DEF LoggerInv, EndInv, Left
    <3> QED
      BY <3>3, <3>5 DEF LoggerInv, EndInv
  <2> QED
    BY <2>1, <2>2, <2>3 DEF LimitsKept
<1> QED
  BY <1>1, LoggerAlways, PTL

(* Nothing that was to be kept is lost: when the writer has ended, not by  *)
(* a limit of size or duration, every message queued before the shutdown   *)
(* is in a finished bag unless the buffer or the disk was full, and no bag *)
(* overwrote another; and every snapshot has its bag, unless a trigger     *)
(* came before the last one was finished.                                  *)
THEOREM NothingIsLost == RecorderSpec => []NothingLost
<1>1. LoggerInv => NothingLost
  <2> SUFFICES ASSUME LoggerInv PROVE NothingLost
    OBVIOUS
  <2>1. ASSUME writer.at = "done", ~opt.snapshot, ~past.stopped
        PROVE  past.owed \subseteq past.dropped \cup UNION {IdsOf(bags[n]) : n \in DOMAIN bags}
    <3>1. bag = NoBag
      BY <2>1 DEF LoggerInv, FileInv, NameInv
    <3>2. IdsOf(bag.ids) = {}
      BY <3>1, EmptyIds DEF NoBag
    <3>3. Held = {}
      BY <2>1 DEF Held
    <3>4. /\ past.owed \subseteq past.dropped \cup Ids(queue) \cup Held \cup Written
          /\ Ids(queue) \subseteq past.dropped
      BY <2>1 DEF LoggerInv, KeptInv
    <3> QED
      BY <3>2, <3>3, <3>4 DEF Written
  <2>2. SnapshotsNamed
    BY DEF LoggerInv, ShotInv, Pending, SnapshotsNamed
  <2> QED
    BY <2>1, <2>2 DEF NothingLost, MessagesKept
<1> QED
  BY <1>1, LoggerAlways, PTL
-----------------------------------------------------------------------------
(***************************************************************************)
(* Loading and unloading.  The scripts, statement by statement: what is at *)
(* each of their places, for any number of subcontrollers.                 *)
(***************************************************************************)
Statements(c) ==
  [op : {"reset", "load", "connect", "name", "loadSub", "addPeer", "configure",
         "start", "stop", "cleanup", "unloadSub", "unload"},
   name : {<<c.component>>, <<"atrias_cm">>}, i : Nat]

Subs(c)    == Len(c.subs)
Cleared(c) == IF c.clears THEN 1 ELSE 0
Named(c)   == Cleared(c) + 2

ForSub(c, op, j) == [op |-> op, name |-> <<c.component>>, i |-> j]

StartAt(c, k) ==
  IF k <= Cleared(c) THEN Statement("reset", "atrias_cm", 0)
  ELSE IF k = Cleared(c) + 1 THEN Statement("load", c.component, 0)
  ELSE IF k = Named(c) THEN Statement("connect", c.component, 0)
  ELSE IF k <= Named(c) + Subs(c) THEN ForSub(c, "name", k - Named(c))
  ELSE IF k <= Named(c) + 2 * Subs(c) THEN ForSub(c, "loadSub", k - Named(c) - Subs(c))
  ELSE IF k <= Named(c) + 3 * Subs(c) THEN ForSub(c, "addPeer", k - Named(c) - 2 * Subs(c))
  ELSE IF k = Named(c) + 3 * Subs(c) + 1 THEN Statement("configure", c.component, 0)
  ELSE Statement("start", c.component, 0)

StopAt(c, k) ==
  IF k = 1 THEN Statement("stop", c.component, 0)
  ELSE IF c.early /\ k <= Subs(c) + 1 THEN ForSub(c, "unloadSub", k - 1)
  ELSE IF k = (IF c.early THEN Subs(c) + 2 ELSE 2) THEN Statement("cleanup", c.component, 0)
  ELSE IF k <= Subs(c) + 2 THEN ForSub(c, "unloadSub", k - 2)
  ELSE IF k = Subs(c) + 3 THEN Statement("unload", c.component, 0)
  ELSE Statement("reset", "atrias_cm", 0)

(* A package's constants.                                                  *)
LEMMA Package ==
  ASSUME NEW c \in Packages
  PROVE  /\ Subs(c) \in Nat /\ Cleared(c) \in {0, 1} /\ Named(c) \in {2, 3}
         /\ Named(c) = Cleared(c) + 2
         /\ c.clears \in BOOLEAN /\ c.resets \in BOOLEAN /\ c.early \in BOOLEAN
         /\ CountMax \in Nat /\ MaxASCs \in Nat
BY PackagesMatch DEF Subs, Cleared, Named

(* The parts of a script.                                                  *)
LEMMA Parts ==
  ASSUME NEW c \in Packages, NEW op \in {"name", "loadSub", "addPeer", "unloadSub"}
  PROVE  /\ ForSubs(c, op) \in Seq(Statements(c)) /\ Len(ForSubs(c, op)) = Subs(c)
         /\ \A k \in 1..Subs(c) : ForSubs(c, op)[k] = ForSub(c, op, k)
<1>1. ForSubs(c, op) = [k \in 1..Subs(c) |-> ForSub(c, op, k)]
  BY DEF ForSubs, ForSub, Subs
<1>2. Subs(c) \in Nat
  BY Package
<1>3. \A k \in 1..Subs(c) : ForSub(c, op, k) \in Statements(c)
  BY <1>2 DEF ForSub, Statements
<1>4. [k \in 1..Subs(c) |-> ForSub(c, op, k)] \in [1..Subs(c) -> Statements(c)]
  BY <1>3
<1> DEFINE f == [k \in 1..Subs(c) |-> ForSub(c, op, k)]
<1>5. \A k \in 1..Subs(c) : f[k] = ForSub(c, op, k)
  OBVIOUS
<1> HIDE DEF f
<1>6. f \in Seq(Statements(c)) /\ Len(f) = Subs(c)
  BY <1>2, <1>4 DEF f
<1> QED
  BY <1>1, <1>5, <1>6 DEF f

(* A statement by itself.                                                  *)
LEMMA Single ==
  ASSUME NEW c \in Packages,
         NEW op \in {"reset", "load", "connect", "configure", "start", "stop", "cleanup", "unload"},
         NEW name, <<name>> \in {<<c.component>>, <<"atrias_cm">>}
  PROVE  /\ <<Statement(op, name, 0)>> \in Seq(Statements(c))
         /\ Len(<<Statement(op, name, 0)>>) = 1
         /\ <<Statement(op, name, 0)>>[1] = Statement(op, name, 0)
<1>1. Statement(op, name, 0) \in Statements(c)
  BY DEF Statement, Statements
<1> HIDE DEF Statement
<1> QED
  BY <1>1

(* Two statements in a row.                                                *)
LEMMA Pair ==
  ASSUME NEW S, NEW a \in S, NEW b \in S
  PROVE  /\ <<a, b>> \in Seq(S) /\ Len(<<a, b>>) = 2
         /\ <<a, b>>[1] = a /\ <<a, b>>[2] = b
OBVIOUS

(* A sequence whose first p elements are those of s and whose other q are  *)
(* those of t.                                                             *)
Joins(u, s, p, t, q) ==
  /\ Len(u) = p + q
  /\ \A k \in 1..p : u[k] = s[k]
  /\ \A k \in 1..q : u[p + k] = t[k]

(* \o joins two sequences.                                                 *)
LEMMA Concatenated ==
  ASSUME NEW S, NEW s \in Seq(S), NEW t \in Seq(S)
  PROVE  s \o t \in Seq(S) /\ Joins(s \o t, s, Len(s), t, Len(t))
<1> DEFINE p == Len(s)
           q == Len(t)
<1>1. /\ s \o t \in Seq(S) /\ Len(s \o t) = p + q /\ p \in Nat /\ q \in Nat
      /\ \A k \in 1..p + q : (s \o t)[k] = IF k <= p THEN s[k] ELSE t[k - p]
  BY ConcatProperties, LenProperties
<1>2. \A k \in 1..q : p + k \in 1..p + q /\ ~ (p + k <= p) /\ (p + k) - p = k
  BY <1>1
<1>3. \A k \in 1..p : k \in 1..p + q /\ k <= p
  BY <1>1
<1> QED
  BY <1>1, <1>2, <1>3 DEF Joins

(* A part that some scripts have.                                          *)
LEMMA Optional ==
  ASSUME NEW S, NEW s \in Seq(S), NEW b \in BOOLEAN
  PROVE  /\ If(b, s) \in Seq(S) /\ Len(If(b, s)) = IF b THEN Len(s) ELSE 0
         /\ b => If(b, s) = s
BY DEF If

(* A start script, place by place.                                         *)
LEMMA StartOps ==
  ASSUME NEW c \in Packages
  PROVE  /\ start_ops(c) \in Seq(Statements(c))
         /\ Len(start_ops(c)) = Named(c) + 3 * Subs(c) + 2
         /\ \A k \in 1..Len(start_ops(c)) : start_ops(c)[k] = StartAt(c, k)
<1> DEFINE S == Statements(c)
           s1 == If(c.clears, <<Statement("reset", "atrias_cm", 0)>>)
           s2 == <<Statement("load", c.component, 0), Statement("connect", c.component, 0)>>
           s3 == ForSubs(c, "name")
           s4 == ForSubs(c, "loadSub")
           s5 == ForSubs(c, "addPeer")
           s6 == <<Statement("configure", c.component, 0), Statement("start", c.component, 0)>>
           t2 == s1 \o s2
           t3 == t2 \o s3
           t4 == t3 \o s4
           t5 == t4 \o s5
           t6 == t5 \o s6
           n == Subs(c)
           o == Cleared(c)
<1>1. start_ops(c) = t6
  BY DEF start_ops
<1>2. n \in Nat /\ o \in {0, 1} /\ c.clears \in BOOLEAN /\ Named(c) = o + 2
  BY Package
<1>3. /\ s1 \in Seq(S) /\ Len(s1) = o
      /\ \A k \in 1..o : s1[k] = Statement("reset", "atrias_cm", 0)
  <2> DEFINE r == <<Statement("reset", "atrias_cm", 0)>>
  <2>1. r \in Seq(S) /\ Len(r) = 1 /\ r[1] = Statement("reset", "atrias_cm", 0)
    BY Single
  <2> HIDE DEF r
  <2>2. If(c.clears, r) \in Seq(S) /\ Len(If(c.clears, r)) = o /\ (c.clears => If(c.clears, r) = r)
    BY <1>2, <2>1, Optional DEF Cleared
  <2>3. ~ c.clears => o = 0
    BY DEF Cleared
  <2>4. \A k \in 1..o : If(c.clears, r)[k] = Statement("reset", "atrias_cm", 0)
    BY <1>2, <2>1, <2>2, <2>3
  <2> QED
    BY <2>2, <2>4 DEF r
<1>4. /\ s2 \in Seq(S) /\ Len(s2) = 2
      /\ s2[1] = Statement("load", c.component, 0)
      /\ s2[2] = Statement("connect", c.component, 0)
  <2>1. /\ Statement("load", c.component, 0) \in S
        /\ Statement("connect", c.component, 0) \in S
    BY DEF Statement, Statements
  <2> HIDE DEF Statement
  <2> QED
    BY <2>1, Pair
<1>5. /\ s6 \in Seq(S) /\ Len(s6) = 2
      /\ s6[1] = Statement("configure", c.component, 0)
      /\ s6[2] = Statement("start", c.component, 0)
  <2>1. /\ Statement("configure", c.component, 0) \in S
        /\ Statement("start", c.component, 0) \in S
    BY DEF Statement, Statements
  <2> HIDE DEF Statement
  <2> QED
    BY <2>1, Pair
<1>6. /\ s3 \in Seq(S) /\ Len(s3) = n /\ \A k \in 1..n : s3[k] = ForSub(c, "name", k)
      /\ s4 \in Seq(S) /\ Len(s4) = n /\ \A k \in 1..n : s4[k] = ForSub(c, "loadSub", k)
      /\ s5 \in Seq(S) /\ Len(s5) = n /\ \A k \in 1..n : s5[k] = ForSub(c, "addPeer", k)
  BY Parts
<1> HIDE DEF S, s1, s2, s3, s4, s5, s6, n, o
<1>7. /\ t2 \in Seq(S) /\ Len(t2) = o + 2
      /\ \A k \in 1..o : t2[k] = s1[k]
      /\ \A k \in 1..2 : t2[o + k] = s2[k]
  <2>1. t2 \in Seq(S) /\ Joins(t2, s1, Len(s1), s2, Len(s2))
    BY <1>3, <1>4, Concatenated
  <2> HIDE DEF t2
  <2> QED
    BY <1>2, <1>3, <1>4, <2>1 DEF Joins
<1> HIDE DEF t2
<1>8. /\ t3 \in Seq(S) /\ Len(t3) = o + 2 + n
      /\ \A k \in 1..o + 2 : t3[k] = t2[k]
      /\ \A k \in 1..n : t3[o + 2 + k] = s3[k]
  <2>1. t3 \in Seq(S) /\ Joins(t3, t2, Len(t2), s3, Len(s3))
    BY <1>6, <1>7, Concatenated
  <2> HIDE DEF t3
  <2> QED
    BY <1>2, <1>6, <1>7, <2>1 DEF Joins
<1> HIDE DEF t3
<1>9. /\ t4 \in Seq(S) /\ Len(t4) = o + 2 + n + n
      /\ \A k \in 1..o + 2 + n : t4[k] = t3[k]
      /\ \A k \in 1..n : t4[o + 2 + n + k] = s4[k]
  <2>1. t4 \in Seq(S) /\ Joins(t4, t3, Len(t3), s4, Len(s4))
    BY <1>6, <1>8, Concatenated
  <2> HIDE DEF t4
  <2> QED
    BY <1>2, <1>6, <1>8, <2>1 DEF Joins
<1> HIDE DEF t4
<1>10. /\ t5 \in Seq(S) /\ Len(t5) = o + 2 + n + n + n
       /\ \A k \in 1..o + 2 + n + n : t5[k] = t4[k]
       /\ \A k \in 1..n : t5[o + 2 + n + n + k] = s5[k]
  <2>1. t5 \in Seq(S) /\ Joins(t5, t4, Len(t4), s5, Len(s5))
    BY <1>6, <1>9, Concatenated
  <2> HIDE DEF t5
  <2> QED
    BY <1>2, <1>6, <1>9, <2>1 DEF Joins
<1> HIDE DEF t5
<1>11. /\ t6 \in Seq(S) /\ Len(t6) = o + 2 + n + n + n + 2
       /\ \A k \in 1..o + 2 + n + n + n : t6[k] = t5[k]
       /\ \A k \in 1..2 : t6[o + 2 + n + n + n + k] = s6[k]
  <2>1. t6 \in Seq(S) /\ Joins(t6, t5, Len(t5), s6, Len(s6))
    BY <1>5, <1>10, Concatenated
  <2> HIDE DEF t6
  <2> QED
    BY <1>2, <1>5, <1>10, <2>1 DEF Joins
<1> HIDE DEF t6
<1>12. ASSUME NEW k \in 1..o + 2 + n + n + n + 2 PROVE t6[k] = StartAt(c, k)
  <2>0. StartAt(c, k) =
          IF k <= o THEN Statement("reset", "atrias_cm", 0)
          ELSE IF k = o + 1 THEN Statement("load", c.component, 0)
          ELSE IF k = o + 2 THEN Statement("connect", c.component, 0)
          ELSE IF k <= o + 2 + n THEN ForSub(c, "name", k - (o + 2))
          ELSE IF k <= o + 2 + n + n THEN ForSub(c, "loadSub", k - (o + 2 + n))
          ELSE IF k <= o + 2 + n + n + n THEN ForSub(c, "addPeer", k - (o + 2 + n + n))
          ELSE IF k = o + 2 + n + n + n + 1 THEN Statement("configure", c.component, 0)
          ELSE Statement("start", c.component, 0)
    <3>1. /\ Named(c) + 2 * Subs(c) = o + 2 + n + n
          /\ Named(c) + 3 * Subs(c) = o + 2 + n + n + n
          /\ Named(c) = o + 2 /\ Subs(c) = n /\ Cleared(c) = o
      BY <1>2 DEF o, n
    <3>2. /\ k - Named(c) - Subs(c) = k - (o + 2 + n)
          /\ k - Named(c) - 2 * Subs(c) = k - (o + 2 + n + n)
      BY <1>2, <3>1
    <3> QED
      BY <1>2, <3>1, <3>2 DEF StartAt
  <2>1. CASE k <= o
    <3>1. k \in 1..o /\ k \in 1..o + 2 /\ k \in 1..o + 2 + n /\ k \in 1..o + 2 + n + n
          /\ k \in 1..o + 2 + n + n + n
      BY <1>2, <2>1
    <3> QED
      BY <1>3, <1>7, <1>8, <1>9, <1>10, <1>11, <2>0, <2>1, <3>1
  <2>2. CASE k \in {o + 1, o + 2}
    <3>1. k \in 1..o + 2 /\ k \in 1..o + 2 + n /\ k \in 1..o + 2 + n + n
          /\ k \in 1..o + 2 + n + n + n /\ ~ (k <= o)
      BY <1>2, <2>2
    <3>2. t6[k] = t2[k]
      BY <1>8, <1>9, <1>10, <1>11, <3>1
    <3>3. t2[o + 1] = s2[1] /\ t2[o + 2] = s2[2]
      BY <1>7
    <3> QED
      BY <1>2, <1>4, <2>0, <2>2, <3>1, <3>2, <3>3
  <2>3. CASE k > o + 2 /\ k <= o + 2 + n
    <3>1. k \in 1..o + 2 + n /\ k \in 1..o + 2 + n + n /\ k \in 1..o + 2 + n + n + n
          /\ k - (o + 2) \in 1..n /\ o + 2 + (k - (o + 2)) = k
      BY <1>2, <2>3
    <3>2. t6[k] = t3[k]
      BY <1>9, <1>10, <1>11, <3>1
    <3>3. t3[k] = ForSub(c, "name", k - (o + 2))
      BY <1>6, <1>8, <3>1
    <3> QED
      BY <1>2, <2>0, <2>3, <3>2, <3>3
  <2>4. CASE k > o + 2 + n /\ k <= o + 2 + n + n
    <3>1. k \in 1..o + 2 + n + n /\ k \in 1..o + 2 + n + n + n
          /\ k - (o + 2 + n) \in 1..n /\ o + 2 + n + (k - (o + 2 + n)) = k
      BY <1>2, <2>4
    <3>2. t6[k] = t4[k]
      BY <1>10, <1>11, <3>1
    <3>3. t4[k] = ForSub(c, "loadSub", k - (o + 2 + n))
      BY <1>6, <1>9, <3>1
    <3> QED
      BY <1>2, <2>0, <2>4, <3>2, <3>3
  <2>5. CASE k > o + 2 + n + n /\ k <= o + 2 + n + n + n
    <3>1. k \in 1..o + 2 + n + n + n
          /\ k - (o + 2 + n + n) \in 1..n /\ o + 2 + n + n + (k - (o + 2 + n + n)) = k
      BY <1>2, <2>5
    <3>2. t6[k] = t5[k]
      BY <1>11, <3>1
    <3>3. t5[k] = ForSub(c, "addPeer", k - (o + 2 + n + n))
      BY <1>6, <1>10, <3>1
    <3> QED
      BY <1>2, <2>0, <2>5, <3>2, <3>3
  <2>6. CASE k > o + 2 + n + n + n
    <3>1. k \in {o + 2 + n + n + n + 1, o + 2 + n + n + n + 2}
      BY <1>2, <2>6
    <3>2. /\ t6[o + 2 + n + n + n + 1] = Statement("configure", c.component, 0)
          /\ t6[o + 2 + n + n + n + 2] = Statement("start", c.component, 0)
      BY <1>5, <1>11
    <3> QED
      BY <1>2, <2>0, <2>6, <3>1, <3>2
  <2> QED
    BY <1>2, <2>1, <2>2, <2>3, <2>4, <2>5, <2>6
<1>13. o + 2 + n + n + n + 2 = Named(c) + 3 * Subs(c) + 2
  BY <1>2 DEF n
<1> QED
  BY <1>1, <1>11, <1>12, <1>13 DEF S
(* A stop script, place by place.                                          *)
LEMMA StopOps ==
  ASSUME NEW c \in Packages
  PROVE  /\ stop_ops(c) \in Seq(Statements(c))
         /\ Len(stop_ops(c)) = Subs(c) + 3 + (IF c.resets THEN 1 ELSE 0)
         /\ \A k \in 1..Len(stop_ops(c)) : stop_ops(c)[k] = StopAt(c, k)
<1> DEFINE S == Statements(c)
           s1 == <<Statement("stop", c.component, 0)>>
           s2 == If(c.early, ForSubs(c, "unloadSub"))
           s3 == <<Statement("cleanup", c.component, 0)>>
           s4 == If(~ c.early, ForSubs(c, "unloadSub"))
           s5 == <<Statement("unload", c.component, 0)>>
           s6 == If(c.resets, <<Statement("reset", "atrias_cm", 0)>>)
           t2 == s1 \o s2
           t3 == t2 \o s3
           t4 == t3 \o s4
           t5 == t4 \o s5
           t6 == t5 \o s6
           n == Subs(c)
           a == IF c.early THEN n ELSE 0
           b == IF c.early THEN 0 ELSE n
           r == IF c.resets THEN 1 ELSE 0
<1>1. stop_ops(c) = t6
  BY PackagesMatch DEF stop_ops
<1>2. /\ n \in Nat /\ a \in Nat /\ b \in Nat /\ a + b = n /\ r \in {0, 1}
      /\ c.early \in BOOLEAN /\ c.resets \in BOOLEAN
      /\ (c.early => a = n /\ b = 0) /\ (~ c.early => a = 0 /\ b = n)
      /\ (~ c.resets => r = 0)
  BY Package
<1>3. s1 \in Seq(S) /\ Len(s1) = 1 /\ s1[1] = Statement("stop", c.component, 0)
  BY Single
<1>4. /\ s2 \in Seq(S) /\ Len(s2) = a
      /\ \A k \in 1..a : s2[k] = ForSub(c, "unloadSub", k)
  <2> DEFINE f == ForSubs(c, "unloadSub")
  <2>1. /\ f \in Seq(S) /\ Len(f) = n
        /\ \A k \in 1..n : f[k] = ForSub(c, "unloadSub", k)
    BY Parts
  <2> HIDE DEF f
  <2>2. If(c.early, f) \in Seq(S) /\ Len(If(c.early, f)) = a /\ (c.early => If(c.early, f) = f)
    BY <1>2, <2>1, Optional
  <2> QED
    BY <1>2, <2>1, <2>2 DEF f
<1>5. s3 \in Seq(S) /\ Len(s3) = 1 /\ s3[1] = Statement("cleanup", c.component, 0)
  BY Single
<1>6. /\ s4 \in Seq(S) /\ Len(s4) = b
      /\ \A k \in 1..b : s4[k] = ForSub(c, "unloadSub", k)
  <2> DEFINE f == ForSubs(c, "unloadSub")
             e == ~ c.early
  <2>1. /\ f \in Seq(S) /\ Len(f) = n
        /\ \A k \in 1..n : f[k] = ForSub(c, "unloadSub", k)
    BY Parts
  <2>0. e \in BOOLEAN /\ (e => b = n) /\ (~ e => b = 0)
    BY <1>2
  <2> HIDE DEF f, e
  <2>2. If(e, f) \in Seq(S) /\ Len(If(e, f)) = b /\ (e => If(e, f) = f)
    BY <2>0, <2>1, Optional
  <2>3. \A k \in 1..b : If(e, f)[k] = ForSub(c, "unloadSub", k)
    BY <2>0, <2>1, <2>2
  <2> QED
    BY <2>2, <2>3 DEF f, e
<1>7. s5 \in Seq(S) /\ Len(s5) = 1 /\ s5[1] = Statement("unload", c.component, 0)
  BY Single
<1>8. /\ s6 \in Seq(S) /\ Len(s6) = r
      /\ \A k \in 1..r : s6[k] = Statement("reset", "atrias_cm", 0)
  <2> DEFINE f == <<Statement("reset", "atrias_cm", 0)>>
  <2>1. f \in Seq(S) /\ Len(f) = 1 /\ f[1] = Statement("reset", "atrias_cm", 0)
    BY Single
  <2> HIDE DEF f
  <2>2. If(c.resets, f) \in Seq(S) /\ Len(If(c.resets, f)) = r /\ (c.resets => If(c.resets, f) = f)
    BY <1>2, <2>1, Optional
  <2>3. \A k \in 1..r : If(c.resets, f)[k] = Statement("reset", "atrias_cm", 0)
    BY <1>2, <2>1, <2>2
  <2> QED
    BY <2>2, <2>3 DEF f
<1> HIDE DEF S, s1, s2, s3, s4, s5, s6, n, a, b, r
<1>9. /\ t2 \in Seq(S) /\ Len(t2) = 1 + a
      /\ \A k \in 1..1 : t2[k] = s1[k]
      /\ \A k \in 1..a : t2[1 + k] = s2[k]
  <2>1. t2 \in Seq(S) /\ Joins(t2, s1, Len(s1), s2, Len(s2))
    BY <1>3, <1>4, Concatenated
  <2> HIDE DEF t2
  <2> QED
    BY <1>2, <1>3, <1>4, <2>1 DEF Joins
<1> HIDE DEF t2
<1>10. /\ t3 \in Seq(S) /\ Len(t3) = 1 + a + 1
       /\ \A k \in 1..1 + a : t3[k] = t2[k]
       /\ \A k \in 1..1 : t3[1 + a + k] = s3[k]
  <2>1. t3 \in Seq(S) /\ Joins(t3, t2, Len(t2), s3, Len(s3))
    BY <1>9, <1>5, Concatenated
  <2> HIDE DEF t3
  <2> QED
    BY <1>2, <1>9, <1>5, <2>1 DEF Joins
<1> HIDE DEF t3
<1>11. /\ t4 \in Seq(S) /\ Len(t4) = 1 + a + 1 + b
       /\ \A k \in 1..1 + a + 1 : t4[k] = t3[k]
       /\ \A k \in 1..b : t4[1 + a + 1 + k] = s4[k]
  <2>1. t4 \in Seq(S) /\ Joins(t4, t3, Len(t3), s4, Len(s4))
    BY <1>10, <1>6, Concatenated
  <2> HIDE DEF t4
  <2> QED
    BY <1>2, <1>10, <1>6, <2>1 DEF Joins
<1> HIDE DEF t4
<1>12. /\ t5 \in Seq(S) /\ Len(t5) = 1 + a + 1 + b + 1
       /\ \A k \in 1..1 + a + 1 + b : t5[k] = t4[k]
       /\ \A k \in 1..1 : t5[1 + a + 1 + b + k] = s5[k]
  <2>1. t5 \in Seq(S) /\ Joins(t5, t4, Len(t4), s5, Len(s5))
    BY <1>11, <1>7, Concatenated
  <2> HIDE DEF t5
  <2> QED
    BY <1>2, <1>11, <1>7, <2>1 DEF Joins
<1> HIDE DEF t5
<1>13. /\ t6 \in Seq(S) /\ Len(t6) = 1 + a + 1 + b + 1 + r
       /\ \A k \in 1..1 + a + 1 + b + 1 : t6[k] = t5[k]
       /\ \A k \in 1..r : t6[1 + a + 1 + b + 1 + k] = s6[k]
  <2>1. t6 \in Seq(S) /\ Joins(t6, t5, Len(t5), s6, Len(s6))
    BY <1>12, <1>8, Concatenated
  <2> HIDE DEF t6
  <2> QED
    BY <1>2, <1>12, <1>8, <2>1 DEF Joins
<1> HIDE DEF t6
<1>14. ASSUME NEW k \in 1..1 + a + 1 + b + 1 + r PROVE t6[k] = StopAt(c, k)
  <2>0. StopAt(c, k) =
          IF k = 1 THEN Statement("stop", c.component, 0)
          ELSE IF k <= 1 + a THEN ForSub(c, "unloadSub", k - 1)
          ELSE IF k = 1 + a + 1 THEN Statement("cleanup", c.component, 0)
          ELSE IF k <= 1 + a + 1 + b THEN ForSub(c, "unloadSub", k - 2)
          ELSE IF k = 1 + a + 1 + b + 1 THEN Statement("unload", c.component, 0)
          ELSE Statement("reset", "atrias_cm", 0)
    <3>1. /\ Subs(c) = n /\ 1 + a + 1 + b = n + 2 /\ 1 + a + 1 + b + 1 = n + 3
      BY <1>2 DEF n
    <3>2. CASE c.early
      BY <1>2, <3>1, <3>2 DEF StopAt
    <3>3. CASE ~ c.early
      BY <1>2, <3>1, <3>3 DEF StopAt
    <3> QED
      BY <3>2, <3>3
  <2>1. CASE k = 1
    <3>1. k \in 1..1 /\ k \in 1..1 + a /\ k \in 1..1 + a + 1 /\ k \in 1..1 + a + 1 + b
          /\ k \in 1..1 + a + 1 + b + 1
      BY <1>2, <2>1
    <3> QED
      BY <1>3, <1>9, <1>10, <1>11, <1>12, <1>13, <2>0, <2>1, <3>1
  <2>2. CASE k > 1 /\ k <= 1 + a
    <3>1. k \in 1..1 + a /\ k \in 1..1 + a + 1 /\ k \in 1..1 + a + 1 + b
          /\ k \in 1..1 + a + 1 + b + 1 /\ k - 1 \in 1..a /\ 1 + (k - 1) = k
      BY <1>2, <2>2
    <3>2. t6[k] = t2[k]
      BY <1>10, <1>11, <1>12, <1>13, <3>1
    <3>3. t2[k] = ForSub(c, "unloadSub", k - 1)
      BY <1>4, <1>9, <3>1
    <3> QED
      BY <1>2, <2>0, <2>2, <3>2, <3>3
  <2>3. CASE k = 1 + a + 1
    <3>1. k \in 1..1 + a + 1 /\ k \in 1..1 + a + 1 + b /\ k \in 1..1 + a + 1 + b + 1
          /\ 1 \in 1..1
      BY <1>2, <2>3
    <3>2. t6[k] = t3[k]
      BY <1>11, <1>12, <1>13, <3>1
    <3>4. t3[1 + a + 1] = s3[1]
      BY <1>2, <1>10, <3>1
    <3>3. t3[k] = Statement("cleanup", c.component, 0)
      BY <1>5, <2>3, <3>4
    <3> QED
      BY <1>2, <2>0, <2>3, <3>2, <3>3
  <2>4. CASE k > 1 + a + 1 /\ k <= 1 + a + 1 + b
    <3>1. k \in 1..1 + a + 1 + b /\ k \in 1..1 + a + 1 + b + 1
          /\ k - (1 + a + 1) \in 1..b /\ 1 + a + 1 + (k - (1 + a + 1)) = k
          /\ a = 0 /\ k - (1 + a + 1) = k - 2
      BY <1>2, <2>4
    <3>2. t6[k] = t4[k]
      BY <1>12, <1>13, <3>1
    <3>3. t4[k] = ForSub(c, "unloadSub", k - 2)
      BY <1>6, <1>11, <3>1
    <3> QED
      BY <1>2, <2>0, <2>4, <3>2, <3>3
  <2>5. CASE k = 1 + a + 1 + b + 1
    <3>1. k \in 1..1 + a + 1 + b + 1 /\ 1 \in 1..1
      BY <1>2, <2>5
    <3>2. t6[k] = t5[k]
      BY <1>2, <1>13, <3>1
    <3>4. t5[1 + a + 1 + b + 1] = s5[1]
      BY <1>2, <1>12, <3>1
    <3>3. t5[k] = Statement("unload", c.component, 0)
      BY <1>7, <2>5, <3>4
    <3> QED
      BY <1>2, <2>0, <2>5, <3>2, <3>3
  <2>6. CASE k > 1 + a + 1 + b + 1
    <3>1. r = 1 /\ k = 1 + a + 1 + b + 1 + 1 /\ 1 \in 1..r
      BY <1>2, <2>6
    <3>4. t6[1 + a + 1 + b + 1 + 1] = s6[1]
      BY <1>2, <1>13, <3>1
    <3>2. t6[k] = s6[1]
      BY <3>1, <3>4
    <3>3. s6[1] = Statement("reset", "atrias_cm", 0)
      BY <1>8, <3>1
    <3> QED
      BY <1>2, <2>0, <2>6, <3>2, <3>3
  <2> QED
    BY <1>2, <2>1, <2>2, <2>3, <2>4, <2>5, <2>6
<1>15. 1 + a + 1 + b + 1 + r = Subs(c) + 3 + (IF c.resets THEN 1 ELSE 0)
  BY <1>2 DEF n, r
<1> QED
  BY <1>1, <1>13, <1>14, <1>15 DEF S
-----------------------------------------------------------------------------
(***************************************************************************)
(* What the first k statements of a script leave: how many subcontrollers  *)
(* have their names, which of them are loaded, and whether the controller  *)
(* is there.  A loaded controller is as at the beginning of its stop       *)
(* script.                                                                 *)
(***************************************************************************)
Clamp(x, n) == IF x < 0 THEN 0 ELSE IF x > n THEN n ELSE x

Length(c, r) ==
  IF r = "start" THEN Named(c) + 3 * Subs(c) + 2
  ELSE Subs(c) + 3 + (IF c.resets THEN 1 ELSE 0)

At(c, r, k) == IF r = "start" THEN StartAt(c, k) ELSE StopAt(c, k)

NamedAt(c, r, k) == IF r = "start" THEN Clamp(k - Named(c), Subs(c)) ELSE Subs(c)

HeldAt(c, r, k) ==
  IF r = "start" THEN {i \in 1..Subs(c) : i <= k - Named(c) - Subs(c)}
  ELSE {i \in 1..Subs(c) : i > k - (IF c.early THEN 1 ELSE 2)}

PresentAt(c, r, k) == IF r = "start" THEN k > Cleared(c) ELSE k < Subs(c) + 3

Phase    == IF running = "start" THEN "start" ELSE "stop"
Position == IF running = "none" THEN 0 ELSE Length(metadata, running) - Len(script)
Live     == running # "none" \/ state = "CONTROLLER_STOPPED"
SubsIn   == HeldAt(metadata, Phase, Position)
Present  == Live /\ PresentAt(metadata, Phase, Position)

Numbers        == 0..CountMax - 1
Subcontrollers == STRING \X STRING \X Numbers
Components     == {<<p>> : p \in STRING} \cup Subcontrollers

(***************************************************************************)
(* The invariant, in four parts: the places, the script, what is loaded,   *)
(* and, as long as nothing outside the scripts has failed, that it is      *)
(* there and has names of its own.                                         *)
(***************************************************************************)
Placed ==
  /\ state \in {"NO_CONTROLLER_LOADED", "CONTROLLER_STOPPED", "aborted"}
  /\ running \in {"none", "start", "stop"}
  /\ faults \in Nat
  /\ deployer \subseteq Components
  /\ ascs \subseteq deployer \cap Subcontrollers
  /\ IsFiniteSet(ascs) /\ Cardinality(ascs) <= MaxASCs
  /\ subNames \in Seq(Subcontrollers)
  /\ counts \in [DOMAIN counts -> Numbers]

Scripted ==
  /\ running = "none" => script = <<>>
  /\ running = "start" => state = "NO_CONTROLLER_LOADED"
  /\ running = "stop" => state = "CONTROLLER_STOPPED"
  /\ Live => metadata \in Packages
  /\ running # "none" =>
       /\ script \in Seq(Statements(metadata))
       /\ Len(script) <= Length(metadata, running)
       /\ \A j \in 1..Len(script) : script[j] = At(metadata, running, Position + j)

Own(x) == x[1] = metadata.component

Holding ==
  /\ Live => /\ Len(subNames) = NamedAt(metadata, Phase, Position)
             /\ \A i \in 1..Len(subNames) : Own(subNames[i])
  /\ Present =>
       /\ <<metadata.component>> \in deployer
       /\ \A x \in deployer \ leaked : Own(x) =>
            x = <<metadata.component>> \/ x \in ascs \/ \E i \in SubsIn : x = subNames[i]

Gap(x, y) == IF x >= y THEN x - y ELSE x - y + CountMax

Recent(f, p, a, n) ==
  /\ <<<<p>>, a[2]>> \in DOMAIN f
  /\ Gap(f[<<<<p>>, a[2]>>], a[3]) < n

(* The names of each type that are in use.                                 *)
InScript(n, t) == {i \in 1..n : metadata.subs[i] = t}
InLoaders(t)   == {a \in ascs : a[2] = t}

Given ==
  [t \in STRING |-> Cardinality(InScript(Len(subNames), t)) + Cardinality(InLoaders(t))]

Numbered ==
  /\ \A i, j \in 1..Len(subNames) : i # j => subNames[i] # subNames[j]
  /\ \A i \in 1..Len(subNames) :
       /\ subNames[i] \notin ascs
       /\ Recent(counts, metadata.component, subNames[i], Given[subNames[i][2]])
  /\ \A a \in ascs : Recent(counts, metadata.component, a, Given[a[2]])

Clean ==
  /\ ~ misfit /\ leaked = {} /\ state # "aborted"
  /\ Present =>
       /\ \A x \in deployer : Own(x)
       /\ \A i \in SubsIn : subNames[i] \in deployer
       /\ Numbered
  /\ ~ Present => deployer = {}

LoadingInv ==
  /\ Placed /\ Scripted /\ Holding /\ NoOrphan
  /\ faults = 0 => Clean

-----------------------------------------------------------------------------
(***************************************************************************)
(* What the statement at place k + 1 of a script changes.                  *)
(***************************************************************************)
Same(c, r, k) ==
  /\ NamedAt(c, r, k + 1) = NamedAt(c, r, k)
  /\ HeldAt(c, r, k + 1) = HeldAt(c, r, k)

Resets(c, r, k, s) ==
  /\ s.op = "reset" /\ Same(c, r, k)
  /\ ~ PresentAt(c, r, k) /\ ~ PresentAt(c, r, k + 1)

Loads(c, r, k, s) ==
  /\ s.op = "load" /\ s.name = <<c.component>> /\ Same(c, r, k)
  /\ ~ PresentAt(c, r, k) /\ PresentAt(c, r, k + 1)
  /\ NamedAt(c, r, k) = 0 /\ HeldAt(c, r, k) = {}

GivesName(c, r, k, s) ==
  /\ s.op = "name" /\ s.name = <<c.component>>
  /\ PresentAt(c, r, k) /\ PresentAt(c, r, k + 1)
  /\ s.i = NamedAt(c, r, k) + 1 /\ s.i \in 1..Subs(c)
  /\ NamedAt(c, r, k + 1) = NamedAt(c, r, k) + 1
  /\ HeldAt(c, r, k + 1) = HeldAt(c, r, k)

LoadsSub(c, r, k, s) ==
  /\ s.op = "loadSub" /\ s.name = <<c.component>>
  /\ PresentAt(c, r, k) /\ PresentAt(c, r, k + 1)
  /\ s.i \in 1..NamedAt(c, r, k) /\ s.i \notin HeldAt(c, r, k)
  /\ NamedAt(c, r, k + 1) = NamedAt(c, r, k)
  /\ HeldAt(c, r, k + 1) = HeldAt(c, r, k) \cup {s.i}

UnloadsSub(c, r, k, s) ==
  /\ s.op = "unloadSub" /\ s.name = <<c.component>>
  /\ PresentAt(c, r, k) /\ PresentAt(c, r, k + 1)
  /\ s.i \in HeldAt(c, r, k)
  /\ NamedAt(c, r, k + 1) = NamedAt(c, r, k)
  /\ HeldAt(c, r, k + 1) = HeldAt(c, r, k) \ {s.i}

Unloads(c, r, k, s) ==
  /\ s.op = "unload" /\ s.name = <<c.component>> /\ Same(c, r, k)
  /\ PresentAt(c, r, k) /\ ~ PresentAt(c, r, k + 1)
  /\ HeldAt(c, r, k) = {}

Touches(c, r, k, s) ==
  /\ s.op \in {"connect", "addPeer", "configure", "start", "stop", "cleanup"}
  /\ s.name = <<c.component>> /\ Same(c, r, k)
  /\ PresentAt(c, r, k) /\ PresentAt(c, r, k + 1)
  /\ s.op = "addPeer" => s.i \in HeldAt(c, r, k)

Effect(c, r, k, s) ==
  /\ HeldAt(c, r, k) \subseteq 1..NamedAt(c, r, k)
  /\ \/ Resets(c, r, k, s)
     \/ Loads(c, r, k, s)
     \/ GivesName(c, r, k, s)
     \/ LoadsSub(c, r, k, s)
     \/ UnloadsSub(c, r, k, s)
     \/ Unloads(c, r, k, s)
     \/ Touches(c, r, k, s)

(* The statements of a start script.                                       *)
LEMMA StartEffect ==
  ASSUME NEW c \in Packages, NEW k \in Nat, k < Length(c, "start")
  PROVE  Effect(c, "start", k, StartAt(c, k + 1))
<1> DEFINE s == StartAt(c, k + 1)
           n == Subs(c)
           o == Cleared(c)
<1>1. n \in Nat /\ o \in {0, 1} /\ Named(c) = o + 2 /\ k < o + 2 + 3 * n + 2
  BY Package DEF Length
<1>2. /\ PresentAt(c, "start", k) <=> k > o
      /\ PresentAt(c, "start", k + 1) <=> k + 1 > o
      /\ NamedAt(c, "start", k) = Clamp(k - (o + 2), n)
      /\ NamedAt(c, "start", k + 1) = Clamp(k + 1 - (o + 2), n)
      /\ HeldAt(c, "start", k) = {i \in 1..n : i <= k - (o + 2) - n}
      /\ HeldAt(c, "start", k + 1) = {i \in 1..n : i <= k + 1 - (o + 2) - n}
  BY <1>1 DEF PresentAt, NamedAt, HeldAt
<1>3. s = IF k + 1 <= o THEN Statement("reset", "atrias_cm", 0)
          ELSE IF k + 1 = o + 1 THEN Statement("load", c.component, 0)
          ELSE IF k + 1 = o + 2 THEN Statement("connect", c.component, 0)
          ELSE IF k + 1 <= o + 2 + n THEN ForSub(c, "name", k + 1 - (o + 2))
          ELSE IF k + 1 <= o + 2 + 2 * n THEN ForSub(c, "loadSub", k + 1 - (o + 2) - n)
          ELSE IF k + 1 <= o + 2 + 3 * n THEN ForSub(c, "addPeer", k + 1 - (o + 2) - 2 * n)
          ELSE IF k + 1 = o + 2 + 3 * n + 1 THEN Statement("configure", c.component, 0)
          ELSE Statement("start", c.component, 0)
  BY <1>1 DEF StartAt
<1> HIDE DEF s, n, o
<1>4. HeldAt(c, "start", k) \subseteq 1..NamedAt(c, "start", k)
  BY <1>1, <1>2 DEF Clamp
<1>5. CASE k + 1 <= o
  <2>1. s.op = "reset"
    BY <1>3, <1>5 DEF Statement
  <2>2. Same(c, "start", k)
    BY <1>1, <1>2, <1>5 DEF Same, Clamp
  <2> QED
    BY <1>1, <1>2, <1>4, <1>5, <2>1, <2>2 DEF Effect, Resets, s
<1>6. CASE k + 1 = o + 1
  <2>1. s.op = "load" /\ s.name = <<c.component>>
    BY <1>1, <1>3, <1>6 DEF Statement
  <2>2. Same(c, "start", k) /\ NamedAt(c, "start", k) = 0 /\ HeldAt(c, "start", k) = {}
    <3>1. HeldAt(c, "start", k) = {} /\ HeldAt(c, "start", k + 1) = {}
      BY <1>1, <1>2, <1>6
    <3>2. NamedAt(c, "start", k + 1) = NamedAt(c, "start", k) /\ NamedAt(c, "start", k) = 0
      BY <1>1, <1>2, <1>6 DEF Clamp
    <3> QED
      BY <3>1, <3>2 DEF Same
  <2> QED
    BY <1>1, <1>2, <1>4, <1>6, <2>1, <2>2 DEF Effect, Loads, s
<1>7. CASE k + 1 = o + 2
  <2>1. s.op = "connect" /\ s.name = <<c.component>>
    BY <1>1, <1>3, <1>7 DEF Statement
  <2>2. Same(c, "start", k)
    <3>1. HeldAt(c, "start", k) = {} /\ HeldAt(c, "start", k + 1) = {}
      BY <1>1, <1>2, <1>7
    <3>2. NamedAt(c, "start", k + 1) = NamedAt(c, "start", k) /\ NamedAt(c, "start", k) = 0
      BY <1>1, <1>2, <1>7 DEF Clamp
    <3> QED
      BY <3>1, <3>2 DEF Same
  <2> QED
    BY <1>1, <1>2, <1>4, <1>7, <2>1, <2>2 DEF Effect, Touches, s
<1>8. CASE k + 1 > o + 2 /\ k + 1 <= o + 2 + n
  <2>1. s.op = "name" /\ s.name = <<c.component>> /\ s.i = k + 1 - (o + 2)
    BY <1>1, <1>3, <1>8 DEF ForSub
  <2>2. /\ NamedAt(c, "start", k) = k - (o + 2)
        /\ NamedAt(c, "start", k + 1) = k + 1 - (o + 2)
    BY <1>1, <1>2, <1>8 DEF Clamp
  <2>3. HeldAt(c, "start", k + 1) = HeldAt(c, "start", k)
    BY <1>1, <1>2, <1>8
  <2>4. s.i = NamedAt(c, "start", k) + 1 /\ s.i \in 1..n /\ k > o /\ k + 1 > o
        /\ NamedAt(c, "start", k + 1) = NamedAt(c, "start", k) + 1
    BY <1>1, <1>8, <2>1, <2>2
  <2> QED
    BY <1>2, <1>4, <2>1, <2>3, <2>4 DEF Effect, GivesName, s, n
<1>9. CASE k + 1 > o + 2 + n /\ k + 1 <= o + 2 + 2 * n
  <2>1. s.op = "loadSub" /\ s.name = <<c.component>> /\ s.i = k + 1 - (o + 2) - n
    BY <1>1, <1>3, <1>9 DEF ForSub
  <2>2. /\ NamedAt(c, "start", k) = n
        /\ NamedAt(c, "start", k + 1) = n
    BY <1>1, <1>2, <1>9 DEF Clamp
  <2>3. s.i \in 1..n /\ k > o /\ k + 1 > o
    BY <1>1, <1>9, <2>1
  <2>4. s.i \notin HeldAt(c, "start", k)
        /\ HeldAt(c, "start", k + 1) = HeldAt(c, "start", k) \cup {s.i}
    BY <1>1, <1>2, <1>9, <2>1, <2>3
  <2> QED
    BY <1>2, <1>4, <2>1, <2>2, <2>3, <2>4 DEF Effect, LoadsSub, s
<1>10. CASE k + 1 > o + 2 + 2 * n /\ k + 1 <= o + 2 + 3 * n
  <2>1. s.op = "addPeer" /\ s.name = <<c.component>> /\ s.i = k + 1 - (o + 2) - 2 * n
    BY <1>1, <1>3, <1>10 DEF ForSub
  <2>2. /\ NamedAt(c, "start", k) = n
        /\ NamedAt(c, "start", k + 1) = n
    BY <1>1, <1>2, <1>10 DEF Clamp
  <2>3. s.i \in 1..n /\ k > o /\ k + 1 > o
    BY <1>1, <1>10, <2>1
  <2>4. s.i \in HeldAt(c, "start", k)
        /\ HeldAt(c, "start", k + 1) = HeldAt(c, "start", k)
    <3>3. \A i \in 1..n : i <= k - (o + 2) - n /\ i <= k + 1 - (o + 2) - n
      BY <1>1, <1>10
    <3>1. HeldAt(c, "start", k) = 1..n /\ HeldAt(c, "start", k + 1) = 1..n
      BY <1>2, <3>3
    <3> QED
      BY <2>3, <3>1
  <2>5. k + 1 > o
    BY <1>1, <2>3
  <2> QED
    BY <1>2, <1>4, <2>1, <2>2, <2>3, <2>4, <2>5 DEF Effect, Touches, Same, s
<1>11. CASE k + 1 > o + 2 + 3 * n
  <2>1. s.op \in {"configure", "start"} /\ s.name = <<c.component>>
    BY <1>1, <1>3, <1>11 DEF Statement
  <2>2. Same(c, "start", k)
    <3>3. \A i \in 1..n : i <= k - (o + 2) - n /\ i <= k + 1 - (o + 2) - n
      BY <1>1, <1>11
    <3>1. HeldAt(c, "start", k) = 1..n /\ HeldAt(c, "start", k + 1) = 1..n
      BY <1>2, <3>3
    <3>2. NamedAt(c, "start", k + 1) = NamedAt(c, "start", k) /\ NamedAt(c, "start", k) = n
      BY <1>1, <1>2, <1>11 DEF Clamp
    <3> QED
      BY <3>1, <3>2 DEF Same
  <2>3. k > o /\ k + 1 > o
    BY <1>1, <1>11
  <2> QED
    BY <1>2, <1>4, <2>1, <2>2, <2>3 DEF Effect, Touches, s
<1>12. \/ k + 1 <= o \/ k + 1 = o + 1 \/ k + 1 = o + 2
       \/ k + 1 > o + 2 /\ k + 1 <= o + 2 + n
       \/ k + 1 > o + 2 + n /\ k + 1 <= o + 2 + 2 * n
       \/ k + 1 > o + 2 + 2 * n /\ k + 1 <= o + 2 + 3 * n
       \/ k + 1 > o + 2 + 3 * n
  BY <1>1
<1> QED
  BY <1>5, <1>6, <1>7, <1>8, <1>9, <1>10, <1>11, <1>12 DEF s

(* The statements of a stop script.                                        *)
LEMMA StopEffect ==
  ASSUME NEW c \in Packages, NEW k \in Nat, k < Length(c, "stop")
  PROVE  Effect(c, "stop", k, StopAt(c, k + 1))
<1> DEFINE s == StopAt(c, k + 1)
           n == Subs(c)
           e == IF c.early THEN 1 ELSE 2
<1>1. /\ n \in Nat /\ e \in {1, 2} /\ c.early \in BOOLEAN /\ k < n + 3 + 1
      /\ (c.early => e = 1) /\ (~ c.early => e = 2)
  BY Package DEF Length
<1>2. /\ PresentAt(c, "stop", k) <=> k < n + 3
      /\ PresentAt(c, "stop", k + 1) <=> k + 1 < n + 3
      /\ NamedAt(c, "stop", k) = n
      /\ NamedAt(c, "stop", k + 1) = n
      /\ HeldAt(c, "stop", k) = {i \in 1..n : i > k - e}
      /\ HeldAt(c, "stop", k + 1) = {i \in 1..n : i > k + 1 - e}
  BY DEF PresentAt, NamedAt, HeldAt
<1>3. s = IF k + 1 = 1 THEN Statement("stop", c.component, 0)
          ELSE IF c.early /\ k + 1 <= n + 1 THEN ForSub(c, "unloadSub", k + 1 - 1)
          ELSE IF k + 1 = (IF c.early THEN n + 2 ELSE 2) THEN Statement("cleanup", c.component, 0)
          ELSE IF k + 1 <= n + 2 THEN ForSub(c, "unloadSub", k + 1 - 2)
          ELSE IF k + 1 = n + 3 THEN Statement("unload", c.component, 0)
          ELSE Statement("reset", "atrias_cm", 0)
  BY DEF StopAt
<1> HIDE DEF s, n, e
<1>4. HeldAt(c, "stop", k) \subseteq 1..NamedAt(c, "stop", k)
  BY <1>1, <1>2
<1>5. CASE k = 0 \/ k + 1 = (IF c.early THEN n + 2 ELSE 2)
  <2>1. s.op \in {"stop", "cleanup"} /\ s.name = <<c.component>>
    BY <1>1, <1>3, <1>5 DEF Statement
  <2>2. HeldAt(c, "stop", k + 1) = HeldAt(c, "stop", k)
    BY <1>1, <1>2, <1>5
  <2>3. k + 1 < n + 3 /\ k < n + 3
    BY <1>1, <1>5
  <2> QED
    BY <1>2, <1>4, <2>1, <2>2, <2>3 DEF Effect, Touches, Same, s
<1>6. CASE k >= e /\ k < n + e
  <2>1. s.op = "unloadSub" /\ s.name = <<c.component>> /\ s.i = k + 1 - e
    BY <1>1, <1>3, <1>6 DEF ForSub
  <2>2. /\ s.i \in HeldAt(c, "stop", k)
        /\ HeldAt(c, "stop", k + 1) = HeldAt(c, "stop", k) \ {s.i}
    BY <1>1, <1>2, <1>6, <2>1
  <2>3. k + 1 < n + 3 /\ k < n + 3
    BY <1>1, <1>6
  <2> QED
    BY <1>2, <1>4, <2>1, <2>2, <2>3 DEF Effect, UnloadsSub, s
<1>7. CASE k = n + 2
  <2>1. s.op = "unload" /\ s.name = <<c.component>>
    BY <1>1, <1>3, <1>7 DEF Statement
  <2>2. HeldAt(c, "stop", k + 1) = {} /\ HeldAt(c, "stop", k) = {}
    BY <1>1, <1>2, <1>7
  <2>3. ~ (k + 1 < n + 3) /\ k < n + 3
    BY <1>1, <1>7
  <2> QED
    BY <1>2, <1>4, <2>1, <2>2, <2>3 DEF Effect, Unloads, Same, s
<1>8. CASE k = n + 3
  <2>1. s.op = "reset"
    BY <1>1, <1>3, <1>8 DEF Statement
  <2>2. HeldAt(c, "stop", k + 1) = {} /\ HeldAt(c, "stop", k) = {}
    BY <1>1, <1>2, <1>8
  <2>3. ~ (k + 1 < n + 3) /\ ~ (k < n + 3)
    BY <1>1, <1>8
  <2> QED
    BY <1>2, <1>4, <2>1, <2>2, <2>3 DEF Effect, Resets, Same, s
<1>9. \/ k = 0 \/ k + 1 = (IF c.early THEN n + 2 ELSE 2)
      \/ k >= e /\ k < n + e
      \/ k = n + 2 \/ k = n + 3
  BY <1>1
<1> QED
  BY <1>5, <1>6, <1>7, <1>8, <1>9 DEF s

(* Where the scripts begin and end.                                        *)
LEMMA Ends ==
  ASSUME NEW c \in Packages
  PROVE  /\ Length(c, "start") \in Nat /\ Length(c, "stop") \in Nat
         /\ ~ PresentAt(c, "start", 0) /\ NamedAt(c, "start", 0) = 0
         /\ PresentAt(c, "start", Length(c, "start")) /\ PresentAt(c, "stop", 0)
         /\ NamedAt(c, "start", Length(c, "start")) = NamedAt(c, "stop", 0)
         /\ HeldAt(c, "start", Length(c, "start")) = HeldAt(c, "stop", 0)
         /\ ~ PresentAt(c, "stop", Length(c, "stop"))
<1> DEFINE n == Subs(c)
           o == Cleared(c)
           l == Length(c, "start")
<1>1. n \in Nat /\ o \in {0, 1} /\ Named(c) = o + 2 /\ c.resets \in BOOLEAN
      /\ c.early \in BOOLEAN
  BY Package
<1>2. l = o + 2 + 3 * n + 2
  BY <1>1 DEF Length
<1> HIDE DEF n, o, l
<1>3. NamedAt(c, "start", l) = n /\ NamedAt(c, "stop", 0) = n /\ NamedAt(c, "start", 0) = 0
  BY <1>1, <1>2 DEF NamedAt, Clamp, n
<1>4. HeldAt(c, "start", l) = 1..n /\ HeldAt(c, "stop", 0) = 1..n
  BY <1>1, <1>2 DEF HeldAt, n
<1>5. PresentAt(c, "start", l) /\ ~ PresentAt(c, "start", 0) /\ PresentAt(c, "stop", 0)
  BY <1>1, <1>2 DEF PresentAt, n, o
<1>6. Length(c, "stop") \in Nat /\ ~ PresentAt(c, "stop", Length(c, "stop"))
  BY <1>1 DEF Length, PresentAt, n
<1> QED
  BY <1>1, <1>2, <1>3, <1>4, <1>5, <1>6 DEF l

-----------------------------------------------------------------------------
(***************************************************************************)
(* Names and their numbers.                                                    *)
(***************************************************************************)
(* A subcontroller's name has three parts.                                 *)
LEMMA Triple ==
  ASSUME NEW x \in Subcontrollers
  PROVE  /\ x = <<x[1], x[2], x[3]>> /\ Len(x) = 3
         /\ x[1] \in STRING /\ x[2] \in STRING /\ x[3] \in Numbers
         /\ x \in Components /\ \A p : x # <<p>>
<1>1. x = <<x[1], x[2], x[3]>> /\ x[1] \in STRING /\ x[2] \in STRING /\ x[3] \in Numbers
  BY DEF Subcontrollers
<1>2. \A p, t, m : Len(<<p, t, m>>) = 3
  OBVIOUS
<1>3. Len(x) = 3
  BY <1>1, <1>2
<1>4. \A q : Len(<<q>>) = 1
  OBVIOUS
<1> QED
  BY <1>1, <1>3, <1>4 DEF Components

(* A controller's name has one.                                            *)
LEMMA Component ==
  ASSUME NEW x \in Components
  PROVE  x \in Subcontrollers \/ (x = <<x[1]>> /\ x[1] \in STRING /\ Len(x) = 1)
BY DEF Components

(* The number after another.                                               *)
LEMMA NextNumber ==
  ASSUME NEW x \in Numbers
  PROVE  (x + 1) % CountMax = IF x + 1 = CountMax THEN 0 ELSE x + 1
<1>1. CountMax \in Nat /\ CountMax > 0 /\ x \in Nat /\ x < CountMax
  BY PackagesMatch DEF Numbers
<1>2. CASE x + 1 = CountMax
  BY <1>1, <1>2
<1>3. CASE x + 1 # CountMax
  BY <1>1, <1>3
<1> QED
  BY <1>2, <1>3

(* Another number than one that is not too far behind, which then is one   *)
(* further behind.                                                         *)
LEMMA NextGap ==
  ASSUME NEW x \in Numbers, NEW y \in Numbers, NEW n \in Nat,
         n < CountMax, Gap(x, y) < n
  PROVE  (x + 1) % CountMax # y /\ Gap((x + 1) % CountMax, y) < n + 1
<1> DEFINE z == (x + 1) % CountMax
<1>1. CountMax \in Nat /\ x \in Nat /\ x < CountMax /\ y \in Nat /\ y < CountMax
  BY PackagesMatch DEF Numbers
<1>2. z = IF x + 1 = CountMax THEN 0 ELSE x + 1
  BY NextNumber
<1> HIDE DEF z
<1>3. z # y /\ Gap(z, y) < n + 1
  BY <1>1, <1>2 DEF Gap
<1> QED
  BY <1>3 DEF z

(* What getUniqueName returns and leaves.                                  *)
LEMMA UniqueName ==
  ASSUME Placed, NEW p \in STRING, NEW t \in STRING
  PROVE  /\ uniqueNumber(<<p>>, t) \in Numbers
         /\ getUniqueName(<<p>>, t) = <<p, t, uniqueNumber(<<p>>, t)>>
         /\ getUniqueName(<<p>>, t) \in Subcontrollers
         /\ Advance(<<p>>, t) \in [DOMAIN Advance(<<p>>, t) -> Numbers]
<1>1. 0 \in Numbers
  BY PackagesMatch DEF Numbers
<1>2. uniqueNumber(<<p>>, t) \in Numbers
  <2>1. CASE <<<<p>>, t>> \in DOMAIN counts
    <3>1. counts[<<<<p>>, t>>] \in Numbers
      BY <2>1 DEF Placed
    <3>2. (counts[<<<<p>>, t>>] + 1) % CountMax \in Numbers
      BY <3>1, NextNumber, PackagesMatch DEF Numbers
    <3> QED
      BY <2>1, <3>2 DEF uniqueNumber
  <2>2. CASE <<<<p>>, t>> \notin DOMAIN counts
    BY <1>1, <2>2 DEF uniqueNumber
  <2> QED
    BY <2>1, <2>2
<1>3. getUniqueName(<<p>>, t) = <<p, t, uniqueNumber(<<p>>, t)>>
  BY DEF getUniqueName
<1>4. Advance(<<p>>, t) \in [DOMAIN Advance(<<p>>, t) -> Numbers]
  BY <1>2 DEF Advance, Placed
<1> QED
  BY <1>2, <1>3, <1>4 DEF Subcontrollers

(* As long as fewer names of a type have been given than there are         *)
(* numbers, a name is new, and the earlier ones stay recent.               *)
LEMMA NewName ==
  ASSUME Placed, NEW p \in STRING, NEW t \in STRING,
         NEW G \in [STRING -> Nat], G[t] < CountMax,
         NEW H, H = [G EXCEPT ![t] = G[t] + 1]
  PROVE  /\ Recent(Advance(<<p>>, t), p, getUniqueName(<<p>>, t), H[t])
         /\ \A a \in Subcontrollers : a[1] = p /\ Recent(counts, p, a, G[a[2]]) =>
              /\ a # getUniqueName(<<p>>, t)
              /\ Recent(Advance(<<p>>, t), p, a, H[a[2]])
<1> DEFINE key == <<<<p>>, t>>
           f == Advance(<<p>>, t)
           m == uniqueNumber(<<p>>, t)
           name == getUniqueName(<<p>>, t)
           n == G[t]
<1>1. /\ key \in DOMAIN f /\ f[key] = m
      /\ \A k \in DOMAIN counts : k \in DOMAIN f /\ (k # key => f[k] = counts[k])
  BY DEF Advance
<1>2. m \in Numbers /\ name = <<p, t, m>>
  BY UniqueName
<1>3. name[1] = p /\ name[2] = t /\ name[3] = m
  <2> HIDE DEF m, name
  <2> QED
    BY <1>2
<1>4. /\ Numbers \subseteq Nat
      /\ n \in Nat /\ n < CountMax /\ H[t] = n + 1 /\ 0 < n + 1
      /\ \A u \in STRING : u # t => H[u] = G[u]
  <2>1. H[t] = n + 1 /\ \A u \in STRING : u # t => H[u] = G[u]
    BY Zenon
  <2>2. n \in Nat
    OBVIOUS
  <2>3. n < CountMax
    OBVIOUS
  <2> HIDE DEF n
  <2>4. 0 < n + 1
    BY <2>2
  <2>5. Numbers \subseteq Nat
    BY PackagesMatch DEF Numbers
  <2> QED
    BY <2>1, <2>2, <2>3, <2>4, <2>5, Zenon
<1>5. key \in DOMAIN counts => counts[key] \in Numbers /\ m = (counts[key] + 1) % CountMax
  BY DEF uniqueNumber, Placed
<1> HIDE DEF f, m, name, n
<1>6. Recent(f, p, name, H[t])
  <2>1. m \in Nat
    BY <1>2, <1>4
  <2>2. Gap(m, m) = 0
    BY <2>1 DEF Gap
  <2>3. 0 < H[t]
    <3>1. H[t] = n + 1 /\ 0 < n + 1
      BY <1>4
    <3> QED
      BY <3>1, Zenon
  <2> QED
    BY <1>1, <1>3, <2>2, <2>3 DEF Recent
<1>7. ASSUME NEW a \in Subcontrollers, a[1] = p, Recent(counts, p, a, G[a[2]])
      PROVE  a # name /\ Recent(f, p, a, H[a[2]])
  <2>1. a[2] \in STRING /\ a[3] \in Numbers
    BY Triple
  <2>2. /\ <<<<p>>, a[2]>> \in DOMAIN counts
        /\ Gap(counts[<<<<p>>, a[2]>>], a[3]) < G[a[2]]
    BY <1>7 DEF Recent
  <2>3. CASE a[2] = t
    <3>1. counts[key] \in Numbers /\ Gap(counts[key], a[3]) < n /\ m = (counts[key] + 1) % CountMax
      BY <1>5, <2>2, <2>3 DEF n
    <3>2. m # a[3] /\ Gap(m, a[3]) < n + 1
      BY <1>4, <2>1, <3>1, NextGap
    <3> QED
      BY <1>1, <1>3, <1>4, <2>3, <3>2 DEF Recent
  <2>4. CASE a[2] # t
    <3>1. <<<<p>>, a[2]>> # key /\ <<<<p>>, a[2]>> \in DOMAIN f
          /\ f[<<<<p>>, a[2]>>] = counts[<<<<p>>, a[2]>>]
      BY <1>1, <2>2, <2>4
    <3>2. H[a[2]] = G[a[2]]
      BY <1>4, <2>1, <2>4
    <3> QED
      BY <1>3, <2>2, <2>4, <3>1, <3>2 DEF Recent
  <2> QED
    BY <2>3, <2>4
<1> QED
  BY <1>6, <1>7 DEF f, name

-----------------------------------------------------------------------------
(***************************************************************************)
(* The statements, one lemma for each kind.  Executing: a statement has    *)
(* been carried out; Next: where that leaves the script.                   *)
(***************************************************************************)
Current == Head(script)

Ready ==
  /\ metadata \in Packages /\ running \in {"start", "stop"} /\ Live
  /\ Phase = running /\ Position \in Nat
  /\ Position < Length(metadata, running)
  /\ Len(script) = Length(metadata, running) - Position
  /\ Current \in Statements(metadata)
  /\ Effect(metadata, running, Position, Current)

(* A script that goes on is at one of its statements.                      *)
LEMMA IsReady ==
  ASSUME Placed, Scripted, script # <<>>
  PROVE  Ready
<1>1. running \in {"start", "stop"} /\ Live
  BY DEF Placed, Scripted, Live
<1>2. metadata \in Packages /\ script \in Seq(Statements(metadata))
      /\ Len(script) <= Length(metadata, running)
      /\ \A j \in 1..Len(script) : script[j] = At(metadata, running, Position + j)
  BY <1>1 DEF Scripted
<1>3. Length(metadata, running) \in Nat
  BY <1>1, <1>2, Ends
<1>4. Len(script) \in Nat \ {0} /\ Head(script) = script[1] /\ script[1] \in Statements(metadata)
  BY <1>2
<1>5. Position = Length(metadata, running) - Len(script)
  BY <1>1 DEF Position
<1>6. Position \in Nat /\ Position < Length(metadata, running)
      /\ Len(script) = Length(metadata, running) - Position
  BY <1>2, <1>3, <1>4, <1>5
<1>7. Head(script) = At(metadata, running, Position + 1)
  BY <1>2, <1>4
<1>8. Effect(metadata, running, Position, Head(script))
  BY <1>1, <1>2, <1>6, <1>7, StartEffect, StopEffect DEF At
<1>9. Phase = running
  BY <1>1 DEF Phase
<1> QED
  BY <1>1, <1>2, <1>4, <1>6, <1>8, <1>9 DEF Ready, Current

Steps ==
  /\ Scripted' /\ Live' /\ Phase' = running /\ Position' = Position + 1
  /\ SubsIn = HeldAt(metadata, running, Position)
  /\ SubsIn' = HeldAt(metadata, running, Position + 1)
  /\ Present <=> PresentAt(metadata, running, Position)
  /\ Present' <=> PresentAt(metadata, running, Position + 1)
  /\ NamedAt(metadata, Phase, Position)' = NamedAt(metadata, running, Position + 1)

(* A script that has gone on is at the next one.                           *)
LEMMA ScriptSteps ==
  ASSUME Placed, Scripted, script # <<>>,
         script' = Tail(script), UNCHANGED <<state, metadata, running>>
  PROVE  Ready /\ Steps
<1>1. Ready
  BY IsReady
<1>2. script \in Seq(Statements(metadata)) /\ Len(script) \in Nat \ {0}
      /\ Len(script) <= Length(metadata, running)
      /\ \A j \in 1..Len(script) : script[j] = At(metadata, running, Position + j)
  BY <1>1 DEF Scripted, Ready
<1>3. /\ script' \in Seq(Statements(metadata)) /\ Len(script') = Len(script) - 1
      /\ \A j \in 1..Len(script) - 1 : script'[j] = script[j + 1]
  BY <1>2
<1>4. Length(metadata, running) \in Nat
  BY <1>1, Ends DEF Ready
<1>5. Position' = Length(metadata, running) - Len(script')
  BY <1>1 DEF Position, Ready
<1>6. Position' = Position + 1
  BY <1>1, <1>2, <1>3, <1>4, <1>5 DEF Ready
<1>7. \A j \in 1..Len(script') : script'[j] = At(metadata, running, Position' + j)
  <2> TAKE j \in 1..Len(script')
  <2>1. j + 1 \in 1..Len(script) /\ Position' + j = Position + (j + 1) /\ j \in 1..Len(script) - 1
    BY <1>1, <1>2, <1>3, <1>6 DEF Ready
  <2> QED
    BY <1>2, <1>3, <2>1
<1>8. Live' /\ Phase' = running
  BY <1>1 DEF Live, Ready, Phase
<1>9. Scripted'
  BY <1>1, <1>2, <1>3, <1>4, <1>7 DEF Scripted, Ready, Live
<1>10. /\ SubsIn = HeldAt(metadata, running, Position)
       /\ Present <=> PresentAt(metadata, running, Position)
  BY <1>1 DEF SubsIn, Present, Ready
<1>11. /\ SubsIn' = HeldAt(metadata, running, Position + 1)
       /\ Present' <=> PresentAt(metadata, running, Position + 1)
       /\ NamedAt(metadata, Phase, Position)' = NamedAt(metadata, running, Position + 1)
  BY <1>6, <1>8 DEF SubsIn, Present
<1> QED
  BY <1>1, <1>6, <1>8, <1>9, <1>10, <1>11 DEF Steps

(* What a statement may leave of the loaders' subcontrollers.              *)
LEMMA FewerASCs ==
  ASSUME Placed, NEW A, A \subseteq ascs
  PROVE  IsFiniteSet(A) /\ Cardinality(A) \in Nat /\ Cardinality(A) <= MaxASCs
<1>1. IsFiniteSet(A) /\ Cardinality(A) <= Cardinality(ascs)
  BY FS_Subset DEF Placed
<1>2. Cardinality(A) \in Nat /\ Cardinality(ascs) \in Nat
  BY <1>1, FS_CardinalityType DEF Placed
<1> QED
  BY <1>1, <1>2, PackagesMatch DEF Placed

(* The names are distinct and recent as long as nothing is named.          *)
LEMMA NumberedKept ==
  ASSUME Numbered, UNCHANGED <<subNames, ascs, counts, metadata>>
  PROVE  Numbered'
<1>1. \A n, t : InScript(n, t)' = InScript(n, t) /\ InLoaders(t)' = InLoaders(t)
  BY DEF InScript, InLoaders
<1>2. Given' = Given
  BY <1>1 DEF Given, InScript, InLoaders
<1> QED
  BY <1>2 DEF Numbered

(* Statements that change nothing but the script, or the counters when     *)
(* the controller is not there.                                            *)
LEMMA IdleStep ==
  ASSUME LoadingInv, script # <<>>, script' = Tail(script),
         UNCHANGED <<state, metadata, running, subNames, deployer, ascs, leaked,
                     faults, misfit>>,
         counts' \in [DOMAIN counts' -> Numbers],
         Same(metadata, running, Position),
         PresentAt(metadata, running, Position) <=> PresentAt(metadata, running, Position + 1),
         PresentAt(metadata, running, Position) => counts' = counts
  PROVE  LoadingInv'
<1>1. Ready /\ Steps
  BY ScriptSteps DEF LoadingInv
<1>2. SubsIn' = SubsIn /\ (Present' <=> Present)
  BY <1>1 DEF Steps, Same
<1>3. Placed'
  BY DEF LoadingInv, Placed
<1>4. Holding'
  <2>1. Live /\ Len(subNames) = NamedAt(metadata, running, Position)
        /\ \A i \in 1..Len(subNames) : Own(subNames[i])
    BY <1>1 DEF LoadingInv, Holding, Ready
  <2>2. Len(subNames) = NamedAt(metadata, Phase, Position)'
    BY <1>1, <2>1 DEF Steps, Same
  <2>3. (\A i \in 1..Len(subNames) : Own(subNames[i]))'
    BY <2>1 DEF Own
  <2>4. Present' =>
         /\ <<metadata.component>> \in deployer
         /\ \A x \in deployer \ leaked : Own(x) =>
              x = <<metadata.component>> \/ x \in ascs \/ \E i \in SubsIn' : x = subNames[i]
    BY <1>2 DEF LoadingInv, Holding
  <2> QED
    BY <2>2, <2>3, <2>4 DEF Holding, Own
<1>5. NoOrphan'
  BY DEF LoadingInv, NoOrphan
<1>6. ASSUME faults' = 0 PROVE Clean'
  <2>1. Clean
    BY <1>6 DEF LoadingInv
  <2>2. Present' => counts' = counts
    BY <1>1 DEF Steps
  <2>3. Present' => Numbered'
    BY <1>2, <2>1, <2>2, NumberedKept DEF Clean
  <2> QED
    BY <1>2, <2>1, <2>3 DEF Clean, Own
<1> QED
  BY <1>1, <1>3, <1>4, <1>5, <1>6 DEF LoadingInv, Steps

(* The counters are reset.                                                 *)
LEMMA ResetStep ==
  ASSUME LoadingInv, Execute, Resets(metadata, running, Position, Current)
  PROVE  LoadingInv'
<1>1. Current.op = "reset"
  BY DEF Resets
<1>2. Loaded(Current) = {} /\ Unloaded(Current) = {}
  BY <1>1 DEF Loaded, Unloaded
<1>3. deployer' = deployer /\ ascs' = ascs /\ counts' = <<>> /\ subNames' = subNames
  BY <1>1, <1>2 DEF Execute, Current
<1>4. counts' \in [DOMAIN counts' -> Numbers]
  BY <1>3
<1> QED
  BY <1>3, <1>4, IdleStep DEF Execute, Resets

(* A component is addressed and stays as it is.                            *)
LEMMA TouchStep ==
  ASSUME LoadingInv, Execute, Touches(metadata, running, Position, Current)
  PROVE  LoadingInv'
<1>1. Current.op \in {"connect", "addPeer", "configure", "start", "stop", "cleanup"}
  BY DEF Touches
<1>2. Loaded(Current) = {} /\ Unloaded(Current) = {}
  BY <1>1 DEF Loaded, Unloaded
<1>3. deployer' = deployer /\ ascs' = ascs /\ counts' = counts /\ subNames' = subNames
  BY <1>1, <1>2 DEF Execute, Current
<1>4. counts' \in [DOMAIN counts' -> Numbers]
  BY <1>3 DEF LoadingInv, Placed
<1> QED
  BY <1>3, <1>4, IdleStep DEF Execute, Touches

(* A package's name, and how many names its script may give.               *)
LEMMA Budget ==
  ASSUME NEW c \in Packages
  PROVE  /\ c.component \in STRING /\ c.subs \in Seq(STRING)
         /\ Subs(c) \in Nat /\ Subs(c) = Len(c.subs)
         /\ CountMax \in Nat /\ MaxASCs \in Nat
         /\ \A t \in ASCTypes \cup {c.subs[i] : i \in 1..Len(c.subs)} :
              Cardinality({i \in 1..Subs(c) : c.subs[i] = t}) + MaxASCs <= CountMax
<1>1. /\ c.component \in STRING /\ c.subs \in Seq(STRING)
      /\ CountMax \in Nat /\ MaxASCs \in Nat
  BY PackagesMatch
<1>2. Subs(c) \in Nat /\ Subs(c) = Len(c.subs)
  BY <1>1 DEF Subs
<1>3. \A t \in ASCTypes \cup {c.subs[i] : i \in 1..Len(c.subs)} :
        Cardinality({i \in 1..Len(c.subs) : c.subs[i] = t}) + MaxASCs <= CountMax
  BY PackagesMatch, Zenon
<1> QED
  BY <1>1, <1>2, <1>3

(* The sets of names in use are finite, and not larger than the script and *)
(* the loaders allow.                                                      *)
LEMMA InUse ==
  ASSUME LoadingInv, NEW t, NEW n \in Nat
  PROVE  /\ IsFiniteSet(InScript(n, t)) /\ Cardinality(InScript(n, t)) \in Nat
         /\ IsFiniteSet(InLoaders(t)) /\ Cardinality(InLoaders(t)) \in Nat
         /\ Cardinality(InLoaders(t)) <= Cardinality(ascs) /\ Cardinality(ascs) \in Nat
         /\ Cardinality(ascs) <= MaxASCs
<1>1. InScript(n, t) \subseteq 1..n /\ IsFiniteSet(1..n)
  BY FS_Interval DEF InScript
<1>2. InLoaders(t) \subseteq ascs /\ IsFiniteSet(ascs)
  BY DEF InLoaders, LoadingInv, Placed
<1>3. IsFiniteSet(InScript(n, t)) /\ IsFiniteSet(InLoaders(t))
      /\ Cardinality(InLoaders(t)) <= Cardinality(ascs)
  BY <1>1, <1>2, FS_Subset
<1> QED
  BY <1>2, <1>3, FS_CardinalityType DEF LoadingInv, Placed

(* They are numbers.                                                       *)
LEMMA GivenType ==
  ASSUME LoadingInv
  PROVE  Given \in [STRING -> Nat]
<1> DEFINE m == Len(subNames)
<1>1. m \in Nat
  BY DEF LoadingInv, Placed
<1> HIDE DEF m
<1>2. ASSUME NEW t \in STRING
      PROVE  Cardinality(InScript(m, t)) + Cardinality(InLoaders(t)) \in Nat
  <2> DEFINE x == Cardinality(InScript(m, t))
             y == Cardinality(InLoaders(t))
  <2>1. x \in Nat /\ y \in Nat
    BY <1>1, InUse
  <2> HIDE DEF x, y
  <2>2. x + y \in Nat
    BY <2>1
  <2> QED
    BY <2>2 DEF x, y
<1> QED
  BY <1>2 DEF Given, m

(* The script names one more.                                              *)
LEMMA MoreInScript ==
  ASSUME LoadingInv, NEW n \in Nat, NEW t
  PROVE  Cardinality(InScript(n + 1, t)) =
           Cardinality(InScript(n, t)) + (IF metadata.subs[n + 1] = t THEN 1 ELSE 0)
<1>1. IsFiniteSet(InScript(n, t)) /\ Cardinality(InScript(n, t)) \in Nat
  BY InUse
<1>2. n + 1 \notin InScript(n, t)
  BY DEF InScript
<1>3. CASE metadata.subs[n + 1] = t
  <2>1. InScript(n + 1, t) = InScript(n, t) \cup {n + 1}
    BY <1>3 DEF InScript
  <2> QED
    BY <1>1, <1>2, <1>3, <2>1, FS_AddElement
<1>4. CASE metadata.subs[n + 1] # t
  <2>1. InScript(n + 1, t) = InScript(n, t)
    BY <1>4 DEF InScript
  <2> QED
    BY <1>1, <1>4, <2>1
<1> QED
  BY <1>3, <1>4

(* So there is one more of its type, and of no other.                      *)
LEMMA OneMoreInScript ==
  ASSUME LoadingInv, Len(subNames') = Len(subNames) + 1, UNCHANGED <<metadata, ascs>>,
         metadata.subs[Len(subNames) + 1] \in STRING
  PROVE  Given' = [Given EXCEPT ![metadata.subs[Len(subNames) + 1]] =
                                    Given[metadata.subs[Len(subNames) + 1]] + 1]
<1> DEFINE m    == Len(subNames)
           type == metadata.subs[m + 1]
<1>1. m \in Nat /\ Given \in [STRING -> Nat]
  BY GivenType DEF LoadingInv, Placed
<1>2. Given' = [t \in STRING |-> Cardinality(InScript(m + 1, t)) + Cardinality(InLoaders(t))]
  BY DEF Given, InScript, InLoaders
<1>3. ASSUME NEW t \in STRING
      PROVE  Cardinality(InScript(m + 1, t)) + Cardinality(InLoaders(t)) =
               IF t = type THEN Given[t] + 1 ELSE Given[t]
  <2>1. Cardinality(InScript(m + 1, t)) = Cardinality(InScript(m, t)) + (IF type = t THEN 1 ELSE 0)
    BY <1>1, MoreInScript
  <2>2. Given[t] = Cardinality(InScript(m, t)) + Cardinality(InLoaders(t))
    BY DEF Given
  <2>3. Cardinality(InScript(m, t)) \in Nat /\ Cardinality(InLoaders(t)) \in Nat
    BY <1>1, InUse
  <2> HIDE DEF type, m
  <2> QED
    BY <2>1, <2>2, <2>3
<1> HIDE DEF type, m
<1>4. Given' = [t \in STRING |-> IF t = type THEN Given[t] + 1 ELSE Given[t]]
  BY <1>2, <1>3
<1>5. Given' = [Given EXCEPT ![type] = Given[type] + 1]
  BY <1>1, <1>4
<1> QED
  BY <1>5 DEF type, m

(* A loader names one more.                                                *)
LEMMA OneMoreInLoaders ==
  ASSUME LoadingInv, NEW name, name \notin ascs, ascs' = ascs \cup {name},
         UNCHANGED <<metadata, subNames>>, name[2] \in STRING
  PROVE  Given' = [Given EXCEPT ![name[2]] = Given[name[2]] + 1]
<1> DEFINE m == Len(subNames)
<1>1. m \in Nat /\ Given \in [STRING -> Nat]
  BY GivenType DEF LoadingInv, Placed
<1>2. Given' = [t \in STRING |-> Cardinality(InScript(m, t)) + Cardinality(InLoaders(t)')]
  BY DEF Given, InScript
<1>3. ASSUME NEW t \in STRING
      PROVE  Cardinality(InScript(m, t)) + Cardinality(InLoaders(t)') =
               IF t = name[2] THEN Given[t] + 1 ELSE Given[t]
  <2>1. IsFiniteSet(InLoaders(t)) /\ Cardinality(InLoaders(t)) \in Nat
        /\ Cardinality(InScript(m, t)) \in Nat
    BY <1>1, InUse
  <2>2. Given[t] = Cardinality(InScript(m, t)) + Cardinality(InLoaders(t))
    BY DEF Given
  <2>3. CASE t = name[2]
    <3>1. InLoaders(t)' = InLoaders(t) \cup {name} /\ name \notin InLoaders(t)
      BY <2>3 DEF InLoaders
    <3>2. Cardinality(InLoaders(t)') = Cardinality(InLoaders(t)) + 1
      BY <2>1, <3>1, FS_AddElement
    <3> QED
      BY <2>1, <2>2, <2>3, <3>2
  <2>4. CASE t # name[2]
    <3>1. InLoaders(t)' = InLoaders(t)
      BY <2>4 DEF InLoaders
    <3> QED
      BY <2>2, <2>4, <3>1
  <2> QED
    BY <2>3, <2>4
<1> HIDE DEF m
<1>4. Given' = [t \in STRING |-> IF t = name[2] THEN Given[t] + 1 ELSE Given[t]]
  BY <1>2, <1>3
<1> QED
  BY <1>1, <1>4

(* There is a number left for the script's next name.                      *)
LEMMA RoomInScript ==
  ASSUME LoadingInv, metadata \in Packages, Len(subNames) + 1 \in 1..Subs(metadata)
  PROVE  /\ Given \in [STRING -> Nat]
         /\ Given[metadata.subs[Len(subNames) + 1]] < CountMax
<1> DEFINE m    == Len(subNames)
           type == metadata.subs[m + 1]
<1>1. m \in Nat /\ Given \in [STRING -> Nat] /\ type \in STRING /\ Subs(metadata) \in Nat
      /\ Subs(metadata) = Len(metadata.subs)
  BY GivenType, Budget DEF LoadingInv, Placed
<1>2. Given[type] = Cardinality(InScript(m, type)) + Cardinality(InLoaders(type))
  BY <1>1 DEF Given
<1>3. Cardinality(InScript(m + 1, type)) = Cardinality(InScript(m, type)) + 1
  BY <1>1, MoreInScript
<1>4. Cardinality(InScript(m + 1, type)) <= Cardinality(InScript(Subs(metadata), type))
  <2>1. InScript(m + 1, type) \subseteq InScript(Subs(metadata), type)
    BY <1>1 DEF InScript
  <2> QED
    BY <1>1, <2>1, InUse, FS_Subset
<1>5. /\ Cardinality(InScript(Subs(metadata), type)) + MaxASCs <= CountMax
      /\ CountMax \in Nat /\ MaxASCs \in Nat
  <2>1. type \in {metadata.subs[i] : i \in 1..Len(metadata.subs)}
    BY <1>1
  <2> QED
    BY <2>1, Budget DEF InScript
<1>6. /\ Cardinality(InScript(m, type)) \in Nat
      /\ Cardinality(InScript(m + 1, type)) \in Nat
      /\ Cardinality(InScript(Subs(metadata), type)) \in Nat
      /\ Cardinality(InLoaders(type)) \in Nat /\ Cardinality(ascs) \in Nat
      /\ Cardinality(InLoaders(type)) <= Cardinality(ascs) /\ Cardinality(ascs) <= MaxASCs
  BY <1>1, InUse
<1> HIDE DEF type, m
<1>7. Given[type] < CountMax
  BY <1>2, <1>3, <1>4, <1>5, <1>6
<1> QED
  BY <1>1, <1>7 DEF type, m

(* The controller is loaded.                                               *)
LEMMA LoadStep ==
  ASSUME LoadingInv, Execute, Loads(metadata, running, Position, Current)
  PROVE  LoadingInv'
<1> DEFINE me == <<metadata.component>>
<1>1. Ready /\ Steps
  BY ScriptSteps DEF LoadingInv, Execute
<1>2. Current.op = "load" /\ Current.name = me
  BY DEF Loads
<1>3. /\ deployer' = deployer \cup {me} /\ me \notin deployer
      /\ ascs' = ascs /\ counts' = counts /\ subNames' = subNames
      /\ UNCHANGED <<state, metadata, running, leaked, faults, misfit>>
  BY <1>2 DEF Execute, Current, Loaded, Unloaded, Fits
<1>4. ~ Present /\ SubsIn' = {} /\ Len(subNames) = 0
      /\ NamedAt(metadata, Phase, Position)' = 0
  BY <1>1 DEF Steps, Loads, Same, LoadingInv, Holding, Ready
<1>5. me \in Components
  BY <1>1, Budget DEF Ready, Components
<1>6. Placed'
  BY <1>3, <1>5 DEF LoadingInv, Placed
<1>7. NoOrphan'
  <2>1. Len(me) = 1
    OBVIOUS
  <2> QED
    BY <1>3, <2>1 DEF LoadingInv, NoOrphan
<1>8. Holding'
  <2>1. ASSUME NEW x \in deployer' \ leaked', Own(x) PROVE x = me
    <3>1. CASE x \in Subcontrollers
      <4>1. Len(x) = 3 /\ x # me
        BY <3>1, Triple
      <4>2. <<x[1]>> \in deployer
        BY <1>3, <2>1, <4>1 DEF LoadingInv, NoOrphan
      <4> QED
        BY <1>3, <2>1, <4>2 DEF Own
    <3>2. CASE x \notin Subcontrollers
      BY <1>3, <1>5, <2>1, <3>2, Component DEF Own, LoadingInv, Placed
    <3> QED
      BY <3>1, <3>2
  <2>2. \A i \in 1..Len(subNames') : FALSE
    BY <1>3, <1>4
  <2>3. me \in deployer' /\ me = <<metadata'.component>>
    BY <1>3
  <2> QED
    BY <1>3, <1>4, <2>1, <2>2, <2>3 DEF Holding, Own
<1>9. ASSUME faults' = 0 PROVE Clean'
  <2>1. Clean /\ deployer = {} /\ ascs = {}
    BY <1>3, <1>4, <1>9 DEF LoadingInv, Clean, Placed
  <2>2. Numbered'
    BY <1>3, <1>4, <2>1 DEF Numbered
  <2>3. \A x \in deployer' : Own(x)'
    BY <1>3, <2>1 DEF Own
  <2>4. \A i \in SubsIn' : (subNames[i])' \in deployer'
    BY <1>4
  <2>5. deployer' # {} /\ Present'
    <3>1. me \in deployer'
      BY <1>3
    <3>2. PresentAt(metadata, running, Position + 1)
      BY DEF Loads
    <3> QED
      BY <1>1, <3>1, <3>2 DEF Steps
  <2> QED
    BY <1>3, <2>1, <2>2, <2>3, <2>4, <2>5 DEF Clean, Own
<1> QED
  BY <1>1, <1>6, <1>7, <1>8, <1>9 DEF LoadingInv, Steps

(* A subcontroller is given its name.                                      *)
LEMMA NameStep ==
  ASSUME LoadingInv, Execute, GivesName(metadata, running, Position, Current)
  PROVE  LoadingInv'
<1> DEFINE me   == <<metadata.component>>
           m    == Len(subNames)
           type == metadata.subs[m + 1]
           name == getUniqueName(me, type)
<1>1. Ready /\ Steps
  BY ScriptSteps DEF LoadingInv, Execute
<1>2. Present /\ Present' /\ SubsIn' = SubsIn
      /\ NamedAt(metadata, Phase, Position)' = m + 1
      /\ Current.i = m + 1 /\ m + 1 \in 1..Subs(metadata)
      /\ Current.op = "name" /\ Current.name = me /\ SubsIn \subseteq 1..m
  BY <1>1 DEF Steps, GivesName, LoadingInv, Holding, Ready, Effect
<1>3. /\ deployer' = deployer /\ ascs' = ascs /\ counts' = Advance(me, type)
      /\ subNames' = Append(subNames, name)
      /\ UNCHANGED <<state, metadata, running, leaked, faults, misfit>>
  BY <1>2 DEF Execute, Current, Loaded, Unloaded
<1>4. /\ metadata.component \in STRING /\ type \in STRING /\ m \in Nat
      /\ m < Subs(metadata) /\ subNames \in Seq(Subcontrollers)
  BY <1>1, <1>2, Budget DEF Ready, LoadingInv, Placed
<1>5. /\ name \in Subcontrollers /\ name = <<metadata.component, type, uniqueNumber(me, type)>>
      /\ Advance(me, type) \in [DOMAIN Advance(me, type) -> Numbers]
  BY <1>4, UniqueName DEF LoadingInv
<1>6. name[1] = metadata.component
  BY <1>5
<1> HIDE DEF name
<1>7. /\ subNames' \in Seq(Subcontrollers) /\ Len(subNames') = m + 1
      /\ subNames'[m + 1] = name /\ \A i \in 1..m : subNames'[i] = subNames[i]
  BY <1>3, <1>4, <1>5
<1>8. Placed'
  BY <1>3, <1>5, <1>7 DEF LoadingInv, Placed
<1>9. \A i \in 1..m + 1 : i \in 1..m \/ i = m + 1
  BY <1>4
<1>10. Holding'
  <2>1. \A i \in 1..Len(subNames') : Own(subNames'[i])
    BY <1>1, <1>6, <1>7, <1>9 DEF Own, LoadingInv, Holding, Ready
  <2>2. /\ me \in deployer
        /\ \A x \in deployer \ leaked : Own(x) =>
             x = me \/ x \in ascs \/ \E i \in SubsIn : x = subNames'[i]
    BY <1>2, <1>7 DEF LoadingInv, Holding
  <2> QED
    BY <1>2, <1>3, <1>7, <2>1, <2>2 DEF Holding, Own
<1>11. NoOrphan'
  BY <1>3 DEF LoadingInv, NoOrphan
<1>12. ASSUME faults' = 0 PROVE Clean'
  <2>1. Clean /\ Numbered
    BY <1>2, <1>3, <1>12 DEF LoadingInv, Clean
  <2>2. Cardinality(ascs) \in Nat /\ Cardinality(ascs) <= MaxASCs
    BY FewerASCs DEF LoadingInv
  <2>3. Given \in [STRING -> Nat] /\ Given[type] < CountMax
    BY <1>1, <1>2, <1>4, RoomInScript DEF LoadingInv, Ready
  <2>4. Given' = [Given EXCEPT ![type] = Given[type] + 1]
    BY <1>3, <1>4, <1>7, OneMoreInScript DEF LoadingInv
  <2> HIDE DEF type
  <2>5. /\ Recent(counts', metadata.component, name, Given'[type])
        /\ \A a \in Subcontrollers :
             a[1] = metadata.component /\ Recent(counts, metadata.component, a, Given[a[2]]) =>
               a # name /\ Recent(counts', metadata.component, a, Given'[a[2]])
    BY <1>3, <1>4, <2>3, <2>4, NewName DEF LoadingInv, name
  <2>6. \A i \in 1..m : /\ subNames[i] \in Subcontrollers /\ subNames[i][1] = metadata.component
                        /\ subNames[i] \notin ascs
                        /\ Recent(counts, metadata.component, subNames[i], Given[subNames[i][2]])
    BY <1>1, <1>4, <2>1 DEF LoadingInv, Holding, Own, Numbered, Ready
  <2>7. \A a \in ascs : /\ a \in Subcontrollers /\ a[1] = metadata.component
                        /\ Recent(counts, metadata.component, a, Given[a[2]])
    BY <1>2, <2>1 DEF LoadingInv, Placed, Clean, Numbered, Own
  <2>8. \A i \in 1..m + 1 :
          /\ subNames'[i] \notin ascs
          /\ Recent(counts', metadata.component, subNames'[i], Given'[subNames'[i][2]])
    <3>1. ASSUME NEW i \in 1..m
          PROVE  /\ subNames[i] \notin ascs
                 /\ Recent(counts', metadata.component, subNames[i], Given'[subNames[i][2]])
      BY <2>5, <2>6
    <3>2. name \notin ascs /\ name[2] = type
      BY <1>5, <2>5, <2>7
    <3> QED
      BY <1>7, <1>9, <2>5, <3>1, <3>2
  <2>9. \A i, j \in 1..m + 1 : i # j => subNames'[i] # subNames'[j]
    <3>1. \A i \in 1..m : subNames[i] # name
      BY <2>5, <2>6
    <3>2. \A i, j \in 1..m : i # j => subNames[i] # subNames[j]
      BY <2>1 DEF Numbered
    <3> QED
      BY <1>7, <1>9, <3>1, <3>2
  <2>10. Numbered'
    BY <1>3, <1>7, <2>5, <2>7, <2>8, <2>9 DEF Numbered
  <2>11. \A i \in SubsIn' : subNames'[i] \in deployer'
    BY <1>2, <1>3, <1>7, <2>1 DEF Clean
  <2> QED
    BY <1>2, <1>3, <2>1, <2>10, <2>11 DEF Clean, Own
<1> QED
  BY <1>1, <1>8, <1>10, <1>11, <1>12 DEF LoadingInv, Steps

(* A subcontroller is loaded.                                              *)
LEMMA LoadSubStep ==
  ASSUME LoadingInv, Execute, LoadsSub(metadata, running, Position, Current)
  PROVE  LoadingInv'
<1> DEFINE me  == <<metadata.component>>
           at  == Current.i
           sub == subNames[at]
<1>1. Ready /\ Steps
  BY ScriptSteps DEF LoadingInv, Execute
<1>2. Present /\ Present' /\ SubsIn' = SubsIn \cup {at}
      /\ NamedAt(metadata, Phase, Position)' = Len(subNames)
      /\ at \in 1..Len(subNames) /\ at \notin SubsIn
      /\ Current.op = "loadSub"
  BY <1>1 DEF Steps, LoadsSub, LoadingInv, Holding, Ready
<1>3. /\ deployer' = deployer \cup {sub} /\ ascs' = ascs /\ counts' = counts
      /\ subNames' = subNames
      /\ UNCHANGED <<state, metadata, running, leaked, faults, misfit>>
  BY <1>2 DEF Execute, Current, Loaded, Unloaded
<1>4. sub \in Subcontrollers /\ sub \in Components /\ Own(sub)
  BY <1>1, <1>2, Triple DEF LoadingInv, Placed, Holding, Ready
<1> HIDE DEF sub, at
<1>5. Placed'
  BY <1>3, <1>4 DEF LoadingInv, Placed
<1>6. Holding'
  <2>1. \A i \in 1..Len(subNames') : Own(subNames'[i])
    BY <1>1, <1>3 DEF LoadingInv, Holding, Ready
  <2>2. /\ me \in deployer'
        /\ \A x \in deployer' \ leaked : Own(x) =>
             x = me \/ x \in ascs' \/ \E i \in SubsIn' : x = subNames'[i]
    BY <1>2, <1>3 DEF LoadingInv, Holding, sub
  <2> QED
    BY <1>2, <1>3, <2>1, <2>2 DEF Holding, Own
<1>7. NoOrphan'
  <2>1. <<sub[1]>> \in deployer
    BY <1>2, <1>4 DEF LoadingInv, Holding, Own
  <2> QED
    BY <1>3, <2>1 DEF LoadingInv, NoOrphan
<1>8. ASSUME faults' = 0 PROVE Clean'
  <2>1. Clean /\ Numbered
    BY <1>2, <1>3, <1>8 DEF LoadingInv, Clean
  <2>2. Numbered'
    BY <1>3, <2>1, NumberedKept
  <2>3. \A x \in deployer' : Own(x)'
    BY <1>2, <1>3, <1>4, <2>1 DEF Clean, Own
  <2>4. \A i \in SubsIn' : subNames'[i] \in deployer'
    BY <1>2, <1>3, <2>1 DEF Clean, sub
  <2> QED
    BY <1>2, <1>3, <2>1, <2>2, <2>3, <2>4 DEF Clean
<1> QED
  BY <1>1, <1>5, <1>6, <1>7, <1>8 DEF LoadingInv, Steps

(* A subcontroller is unloaded.                                            *)
LEMMA UnloadSubStep ==
  ASSUME LoadingInv, Execute, UnloadsSub(metadata, running, Position, Current)
  PROVE  LoadingInv'
<1> DEFINE me  == <<metadata.component>>
           at  == Current.i
           sub == subNames[at]
<1>1. Ready /\ Steps
  BY ScriptSteps DEF LoadingInv, Execute
<1>2. Present /\ Present' /\ SubsIn' = SubsIn \ {at}
      /\ NamedAt(metadata, Phase, Position)' = Len(subNames)
      /\ at \in SubsIn /\ at \in 1..Len(subNames) /\ SubsIn \subseteq 1..Len(subNames)
      /\ Current.op = "unloadSub"
  BY <1>1 DEF Steps, UnloadsSub, LoadingInv, Holding, Ready, Effect
<1>3. /\ deployer' = deployer \ {sub} /\ ascs' = ascs \ {sub} /\ counts' = counts
      /\ subNames' = subNames
      /\ UNCHANGED <<state, metadata, running, leaked, faults, misfit>>
  BY <1>2 DEF Execute, Current, Loaded, Unloaded
<1>4. sub \in Subcontrollers /\ \A p : sub # <<p>>
  BY <1>1, <1>2, Triple DEF LoadingInv, Placed
<1>5. /\ ascs' \subseteq ascs /\ IsFiniteSet(ascs') /\ Cardinality(ascs') <= MaxASCs
  <2>1. ascs' \subseteq ascs
    BY <1>3
  <2> QED
    BY <2>1, FewerASCs DEF LoadingInv
<1> HIDE DEF sub, at
<1>6. Placed'
  BY <1>3, <1>5 DEF LoadingInv, Placed
<1>7. Holding'
  <2>1. \A i \in 1..Len(subNames') : Own(subNames'[i])
    BY <1>1, <1>3 DEF LoadingInv, Holding, Ready
  <2>2. /\ me \in deployer'
        /\ \A x \in deployer' \ leaked : Own(x) =>
             x = me \/ x \in ascs' \/ \E i \in SubsIn' : x = subNames'[i]
    BY <1>2, <1>3, <1>4 DEF LoadingInv, Holding, sub
  <2> QED
    BY <1>2, <1>3, <2>1, <2>2 DEF Holding, Own
<1>8. NoOrphan'
  BY <1>3, <1>4 DEF LoadingInv, NoOrphan
<1>9. ASSUME faults' = 0 PROVE Clean'
  <2>1. Clean /\ Numbered
    BY <1>2, <1>3, <1>9 DEF LoadingInv, Clean
  <2>2. ascs' = ascs
    BY <1>2, <1>3, <2>1 DEF Numbered, sub
  <2>3. Numbered'
    BY <1>3, <2>1, <2>2, NumberedKept
  <2>4. \A i \in SubsIn' : subNames'[i] \in deployer'
    BY <1>2, <1>3, <2>1 DEF Clean, Numbered, sub
  <2> QED
    BY <1>2, <1>3, <2>1, <2>3, <2>4 DEF Clean, Own
<1> QED
  BY <1>1, <1>6, <1>7, <1>8, <1>9 DEF LoadingInv, Steps

(* The controller is unloaded, with all it holds.                          *)
LEMMA UnloadStep ==
  ASSUME LoadingInv, Execute, Unloads(metadata, running, Position, Current)
  PROVE  LoadingInv'
<1> DEFINE me   == <<metadata.component>>
           gone == {me} \cup HeldBy(me)
<1>1. Ready /\ Steps
  BY ScriptSteps DEF LoadingInv, Execute
<1>2. Present /\ ~ Present' /\ SubsIn = {}
      /\ NamedAt(metadata, Phase, Position)' = Len(subNames)
      /\ Current.op = "unload" /\ Current.name = me
  BY <1>1 DEF Steps, Unloads, Same, LoadingInv, Holding, Ready
<1>3. /\ deployer' = deployer \ gone /\ ascs' = ascs \ gone /\ counts' = counts
      /\ subNames' = subNames
      /\ UNCHANGED <<state, metadata, running, leaked, faults, misfit>>
  BY <1>2 DEF Execute, Current, Loaded, Unloaded
<1>4. \A x : x \in gone <=> x = me \/ (x \in ascs /\ Own(x))
  BY DEF HeldBy, Own
<1>5. /\ ascs' \subseteq ascs /\ IsFiniteSet(ascs') /\ Cardinality(ascs') <= MaxASCs
  <2>1. ascs' \subseteq ascs
    BY <1>3
  <2> QED
    BY <2>1, FewerASCs DEF LoadingInv
<1> HIDE DEF gone
<1>6. Placed'
  BY <1>3, <1>5 DEF LoadingInv, Placed
<1>7. Holding'
  <2>1. \A i \in 1..Len(subNames') : Own(subNames'[i])
    BY <1>1, <1>3 DEF LoadingInv, Holding, Ready
  <2> QED
    BY <1>2, <1>3, <2>1 DEF Holding, Own
<1>8. \A x \in deployer \ leaked : Own(x) => x \in gone
  BY <1>2, <1>4 DEF LoadingInv, Holding
<1>9. NoOrphan'
  <2> SUFFICES ASSUME NEW n \in deployer' \ leaked', Len(n) = 3
               PROVE  <<n[1]>> \in deployer'
    BY DEF NoOrphan
  <2>1. n \in deployer \ leaked /\ <<n[1]>> \in deployer /\ ~ Own(n)
    BY <1>3, <1>8 DEF LoadingInv, NoOrphan
  <2>2. <<n[1]>> # me
    BY <2>1 DEF Own
  <2>3. <<n[1]>> \notin ascs
    BY Triple DEF LoadingInv, Placed
  <2> QED
    BY <1>3, <1>4, <2>1, <2>2, <2>3
<1>10. ASSUME faults' = 0 PROVE Clean'
  <2>1. Clean
    BY <1>3, <1>10 DEF LoadingInv
  <2>2. deployer' = {}
    BY <1>2, <1>3, <1>8, <2>1 DEF Clean
  <2> QED
    BY <1>2, <1>3, <2>1, <2>2 DEF Clean
<1> QED
  BY <1>1, <1>6, <1>7, <1>9, <1>10 DEF LoadingInv, Steps

(* One of the loaders' subcontrollers stays when the controller goes.      *)
LEMMA LeakingStep ==
  ASSUME LoadingInv, ExecuteLeaking
  PROVE  LoadingInv'
<1> DEFINE me   == <<metadata.component>>
           held == HeldBy(me)
<1>1. Ready /\ Steps
  BY ScriptSteps DEF LoadingInv, ExecuteLeaking
<1>2. Current.op = "unload"
  BY DEF ExecuteLeaking, Current
<1>3. Unloads(metadata, running, Position, Current)
  BY <1>1, <1>2 DEF Ready, Effect, Resets, Loads, GivesName, LoadsSub, UnloadsSub, Touches
<1>4. Present /\ ~ Present' /\ SubsIn = {}
      /\ NamedAt(metadata, Phase, Position)' = Len(subNames)
      /\ Current.name = me
  BY <1>1, <1>3 DEF Steps, Unloads, Same, LoadingInv, Holding, Ready
<1>5. /\ deployer' = deployer \ {me} /\ ascs' = ascs \ held /\ counts' = counts
      /\ leaked' = leaked \cup held /\ subNames' = subNames /\ faults' = faults + 1
      /\ UNCHANGED <<state, metadata, running>>
  BY <1>4 DEF ExecuteLeaking, Current
<1>6. \A x : x \in held <=> x \in ascs /\ Own(x)
  BY DEF HeldBy, Own
<1>7. /\ ascs' \subseteq ascs /\ IsFiniteSet(ascs') /\ Cardinality(ascs') <= MaxASCs
  <2>1. ascs' \subseteq ascs
    BY <1>5
  <2> QED
    BY <2>1, FewerASCs DEF LoadingInv
<1> HIDE DEF held
<1>8. me \notin ascs
  BY Triple DEF LoadingInv, Placed
<1>9. Placed'
  BY <1>5, <1>7, <1>8 DEF LoadingInv, Placed
<1>10. Holding'
  <2>1. \A i \in 1..Len(subNames') : Own(subNames'[i])
    BY <1>1, <1>5 DEF LoadingInv, Holding, Ready
  <2> QED
    BY <1>4, <1>5, <2>1 DEF Holding, Own
<1>11. \A x \in deployer \ leaked : Own(x) => x = me \/ x \in held
  BY <1>4, <1>6 DEF LoadingInv, Holding
<1>12. NoOrphan'
  <2> SUFFICES ASSUME NEW n \in deployer' \ leaked', Len(n) = 3
               PROVE  <<n[1]>> \in deployer'
    BY DEF NoOrphan
  <2>1. n \in deployer \ leaked /\ <<n[1]>> \in deployer /\ ~ Own(n)
    BY <1>5, <1>11 DEF LoadingInv, NoOrphan
  <2>2. <<n[1]>> # me
    BY <2>1 DEF Own
  <2> QED
    BY <1>5, <2>1, <2>2
<1>13. faults' # 0
  BY <1>5 DEF LoadingInv, Placed
<1> QED
  BY <1>1, <1>9, <1>10, <1>12, <1>13 DEF LoadingInv, Steps

(* Every statement that is carried out preserves the invariant.            *)
LEMMA ExecuteStep ==
  ASSUME LoadingInv, Execute
  PROVE  LoadingInv'
<1>1. Ready
  BY IsReady DEF LoadingInv, Execute
<1> QED
  BY <1>1, ResetStep, LoadStep, NameStep, LoadSubStep, UnloadSubStep, UnloadStep, TouchStep
     DEF Ready, Effect

-----------------------------------------------------------------------------
(***************************************************************************)
(* The end of a script.                                                    *)
(***************************************************************************)
(* As long as nothing outside the scripts has failed, the deployer carries *)
(* out every statement.                                                    *)
LEMMA Fitting ==
  ASSUME LoadingInv, Clean, script # <<>>
  PROVE  Fits(Current)
<1> DEFINE me == <<metadata.component>>
           at == Current.i
<1>1. Ready
  BY IsReady DEF LoadingInv
<1>2. /\ SubsIn = HeldAt(metadata, running, Position)
      /\ Present <=> PresentAt(metadata, running, Position)
      /\ Len(subNames) = NamedAt(metadata, running, Position)
      /\ SubsIn \subseteq 1..Len(subNames)
  BY <1>1 DEF SubsIn, Present, Ready, Effect, LoadingInv, Holding
<1>3. CASE Resets(metadata, running, Position, Current)
  BY <1>3 DEF Resets, Fits
<1>4. CASE Loads(metadata, running, Position, Current)
  BY <1>2, <1>4 DEF Loads, Fits, Clean
<1>5. CASE GivesName(metadata, running, Position, Current)
  BY <1>5 DEF GivesName, Fits
<1>6. CASE LoadsSub(metadata, running, Position, Current)
  <2>1. Present /\ Numbered /\ leaked = {} /\ at \in 1..Len(subNames) /\ at \notin SubsIn
    BY <1>2, <1>6 DEF LoadsSub, Clean
  <2>2. subNames[at] \in Subcontrollers /\ subNames[at] # me /\ Own(subNames[at])
    BY <1>1, <2>1, Triple DEF LoadingInv, Placed, Holding, Ready
  <2>3. subNames[at] \notin ascs /\ \A i \in SubsIn : subNames[at] # subNames[i]
    BY <1>2, <2>1 DEF Numbered
  <2>4. subNames[at] \notin deployer
    BY <2>1, <2>2, <2>3 DEF LoadingInv, Holding
  <2> QED
    BY <1>6, <2>4 DEF LoadsSub, Fits
<1>7. CASE UnloadsSub(metadata, running, Position, Current)
  <2>1. me \in deployer /\ subNames[at] \in deployer
    BY <1>2, <1>7 DEF UnloadsSub, Clean, LoadingInv, Holding
  <2> QED
    BY <1>7, <2>1 DEF UnloadsSub, Fits
<1>8. CASE Unloads(metadata, running, Position, Current)
  BY <1>2, <1>8 DEF Unloads, Fits, LoadingInv, Holding
<1>9. CASE Touches(metadata, running, Position, Current)
  <2>1. me \in deployer /\ (Current.op = "addPeer" => subNames[at] \in deployer)
    BY <1>2, <1>9 DEF Touches, Clean, LoadingInv, Holding
  <2> QED
    BY <1>9, <2>1 DEF Touches, Fits
<1> QED
  BY <1>1, <1>3, <1>4, <1>5, <1>6, <1>7, <1>8, <1>9 DEF Ready, Effect

(* A script that fails.                                                    *)
LEMMA FailStep ==
  ASSUME LoadingInv, running # "none", RunScriptReturns(FALSE),
         UNCHANGED <<metadata, subNames, deployer, counts, ascs, leaked>>,
         faults' \in Nat, faults' # 0
  PROVE  LoadingInv'
<1>1. running' = "none" /\ script' = <<>> /\ state' \in {"NO_CONTROLLER_LOADED", "aborted"}
  BY DEF LoadingInv, Placed, Scripted, RunScriptReturns
<1>2. ~ Live' /\ ~ Present'
  BY <1>1 DEF Live, Present
<1>3. Placed'
  BY <1>1 DEF LoadingInv, Placed
<1>4. Scripted'
  BY <1>1, <1>2 DEF Scripted
<1>5. Holding' /\ NoOrphan'
  BY <1>2 DEF Holding, LoadingInv, NoOrphan
<1> QED
  BY <1>3, <1>4, <1>5 DEF LoadingInv

(* A statement is refused: something outside had failed before.            *)
LEMMA RefuseStep ==
  ASSUME LoadingInv, Refuse
  PROVE  LoadingInv'
<1>1. faults # 0
  BY Fitting DEF LoadingInv, Refuse, Current
<1>2. running # "none"
  BY DEF LoadingInv, Scripted, Refuse
<1> QED
  BY <1>1, <1>2, FailStep DEF LoadingInv, Placed, Refuse

(* A statement fails for a reason outside the scripts.                     *)
LEMMA FaultStep ==
  ASSUME LoadingInv, Fault
  PROVE  LoadingInv'
<1>1. running # "none"
  BY DEF LoadingInv, Scripted, Fault
<1>2. faults' \in Nat /\ faults' # 0
  BY DEF LoadingInv, Placed, Fault
<1> QED
  BY <1>1, <1>2, FailStep DEF Fault

(* A script that succeeds loads or unloads the controller.                 *)
LEMMA ScriptEndsStep ==
  ASSUME LoadingInv, ScriptEnds
  PROVE  LoadingInv'
<1>1. /\ Live /\ metadata \in Packages /\ running \in {"start", "stop"} /\ Phase = running
      /\ Position = Length(metadata, running)
  <2>1. running \in {"start", "stop"}
    BY DEF LoadingInv, Placed, ScriptEnds
  <2>2. Live /\ metadata \in Packages
    BY <2>1 DEF LoadingInv, Scripted, Live
  <2>3. Len(script) = 0
    BY DEF ScriptEnds
  <2>4. Length(metadata, running) \in Nat
    BY <2>1, <2>2, Ends
  <2> QED
    BY <2>1, <2>2, <2>3, <2>4 DEF Phase, Position
<1>2. /\ running' = "none" /\ script' = <<>>
      /\ UNCHANGED <<metadata, subNames, deployer, counts, ascs, leaked, faults, misfit>>
  BY DEF ScriptEnds, RunScriptReturns
<1>3. CASE running = "start"
  <2>1. state' = "CONTROLLER_STOPPED" /\ Live' /\ Phase' = "stop" /\ Position' = 0
    BY <1>2, <1>3 DEF ScriptEnds, RunScriptReturns, Live, Phase, Position
  <2>2. /\ Present /\ Present' /\ SubsIn' = SubsIn
        /\ NamedAt(metadata, Phase, Position)' = Len(subNames)
    BY <1>1, <1>2, <1>3, <2>1, Ends DEF Present, SubsIn, LoadingInv, Holding
  <2>3. Placed' /\ Scripted'
    BY <1>1, <1>2, <2>1 DEF LoadingInv, Placed, Scripted
  <2>4. Holding'
    <3>1. \A i \in 1..Len(subNames') : Own(subNames'[i])
      BY <1>1, <1>2 DEF LoadingInv, Holding
    <3> QED
      BY <1>2, <2>2, <3>1 DEF LoadingInv, Holding, Own
  <2>5. NoOrphan'
    BY <1>2 DEF LoadingInv, NoOrphan
  <2>6. ASSUME faults' = 0 PROVE Clean'
    <3>1. Clean /\ Numbered
      BY <1>2, <2>2, <2>6 DEF LoadingInv, Clean
    <3>2. Numbered'
      BY <1>2, <3>1, NumberedKept
    <3> QED
      BY <1>2, <2>1, <2>2, <3>1, <3>2 DEF Clean, Own
  <2> QED
    BY <2>3, <2>4, <2>5, <2>6 DEF LoadingInv
<1>4. CASE running = "stop"
  <2>1. state' = "NO_CONTROLLER_LOADED" /\ ~ Live' /\ ~ Present'
    BY <1>2, <1>4 DEF ScriptEnds, RunScriptReturns, Live, Present
  <2>2. ~ Present
    BY <1>1, <1>4, Ends DEF Present
  <2>3. Placed' /\ Scripted'
    BY <1>2, <2>1 DEF LoadingInv, Placed, Scripted
  <2>4. Holding' /\ NoOrphan'
    BY <1>2, <2>1 DEF Holding, LoadingInv, NoOrphan
  <2>5. ASSUME faults' = 0 PROVE Clean'
    BY <1>2, <2>1, <2>2, <2>5 DEF LoadingInv, Clean
  <2> QED
    BY <2>3, <2>4, <2>5 DEF LoadingInv
<1> QED
  BY <1>1, <1>3, <1>4

-----------------------------------------------------------------------------
(***************************************************************************)
(* The Controller Manager's and the ASCLoaders' steps.                     *)
(***************************************************************************)
(* A controller is requested.                                              *)
LEMMA loadControllerStep ==
  ASSUME LoadingInv, NEW c \in Packages, loadController(c)
  PROVE  LoadingInv'
<1>1. CASE state = "CONTROLLER_STOPPED"
  <2>1. UNCHANGED <<state, metadata, running, script, subNames, deployer, counts, ascs,
                    leaked, faults, misfit>>
    BY <1>1 DEF loadController
  <2>2. (Live' <=> Live) /\ Phase' = Phase /\ Position' = Position /\ SubsIn' = SubsIn
        /\ (Present' <=> Present)
    BY <2>1 DEF Live, Phase, Position, SubsIn, Present
  <2>3. Placed' /\ Scripted' /\ Holding' /\ NoOrphan'
    BY <2>1, <2>2 DEF LoadingInv, Placed, Scripted, Holding, NoOrphan, Own
  <2>4. ASSUME faults' = 0 PROVE Clean'
    <3>1. Clean /\ UNCHANGED <<state, metadata, subNames, deployer, counts, ascs, leaked, misfit>>
      BY <2>1, <2>4 DEF LoadingInv
    <3>2. Present' => Numbered'
      BY <2>2, <3>1, NumberedKept DEF Clean
    <3> QED
      BY <2>2, <3>1, <3>2 DEF Clean, Own
  <2> QED
    BY <2>3, <2>4 DEF LoadingInv
<1>2. CASE state # "CONTROLLER_STOPPED"
  <2>1. /\ state = "NO_CONTROLLER_LOADED" /\ metadata' = c /\ running' = "start"
        /\ running = "none" /\ script' = start_ops(c) /\ subNames' = <<>>
        /\ UNCHANGED <<state, deployer, counts, ascs, leaked, faults, misfit>>
    BY <1>2 DEF loadController
  <2>2. /\ Length(c, "start") \in Nat /\ Len(script') = Length(c, "start")
        /\ script' \in Seq(Statements(c))
        /\ \A j \in 1..Len(script') : script'[j] = StartAt(c, j)
    BY <2>1, StartOps, Ends DEF Length
  <2>3. Live' /\ Phase' = "start" /\ Position' = 0
    BY <2>1, <2>2 DEF Live, Phase, Position
  <2>4. ~ Live /\ ~ Present /\ ~ Present' /\ NamedAt(metadata, Phase, Position)' = 0
    BY <2>1, <2>3, Ends DEF Live, Present
  <2>5. Placed'
    BY <2>1 DEF LoadingInv, Placed
  <2>6. Scripted'
    <3>1. \A j \in 1..Len(script') : 0 + j = j
      BY <2>2
    <3>2. \A j \in 1..Len(script') : script'[j] = At(c, "start", Position' + j)
      BY <2>2, <2>3, <3>1 DEF At
    <3> QED
      BY <2>1, <2>2, <3>2 DEF Scripted
  <2>7. Holding' /\ NoOrphan'
    BY <2>1, <2>4 DEF Holding, LoadingInv, NoOrphan
  <2>8. ASSUME faults' = 0 PROVE Clean'
    BY <2>1, <2>4, <2>8 DEF LoadingInv, Clean
  <2> QED
    BY <2>5, <2>6, <2>7, <2>8 DEF LoadingInv
<1> QED
  BY <1>1, <1>2

(* The loaded controller is to be unloaded.                                *)
LEMMA runStopScriptStep ==
  ASSUME LoadingInv, runStopScript
  PROVE  LoadingInv'
<1>1. /\ state = "CONTROLLER_STOPPED" /\ running = "none" /\ running' = "stop"
      /\ script' = stop_ops(metadata)
      /\ UNCHANGED <<state, metadata, subNames, deployer, counts, ascs, leaked, faults, misfit>>
  BY DEF runStopScript
<1>2. Live /\ metadata \in Packages /\ Phase = "stop" /\ Position = 0
  BY <1>1 DEF Live, LoadingInv, Scripted, Phase, Position
<1>3. /\ Length(metadata, "stop") \in Nat /\ Len(script') = Length(metadata, "stop")
      /\ script' \in Seq(Statements(metadata))
      /\ \A j \in 1..Len(script') : script'[j] = StopAt(metadata, j)
  BY <1>1, <1>2, StopOps, Ends DEF Length
<1>4. Live' /\ Phase' = "stop" /\ Position' = 0
  BY <1>1, <1>3 DEF Live, Phase, Position
<1>5. SubsIn' = SubsIn /\ (Present' <=> Present)
  BY <1>1, <1>2, <1>4 DEF SubsIn, Present
<1>6. Placed'
  BY <1>1 DEF LoadingInv, Placed
<1>7. Scripted'
  <2>1. \A j \in 1..Len(script') : 0 + j = j
    BY <1>3
  <2>2. \A j \in 1..Len(script') : script'[j] = At(metadata, "stop", Position' + j)
    BY <1>3, <1>4, <2>1 DEF At
  <2> QED
    BY <1>1, <1>2, <1>3, <2>2 DEF Scripted
<1>8. Holding' /\ NoOrphan'
  BY <1>1, <1>2, <1>4, <1>5 DEF Holding, LoadingInv, NoOrphan, Own
<1>9. ASSUME faults' = 0 PROVE Clean'
  <2>1. Clean
    BY <1>1, <1>9 DEF LoadingInv
  <2>2. Present' => Numbered'
    BY <1>1, <1>5, <2>1, NumberedKept DEF Clean
  <2> QED
    BY <1>1, <1>5, <2>1, <2>2 DEF Clean, Own
<1> QED
  BY <1>6, <1>7, <1>8, <1>9 DEF LoadingInv

(* No more names are given than there are subcontrollers.                  *)
LEMMA NamedBound ==
  ASSUME LoadingInv, Live
  PROVE  Len(subNames) \in Nat /\ Len(subNames) <= Subs(metadata) /\ metadata \in Packages
<1>1. metadata \in Packages /\ Subs(metadata) \in Nat
      /\ Len(subNames) = NamedAt(metadata, Phase, Position)
  BY Budget DEF LoadingInv, Scripted, Holding
<1>2. Len(subNames) \in Nat
  BY DEF LoadingInv, Placed
<1>3. CASE Phase = "start"
  <2>1. Named(metadata) \in Nat
    BY <1>1, Package
  <2>2. running = "start" /\ Length(metadata, "start") \in Nat /\ Len(script) \in Nat
    BY <1>1, <1>3, Ends DEF Phase, LoadingInv, Scripted
  <2>3. Position \in Int
    BY <2>2 DEF Position
  <2> QED
    BY <1>1, <1>2, <1>3, <2>1, <2>3 DEF NamedAt, Clamp
<1>4. CASE Phase # "start"
  BY <1>1, <1>2, <1>4 DEF NamedAt
<1> QED
  BY <1>3, <1>4

(* There is one for a loader's.                                            *)
LEMMA RoomInLoaders ==
  ASSUME LoadingInv, Live, NEW type \in ASCTypes, Cardinality(ascs) < MaxASCs
  PROVE  Given \in [STRING -> Nat] /\ Given[type] < CountMax
<1> DEFINE m == Len(subNames)
<1>1. m \in Nat /\ m <= Subs(metadata) /\ metadata \in Packages
      /\ Given \in [STRING -> Nat] /\ type \in STRING /\ Subs(metadata) \in Nat
  BY GivenType, NamedBound, Budget, PackagesMatch
<1>2. Given[type] = Cardinality(InScript(m, type)) + Cardinality(InLoaders(type))
  BY <1>1 DEF Given
<1>3. Cardinality(InScript(m, type)) <= Cardinality(InScript(Subs(metadata), type))
  <2>1. InScript(m, type) \subseteq InScript(Subs(metadata), type)
    BY <1>1 DEF InScript
  <2> QED
    BY <1>1, <2>1, InUse, FS_Subset
<1>4. /\ Cardinality(InScript(Subs(metadata), type)) + MaxASCs <= CountMax
      /\ CountMax \in Nat /\ MaxASCs \in Nat
  BY <1>1, Budget DEF InScript
<1>5. /\ Cardinality(InScript(m, type)) \in Nat
      /\ Cardinality(InScript(Subs(metadata), type)) \in Nat
      /\ Cardinality(InLoaders(type)) \in Nat /\ Cardinality(ascs) \in Nat
      /\ Cardinality(InLoaders(type)) <= Cardinality(ascs)
  BY <1>1, InUse
<1> HIDE DEF m
<1>6. Given[type] < CountMax
  BY <1>2, <1>3, <1>4, <1>5
<1> QED
  BY <1>1, <1>6

(* A controller loads a subcontroller for itself.                          *)
LEMMA ASCLoadStep ==
  ASSUME LoadingInv, ASCLoad
  PROVE  LoadingInv'
<1>1. PICK parent \in deployer, type \in ASCTypes :
        /\ Len(parent) = 1 /\ Cardinality(ascs) < MaxASCs
        /\ counts' = Advance(parent, type)
        /\ \/ /\ getUniqueName(parent, type) \notin deployer
              /\ deployer' = deployer \cup {getUniqueName(parent, type)}
              /\ ascs' = ascs \cup {getUniqueName(parent, type)}
              /\ UNCHANGED <<faults, misfit>>
           \/ /\ getUniqueName(parent, type) \in deployer
              /\ UNCHANGED <<deployer, ascs, faults>>
           \/ /\ faults' = faults + 1
              /\ UNCHANGED <<deployer, ascs, misfit>>
  BY DEF ASCLoad
<1> DEFINE p    == parent[1]
           name == getUniqueName(parent, type)
<1>2. UNCHANGED <<state, metadata, running, script, subNames, leaked>>
  BY DEF ASCLoad
<1>3. parent = <<p>> /\ p \in STRING /\ type \in STRING
  <2>1. parent \in Components
    BY DEF LoadingInv, Placed
  <2> QED
    BY <1>1, <2>1, Component, Triple, PackagesMatch
<1> HIDE DEF p
<1>4. /\ name \in Subcontrollers
      /\ name = <<p, type, uniqueNumber(<<p>>, type)>>
      /\ counts' \in [DOMAIN counts' -> Numbers]
  BY <1>1, <1>3, UniqueName DEF LoadingInv
<1>5. name[1] = p /\ name \in Components
  BY <1>4, Triple
<1> HIDE DEF name
<1>6. (Live' <=> Live) /\ Phase' = Phase /\ Position' = Position /\ SubsIn' = SubsIn
      /\ (Present' <=> Present)
  BY <1>2 DEF Live, Phase, Position, SubsIn, Present
<1>7. Cardinality(ascs) \in Nat /\ IsFiniteSet(ascs)
  BY FewerASCs DEF LoadingInv, Placed
<1>8. /\ deployer' \in {deployer, deployer \cup {name}}
      /\ ascs' \in {ascs, ascs \cup {name}}
      /\ deployer' = deployer => ascs' \subseteq deployer
      /\ name \in ascs' => name \in deployer'
      /\ faults' \in Nat
  BY <1>1 DEF LoadingInv, Placed, name
<1>9. Placed'
  <2>1. IsFiniteSet(ascs') /\ Cardinality(ascs') <= MaxASCs
    <3>1. /\ IsFiniteSet(ascs \cup {name})
          /\ Cardinality(ascs \cup {name}) \in {Cardinality(ascs), Cardinality(ascs) + 1}
      BY <1>7, FS_AddElement
    <3>2. Cardinality(ascs \cup {name}) <= MaxASCs
      BY <1>1, <1>7, <3>1, PackagesMatch
    <3>3. CASE ascs' = ascs
      BY <3>3, FewerASCs DEF LoadingInv
    <3>4. CASE ascs' = ascs \cup {name}
      BY <3>1, <3>2, <3>4
    <3> QED
      BY <1>8, <3>3, <3>4
  <2>2. deployer' \subseteq Components /\ ascs' \subseteq deployer' \cap Subcontrollers
    BY <1>4, <1>5, <1>8 DEF LoadingInv, Placed
  <2> QED
    BY <1>2, <1>4, <1>8, <2>1, <2>2 DEF LoadingInv, Placed
<1>10. Scripted'
  BY <1>2, <1>6 DEF LoadingInv, Scripted
<1>11. Holding'
  <2>1. deployer \subseteq deployer' /\ ascs \subseteq ascs'
        /\ \A x \in deployer' : x \in deployer \/ x \in ascs'
    BY <1>1 DEF name
  <2> QED
    BY <1>2, <1>6, <2>1 DEF LoadingInv, Holding, Own
<1>12. NoOrphan'
  <2>1. <<name[1]>> \in deployer
    BY <1>3, <1>5
  <2> QED
    BY <1>2, <1>8, <2>1 DEF LoadingInv, NoOrphan
<1>13. ASSUME faults' = 0 PROVE Clean'
  <2>1. faults = 0 /\ faults' # faults + 1 /\ Clean
    BY <1>1, <1>13 DEF LoadingInv, Placed
  <2>2. Present /\ Numbered /\ p = metadata.component /\ Live
    BY <1>3, <2>1 DEF Clean, Own, Present
  <2>3. Given \in [STRING -> Nat] /\ Given[type] < CountMax
    BY <1>1, <1>7, <2>2, RoomInLoaders DEF LoadingInv
  <2> DEFINE more == [Given EXCEPT ![type] = Given[type] + 1]
  <2>4. /\ Recent(counts', p, name, more[type])
        /\ \A a \in Subcontrollers : a[1] = p /\ Recent(counts, p, a, Given[a[2]]) =>
             a # name /\ Recent(counts', p, a, more[a[2]])
    BY <1>1, <1>3, <2>3, NewName DEF LoadingInv, name
  <2> HIDE DEF more
  <2>5. \A i \in 1..Len(subNames) :
          /\ subNames[i] \in Subcontrollers /\ subNames[i][1] = p
          /\ subNames[i] \notin ascs /\ Recent(counts, p, subNames[i], Given[subNames[i][2]])
    BY <2>2 DEF LoadingInv, Placed, Holding, Own, Numbered
  <2>6. \A a \in ascs : a \in Subcontrollers /\ a[1] = p /\ Recent(counts, p, a, Given[a[2]])
    BY <2>1, <2>2 DEF LoadingInv, Placed, Clean, Numbered, Own
  <2>7. name \notin ascs /\ \A i \in 1..Len(subNames) : subNames[i] # name
    BY <2>4, <2>5, <2>6
  <2>8. SubsIn \subseteq 1..Len(subNames)
    <3>1. CASE Phase = "start"
      <4>1. running = "start" /\ metadata \in Packages /\ Named(metadata) \in Nat
            /\ Subs(metadata) \in Nat /\ Length(metadata, "start") \in Nat /\ Len(script) \in Nat
        BY <2>2, <3>1, NamedBound, Package, Ends DEF Phase, LoadingInv, Scripted
      <4>2. Position \in Int
        BY <4>1 DEF Position
      <4> QED
        BY <2>2, <3>1, <4>1, <4>2 DEF SubsIn, HeldAt, LoadingInv, Holding, NamedAt, Clamp
    <3>2. CASE Phase # "start"
      BY <2>2, <3>2 DEF SubsIn, HeldAt, LoadingInv, Holding, NamedAt
    <3> QED
      BY <3>1, <3>2
  <2>9. name \notin deployer
    <3>1. name # <<metadata.component>>
      BY <1>4, Triple
    <3>2. name \in deployer => \E i \in SubsIn : name = subNames[i]
      BY <1>5, <2>1, <2>2, <2>7, <3>1 DEF LoadingInv, Holding, Clean, Own
    <3> QED
      BY <2>7, <2>8, <3>2
  <2>10. /\ deployer' = deployer \cup {name} /\ ascs' = ascs \cup {name}
         /\ misfit' = misfit
    BY <1>1, <2>1, <2>9 DEF name
  <2>11. name[2] = type
    BY <1>4
  <2>12. Given' = more
    BY <1>2, <1>3, <2>7, <2>10, <2>11, OneMoreInLoaders DEF LoadingInv, more
  <2>13. Numbered'
    <3>1. \A i \in 1..Len(subNames) :
            subNames[i] \notin ascs' /\ Recent(counts', p, subNames[i], more[subNames[i][2]])
      BY <2>4, <2>5, <2>7, <2>10
    <3>2. \A a \in ascs' : Recent(counts', p, a, more[a[2]])
      BY <2>4, <2>6, <2>10, <2>11
    <3> QED
      BY <1>2, <2>2, <2>12, <3>1, <3>2 DEF Numbered
  <2>14. \A x \in deployer' : Own(x)
    BY <1>5, <2>1, <2>2, <2>10 DEF Clean, Own
  <2>15. \A i \in SubsIn : subNames[i] \in deployer'
    BY <2>1, <2>2, <2>10 DEF Clean
  <2> QED
    BY <1>2, <1>6, <2>1, <2>2, <2>10, <2>13, <2>14, <2>15 DEF Clean, Own
<1> QED
  BY <1>9, <1>10, <1>11, <1>12, <1>13 DEF LoadingInv

-----------------------------------------------------------------------------
(* Nothing is loaded at first.                                             *)
LEMMA LoadingStarts == LoadingInit => LoadingInv
<1> SUFFICES ASSUME LoadingInit PROVE LoadingInv
  OBVIOUS
<1>1. ~ Live /\ ~ Present
  BY DEF LoadingInit, Live, Present
<1>2. Placed
  <2>1. IsFiniteSet({}) /\ Cardinality({}) = 0
    BY FS_EmptySet
  <2> QED
    BY <2>1, PackagesMatch DEF LoadingInit, Placed
<1>3. Scripted /\ Holding /\ NoOrphan /\ Clean
  BY <1>1 DEF LoadingInit, Scripted, Holding, NoOrphan, Clean
<1> QED
  BY <1>2, <1>3 DEF LoadingInv

(* Every step preserves the invariant.                                     *)
LEMMA LoadingSteps == LoadingInv /\ [LoadingNext]_lvars => LoadingInv'
<1> SUFFICES ASSUME LoadingInv, [LoadingNext]_lvars PROVE LoadingInv'
  OBVIOUS
<1>1. CASE \E c \in Packages : loadController(c)
  BY <1>1, loadControllerStep
<1>2. CASE runStopScript
  BY <1>2, runStopScriptStep
<1>3. CASE Execute
  BY <1>3, ExecuteStep
<1>4. CASE ExecuteLeaking
  BY <1>4, LeakingStep
<1>5. CASE Refuse
  BY <1>5, RefuseStep
<1>6. CASE Fault
  BY <1>6, FaultStep
<1>7. CASE ScriptEnds
  BY <1>7, ScriptEndsStep
<1>8. CASE ASCLoad
  BY <1>8, ASCLoadStep
<1>9. CASE Ended \/ UNCHANGED lvars
  <2>1. UNCHANGED lvars
    BY <1>9 DEF Ended
  <2>2. (Live' <=> Live) /\ Phase' = Phase /\ Position' = Position /\ SubsIn' = SubsIn
        /\ (Present' <=> Present)
    BY <2>1 DEF lvars, Live, Phase, Position, SubsIn, Present
  <2>3. Placed' /\ Scripted' /\ Holding' /\ NoOrphan'
    BY <2>1, <2>2 DEF lvars, LoadingInv, Placed, Scripted, Holding, NoOrphan, Own
  <2>4. ASSUME faults' = 0 PROVE Clean'
    <3>1. Clean /\ UNCHANGED <<state, metadata, subNames, deployer, counts, ascs, leaked, misfit>>
      BY <2>1, <2>4 DEF lvars, LoadingInv
    <3>2. Present' => Numbered'
      BY <2>2, <3>1, NumberedKept DEF Clean
    <3> QED
      BY <2>2, <3>1, <3>2 DEF Clean, Own
  <2> QED
    BY <2>3, <2>4 DEF LoadingInv
<1> QED
  BY <1>1, <1>2, <1>3, <1>4, <1>5, <1>6, <1>7, <1>8, <1>9 DEF LoadingNext

(* Loading and unloading controllers, for any packages whose scripts       *)
(* match, in any order and any number of times, is always possible and     *)
(* leaves nothing behind; and whatever fails half way, no subcontroller is *)
(* left without its controller.                                            *)
THEOREM LoadingIsClean == LoadingSpec => []UnloadsClean
<1>1. LoadingInv => UnloadsClean
  <2> SUFFICES ASSUME LoadingInv PROVE UnloadsClean
    OBVIOUS
  <2>1. ScriptsFit /\ NoOrphan
    BY DEF LoadingInv, ScriptsFit, Clean
  <2>2. StopShutsDown
    <3>1. running = "none" /\ state # "CONTROLLER_STOPPED" => ~ Present
      BY DEF Present, Live
    <3> QED
      BY <3>1 DEF LoadingInv, StopShutsDown, Clean
  <2> QED
    BY <2>1, <2>2 DEF UnloadsClean
<1> QED
  BY <1>1, LoadingStarts, LoadingSteps, PTL DEF LoadingSpec
-----------------------------------------------------------------------------
(* A plugin whose functions agree on their parameters.                     *)
Agrees(p) ==
  /\ p.saved \subseteq p.read \cup p.sent
  /\ p.overwritten \subseteq p.read \cup p.sent
  /\ p.saved \cap p.overwritten = {}
  /\ p.onto \in [p.read -> p.read]
  /\ \A k, w \in p.read : p.onto[k] = w /\ w # "lfl" => k = w

(* One without particular parts.                                           *)
LEMMA PluginAgrees ==
  ASSUME NEW keys, NEW raw
  PROVE  Agrees(Plugin(keys, raw)) 
BY DEF Agrees, Plugin

(* Whether guiInit looks does not matter.                                  *)
LEMMA CheckedAgrees ==
  ASSUME NEW keys, NEW raw, NEW more
  PROVE  /\ Agrees(Checked(Plugin(keys, raw)))
         /\ Agrees(Sending(Plugin(keys, raw), more))
         /\ Agrees(Sending(Checked(Plugin(keys, raw)), more))
         /\ Agrees(NoParameters(Sending(Checked(Plugin(keys, raw)), more)))
BY DEF Agrees, Plugin, Checked, Sending, NoParameters

(* The plugins with parts of their own.                                    *)
LEMMA Special ==
  /\ Agrees(deadbeat_control) /\ Agrees(slip_walking) /\ Agrees(demo)
  /\ Agrees(eq_point) /\ Agrees(leg_sin_wave) /\ Agrees(motor_position) /\ Agrees(motor_position_hold_imu)
<1>1. Agrees(deadbeat_control)
  BY DEF Agrees, Plugin, Checked, Sending, NoParameters, deadbeat_control
<1>2. Agrees(slip_walking)
  BY DEF Agrees, Plugin, Checked, Sending, NoParameters, slip_walking
<1>3. Agrees(demo)
  BY DEF Agrees, Plugin, Checked, Sending, NoParameters, demo
<1>4. Agrees(eq_point)
  BY DEF Agrees, Plugin, Checked, Sending, NoParameters, eq_point
<1>5. Agrees(leg_sin_wave)
  BY DEF Agrees, Plugin, Checked, Sending, NoParameters, leg_sin_wave
<1>6. Agrees(motor_position)
  BY DEF Agrees, Plugin, Checked, Sending, NoParameters, motor_position
<1>7. Agrees(motor_position_hold_imu)
  BY DEF Agrees, Plugin, Checked, Sending, NoParameters, motor_position_hold_imu
<1> QED BY <1>1, <1>2, <1>3, <1>4, <1>5, <1>6, <1>7

(* All of them.                                                            *)
LEMMA Plugins ==
  \A n \in DOMAIN plugin : Agrees(plugin[n]) /\ n \notin {"junk", "status", "none"}
<1> USE PluginAgrees, CheckedAgrees, Special
<1>1. Agrees(canonical_walking) /\ Agrees(stabilized_standing) /\ Agrees(force_control_demo) /\ Agrees(slip_hopping) /\ Agrees(slip_running)
 BY DEF canonical_walking, stabilized_standing, force_control_demo, slip_hopping, slip_running
<1>2. Agrees(demo_range_of_motion) /\ Agrees(fast_leg_swing) /\ Agrees(joint_position) /\ Agrees(leg_position)
  BY DEF demo_range_of_motion, fast_leg_swing, joint_position, leg_position
<1>3. Agrees(motor_test) /\ Agrees(motor_torque) /\ Agrees(velocity_tuning) 
  BY DEF motor_test, motor_torque, velocity_tuning
<1>4. Agrees(motor_sin_wave) /\ Agrees(motor_torque_sin) /\ Agrees(programmable_motor_torque)
  BY DEF motor_sin_wave, motor_torque_sin, programmable_motor_torque
<1> QED
  BY <1>1, <1>2, <1>3, <1>4 DEF plugin

(* k is written, read and read onto its own widget.                        *)
Returns(p, k) == k \in p.saved \cap p.read /\ p.onto[k] = k /\ k # "lfl"

(* What a plugin sends and Save and Load bring back: all but what is Lost. *)
LEMMA AllReturn ==
  \A n \in DOMAIN plugin : plugin[n].has =>
    \A k \in plugin[n].sent : <<n, k>> \notin Lost => Returns(plugin[n], k)
<1> DEFINE Good(n, p) == p.has => \A k \in p.sent : <<n, k>> \notin Lost => Returns(p, k)
<1>1. \A n : /\ Good(n, canonical_walking) /\ Good(n, deadbeat_control) /\ Good(n, slip_walking)
             /\ Good(n, demo) /\ Good(n, stabilized_standing) /\ Good(n, force_control_demo)
  BY DEF Returns, Plugin, canonical_walking, deadbeat_control, slip_walking, demo,
         stabilized_standing, force_control_demo
<1>2. \A n : /\ Good(n, slip_hopping) /\ Good(n, slip_running) /\ Good(n, leg_position)
             /\ Good(n, motor_position) /\ Good(n, motor_position_hold_imu)
             /\ Good(n, motor_test) /\ Good(n, motor_torque)
  BY DEF Returns, Plugin, Checked, slip_hopping, slip_running, leg_position, motor_position,
         motor_position_hold_imu, motor_test, motor_torque
<1>3. \A n : /\ Good(n, motor_sin_wave) /\ Good(n, motor_torque_sin)
             /\ Good(n, programmable_motor_torque)
  BY DEF Plugin, Checked, Sending, NoParameters, motor_sin_wave, motor_torque_sin,
         programmable_motor_torque
<1>4. /\ Good("demo_range_of_motion", demo_range_of_motion)
      /\ Good("fast_leg_swing", fast_leg_swing) /\ Good("joint_position", joint_position)
      /\ Good("velocity_tuning", velocity_tuning)
  BY DEF Returns, Lost, Plugin, Checked, Sending, demo_range_of_motion, fast_leg_swing,
         joint_position, velocity_tuning
<1>5. Good("leg_sin_wave", leg_sin_wave) /\ Good("eq_point", eq_point)
  BY DEF Returns, Lost, Plugin, Checked, Sending, leg_sin_wave, eq_point
<1> HIDE DEF Good
<1>6. \A n \in DOMAIN plugin : Good(n, plugin[n])
  BY <1>1, <1>2, <1>3, <1>4, <1>5 DEF plugin
<1> QED
  BY <1>6 DEF Good

(* v is a value of n's, or nobody's.                                       *)
OwnValue(n, v) == v[1] \in {n, "junk", "status"}

(* A table of n's values.                                                  *)
TableOf(n, f) ==
  /\ f = [k \in DOMAIN f |-> f[k]]
  /\ \A k \in DOMAIN f : OwnValue(n, f[k])

UserRecord ==
  /\ user.hasty \in BOOLEAN /\ user.ticked \in BOOLEAN
  /\ user = [edits |-> user.edits, hasty |-> user.hasty, ticked |-> user.ticked,
             shown |-> user.shown, did |-> user.did]

(* What is whose: the plugins have their own values, and so does the       *)
(* server, once the child that deletes another's is done.                  *)
TablesInv ==
  /\ open \in pair \cup {"none"}
  /\ \A t \in {widget, dataOut, files} : t = [n \in pair |-> t[n]]
  /\ \A n \in pair : /\ TableOf(n, widget[n]) /\ DOMAIN widget[n] = Widgets(n)
                     /\ TableOf(n, dataOut[n]) /\ DOMAIN dataOut[n] = Widgets(n)
                     /\ TableOf(n, files[n])

Deleting == children # <<>> /\ children[1][1] = "delete"

(* The child of a user who waits.                                          *)
ChildInv ==
  \/ children = <<>>
  \/ /\ children = <<children[1]>>
     /\ children[1] = <<children[1][1], children[1][2]>>
     /\ \/ children[1][1] = "delete"
        \/ children[1][1] \in {"dump", "load"} /\ children[1][2] = open /\ open \in pair

ServerInv ==
  ~ Deleting => /\ TableOf(open, server)
                /\ open = "none" => server = Empty

(* What an update takes over.                                              *)
TickedInv ==
  user.ticked =>
    /\ open # "none"
    /\ \A k \in plugin[open].sent \ plugin[open].overwritten : dataOut[open][k] = widget[open][k]

Dumping == children # <<>> /\ children[1][1] = "dump"

(* Where Save leaves k, and what was shown as k.                           *)
Saved(n, k, v) ==
  IF Dumping /\ n = open THEN k \in DOMAIN server /\ server[k] = v
                         ELSE k \in DOMAIN files[n] /\ files[n][k] = v

(* What a Save takes over: the server has it first, and then the file.     *)
SavedInv ==
  /\ user.shown = [n \in pair |-> user.shown[n]]
  /\ \A n \in pair : user.shown[n] # Empty =>
       \A k \in plugin[n].saved \cap plugin[n].sent : Saved(n, k, user.shown[n][k])

CalmInv ==
  TablesInv /\ ChildInv /\ ServerInv /\ TickedInv /\ SavedInv /\ SavedComesBack

ParametersInv ==
  /\ pair \subseteq Names /\ UserRecord
  /\ ~ user.hasty => CalmInv

(* h is f with the values of g; h is what f has of keys.                   *)
Overlaid(h, f, g) ==
  /\ DOMAIN h = DOMAIN f \cup DOMAIN g
  /\ \A k \in DOMAIN g : h[k] = g[k]
  /\ \A k \in DOMAIN f \ DOMAIN g : h[k] = f[k]

Restricted(h, f, keys) ==
  DOMAIN h = keys \cap DOMAIN f /\ \A k \in DOMAIN h : h[k] = f[k]

(* The pages' plugins.                                                     *)
LEMMA Pages ==
  ASSUME pair \subseteq Names, NEW n \in pair
  PROVE  /\ Agrees(plugin[n]) /\ n # "none"
         /\ Widgets(n) = plugin[n].read \cup plugin[n].sent
         /\ plugin[n].has => \A k \in plugin[n].sent : <<n, k>> \notin Lost => Returns(plugin[n], k)
<1>1. n \in DOMAIN plugin
  BY DEF Names
<1> QED
  BY <1>1, Plugins, AllReturn DEF Widgets

(* Junk and the values from a status are nobody's.                         *)
LEMMA NobodysValues ==
  ASSUME NEW n
  PROVE  OwnValue(n, Junk) /\ OwnValue(n, Status)
BY DEF Junk, Status, OwnValue

(* The server's namespace after it has been deleted.                       *)
LEMMA EmptyTable == ASSUME NEW n PROVE TableOf(n, Empty) /\ DOMAIN Empty = {}
BY DEF TableOf, Empty

(* Over overwrites.                                                        *)
LEMMA Overlay ==
  ASSUME NEW n, NEW f, NEW g, TableOf(n, f), TableOf(n, g)
  PROVE  TableOf(n, Over(f, g)) /\ Overlaid(Over(f, g), f, g)
BY DEF TableOf, Over, Overlaid

(* On restricts.                                                           *)
LEMMA Restriction ==
  ASSUME NEW n, NEW f, NEW keys, TableOf(n, f)
  PROVE  TableOf(n, On(f, keys)) /\ Restricted(On(f, keys), f, keys)
BY DEF TableOf, On, Restricted

Changed(h, f, k, v) == h = [f EXCEPT ![k] = v]

(* A function that takes its values from n's table, or has v of n.         *)
LEMMA Change ==
  ASSUME NEW n, NEW f, NEW k, NEW v, NEW h, TableOf(n, f), OwnValue(n, v),
         Changed(h, f, k, v)
  PROVE  TableOf(n, h) /\ DOMAIN h = DOMAIN f
BY DEF TableOf, Changed

(* The user presses a button and has waited.                               *)
LEMMA Waits ==
  ASSUME UserRecord, NEW did, Presses(did), ~ user'.hasty
  PROVE  /\ ~ user.hasty /\ children = <<>>
         /\ user'.did = did
         /\ user'.ticked <=> did = "save" /\ user.ticked
         /\ user'.shown = IF did # "save" THEN user.shown
                          ELSE [user.shown EXCEPT ![open] = IF user.ticked THEN widget[open] ELSE Empty]
<1>1. user' = [edits |-> user.edits, hasty |-> user.hasty \/ children # <<>>,
               ticked |-> did = "save" /\ user.ticked,
               shown |-> IF did # "save" THEN user.shown
                         ELSE [user.shown EXCEPT ![open] = IF user.ticked THEN widget[open] ELSE Empty],
               did |-> did]
  BY DEF UserRecord, Presses
<1> QED
  BY <1>1 DEF UserRecord

(* What the user remembers has its type.                                   *)
LEMMA UserStep ==
  ASSUME ParametersInv, [ParamNext]_pvars
  PROVE  pair' = pair /\ UserRecord' /\ (user.hasty => user'.hasty)
<1> USE DEF ParametersInv
<1>1. ASSUME NEW k, Edit(k) PROVE pair' = pair /\ UserRecord' /\ (user.hasty => user'.hasty)
  BY <1>1 DEF UserRecord, Edit
<1>2. ASSUME NEW held, guiUpdate(held) PROVE pair' = pair /\ UserRecord' /\ (user.hasty => user'.hasty)
  BY <1>2 DEF UserRecord, guiUpdate
<1>3. ASSUME NEW did, Presses(did) PROVE UserRecord' /\ (user.hasty => user'.hasty)
  BY <1>3 DEF UserRecord, Presses
<1>4. ASSUME NEW i, rosparam(i) PROVE pair' = pair /\ UserRecord' /\ (user.hasty => user'.hasty)
  BY <1>4 DEF UserRecord, rosparam
<1> QED
  BY <1>1, <1>2, <1>3, <1>4
     DEF ParamNext, save_parameters, load_parameters, switch_tab, UserRecord, pvars

-----------------------------------------------------------------------------
(* A widget is edited.                                                     *)
LEMMA EditStep ==
  ASSUME ParametersInv, NEW k, Edit(k)
  PROVE  CalmInv'
<1>1. /\ CalmInv /\ ~ user.hasty /\ open \in pair /\ k \in plugin[open].sent
      /\ Agrees(plugin[open]) /\ k \in Widgets(open)
  BY Pages DEF ParametersInv, Edit, CalmInv, TablesInv
<1> DEFINE v == <<open, user.edits + 1>>
<1>2. /\ widget' = [widget EXCEPT ![open] = [widget[open] EXCEPT ![k] = v]]
      /\ UNCHANGED <<pair, open, dataOut, server, files, children>>
  BY DEF Edit
<1>3. ~ user'.ticked /\ user'.shown = user.shown
      /\ user'.did = "none"
  BY DEF ParametersInv, UserRecord, Edit
<1>4. OwnValue(open, v)
  BY DEF OwnValue
<1> HIDE DEF v
<1>5. /\ widget' = [n \in pair |-> widget'[n]]
      /\ \A n \in pair : n # open => widget'[n] = widget[n]
      /\ Changed(widget'[open], widget[open], k, v)
  BY <1>1, <1>2 DEF CalmInv, TablesInv, Changed
<1>6. TableOf(open, widget'[open]) /\ DOMAIN widget'[open] = Widgets(open)
  <2>1. TableOf(open, widget[open]) /\ DOMAIN widget[open] = Widgets(open)
    BY <1>1 DEF CalmInv, TablesInv
  <2>2. TableOf(open, widget'[open]) /\ DOMAIN widget'[open] = DOMAIN widget[open]
    BY <1>4, <1>5, <2>1, Change
  <2> QED
    BY <2>1, <2>2
<1>7. TablesInv'
  BY <1>1, <1>2, <1>3, <1>5, <1>6 DEF CalmInv, TablesInv
<1>8. ChildInv' /\ ServerInv'
  BY <1>1, <1>2 DEF CalmInv, ChildInv, ServerInv, Deleting
<1>9. TickedInv' /\ SavedInv' /\ SavedComesBack'
  BY <1>1, <1>2, <1>3 DEF CalmInv, TickedInv, SavedInv, Saved, Dumping, SavedComesBack
<1> QED
  BY <1>7, <1>8, <1>9 DEF CalmInv

(* The widgets are copied to the message.                                  *)
LEMMA guiUpdateStep ==
  ASSUME ParametersInv, NEW held, guiUpdate(held), ~ user'.hasty
  PROVE  CalmInv'
<1> DEFINE p == plugin[open]
           w == [k \in DOMAIN widget[open] |->
                   IF k \in p.status \/ (held /\ k \in p.held) THEN Status ELSE widget[open][k]]
<1>1. /\ CalmInv /\ ~ user.hasty /\ open \in pair /\ open # "none" /\ Agrees(p)
      /\ Widgets(open) = p.read \cup p.sent
  BY UserStep, Pages DEF ParametersInv, guiUpdate, CalmInv, TablesInv, ParamNext, UserRecord
<1>2. /\ widget' = [widget EXCEPT ![open] = w]
      /\ dataOut' = [dataOut EXCEPT ![open] = Over(dataOut[open], On(w, p.sent))]
      /\ UNCHANGED <<pair, open, server, files, children>>
  BY DEF guiUpdate
<1>3. user'.shown = user.shown /\ user'.did = "none"
  BY DEF ParametersInv, UserRecord, guiUpdate
<1>4. TableOf(open, w) /\ DOMAIN w = Widgets(open)
  BY <1>1, NobodysValues DEF CalmInv, TablesInv, TableOf
<1> HIDE DEF w
<1> DEFINE d == Over(dataOut[open], On(w, p.sent))
<1>5. /\ TableOf(open, On(w, p.sent)) /\ DOMAIN On(w, p.sent) = p.sent
      /\ \A k \in p.sent : On(w, p.sent)[k] = w[k]
  <2>1. p.sent \cap DOMAIN w = p.sent
    BY <1>1, <1>4
  <2>2. TableOf(open, On(w, p.sent)) /\ Restricted(On(w, p.sent), w, p.sent)
    BY <1>4, Restriction
  <2> QED
    BY <2>1, <2>2 DEF Restricted
<1>6. /\ TableOf(open, d) /\ DOMAIN d = Widgets(open)
      /\ \A k \in p.sent : d[k] = w[k]
  <2>1. TableOf(open, dataOut[open]) /\ DOMAIN dataOut[open] = Widgets(open)
    BY <1>1 DEF CalmInv, TablesInv
  <2>2. TableOf(open, d) /\ Overlaid(d, dataOut[open], On(w, p.sent))
    BY <1>5, <2>1, Overlay
  <2> HIDE DEF d, p
  <2> QED
    BY <1>1, <1>5, <2>1, <2>2 DEF Overlaid
<1> HIDE DEF d, p
<1>7. /\ widget' = [n \in pair |-> widget'[n]] /\ dataOut' = [n \in pair |-> dataOut'[n]]
      /\ \A n \in pair : n # open => widget'[n] = widget[n] /\ dataOut'[n] = dataOut[n]
      /\ widget'[open] = w /\ dataOut'[open] = d
  BY <1>1, <1>2 DEF CalmInv, TablesInv, d
<1>8. TablesInv'
  BY <1>1, <1>2, <1>3, <1>4, <1>6, <1>7 DEF CalmInv, TablesInv
<1>9. ChildInv' /\ ServerInv'
  BY <1>1, <1>2 DEF CalmInv, ChildInv, ServerInv, Deleting
<1>10. TickedInv'
  BY <1>1, <1>2, <1>6, <1>7 DEF TickedInv, p
<1>11. SavedInv' /\ SavedComesBack'
  BY <1>1, <1>2, <1>3 DEF CalmInv, SavedInv, Saved, Dumping, SavedComesBack
<1> QED
  BY <1>8, <1>9, <1>10, <1>11 DEF CalmInv

(* A child of a user who has waited is the only one.                       *)
LEMMA FirstChild ==
  ASSUME NEW c, NEW s, s = Append(<<>>, c)
  PROVE  s # <<>> /\ s[1] = c /\ s = <<s[1]>>
OBVIOUS

(* The parameters are written, and the file is to be.                      *)
LEMMA saveStep ==
  ASSUME ParametersInv, save_parameters, ~ user'.hasty
  PROVE  CalmInv'
<1> DEFINE p == plugin[open]
           s == Over(server, On(dataOut[open], p.saved))
           d == Over(dataOut[open], On(server, p.overwritten))
<1>1. /\ CalmInv /\ children = <<>> /\ user'.did = "save"
      /\ user'.ticked <=> user.ticked
      /\ user'.shown = [user.shown EXCEPT ![open] = IF user.ticked THEN widget[open] ELSE Empty]
  BY Waits DEF ParametersInv, save_parameters
<1>2. /\ open \in pair /\ open # "none" /\ Agrees(p)
      /\ Widgets(open) = p.read \cup p.sent
  BY <1>1, Pages DEF ParametersInv, save_parameters, CalmInv, TablesInv
<1>3. /\ server' = s /\ dataOut' = [dataOut EXCEPT ![open] = d]
      /\ children' = Append(<<>>, <<"dump", open>>)
      /\ UNCHANGED <<pair, open, widget, files>>
  BY <1>1 DEF save_parameters, setParameters
<1>4. /\ TableOf(open, server) /\ TableOf(open, dataOut[open])
      /\ DOMAIN dataOut[open] = Widgets(open)
  BY <1>1, <1>2 DEF CalmInv, TablesInv, ServerInv, Deleting
<1>5. /\ TableOf(open, s) /\ p.saved \subseteq DOMAIN s
      /\ \A k \in p.saved : s[k] = dataOut[open][k]
  <2> DEFINE r == On(dataOut[open], p.saved)
  <2>1. TableOf(open, r) /\ Restricted(r, dataOut[open], p.saved)
    BY <1>4, Restriction
  <2>2. p.saved \cap DOMAIN dataOut[open] = p.saved
    BY <1>2, <1>4 DEF Agrees
  <2> HIDE DEF r
  <2>3. TableOf(open, Over(server, r)) /\ Overlaid(Over(server, r), server, r)
    BY <1>4, <2>1, Overlay
  <2>4. /\ p.saved \subseteq DOMAIN Over(server, r)
        /\ \A k \in p.saved : Over(server, r)[k] = dataOut[open][k]
    BY <2>1, <2>2, <2>3 DEF Overlaid, Restricted
  <2> QED
    BY <2>3, <2>4 DEF r
<1>6. /\ TableOf(open, d) /\ DOMAIN d = Widgets(open)
      /\ \A k \in Widgets(open) \ p.overwritten : d[k] = dataOut[open][k]
  <2> DEFINE r == On(server, p.overwritten)
  <2>1. TableOf(open, r) /\ Restricted(r, server, p.overwritten)
    BY <1>4, Restriction
  <2> HIDE DEF r
  <2>2. TableOf(open, Over(dataOut[open], r)) /\ Overlaid(Over(dataOut[open], r), dataOut[open], r)
    BY <1>4, <2>1, Overlay
  <2>3. p.overwritten \subseteq Widgets(open)
    BY <1>2 DEF Agrees
  <2>4. /\ DOMAIN Over(dataOut[open], r) = Widgets(open)
        /\ \A k \in Widgets(open) \ p.overwritten : Over(dataOut[open], r)[k] = dataOut[open][k]
    BY <1>4, <2>1, <2>2, <2>3 DEF Overlaid, Restricted
  <2> QED
    BY <2>2, <2>4 DEF r
<1>7. p.saved \cap p.overwritten = {} /\ p.sent \subseteq Widgets(open)
  BY <1>2 DEF Agrees
<1> HIDE DEF s, d, p
<1>8. /\ dataOut' = [n \in pair |-> dataOut'[n]] /\ dataOut'[open] = d
      /\ \A n \in pair : n # open => dataOut'[n] = dataOut[n]
  BY <1>1, <1>2, <1>3 DEF CalmInv, TablesInv
<1>9. children' # <<>> /\ children'[1] = <<"dump", open>> /\ children' = <<children'[1]>>
      /\ children'[1][1] = "dump" /\ children'[1][2] = open
  <2>1. children' # <<>> /\ children'[1] = <<"dump", open>> /\ children' = <<children'[1]>>
    BY <1>3, FirstChild
  <2> QED
    BY <2>1
<1>10. TablesInv'
  BY <1>1, <1>2, <1>3, <1>6, <1>8 DEF CalmInv, TablesInv
<1>11. ChildInv' /\ ServerInv'
  BY <1>1, <1>2, <1>3, <1>5, <1>9 DEF CalmInv, ChildInv, ServerInv, Deleting, p
<1>12. TickedInv'
  <2>1. user'.ticked => \A k \in p.sent \ p.overwritten :
          dataOut'[open][k] = dataOut[open][k] /\ dataOut[open][k] = widget[open][k]
    BY <1>1, <1>6, <1>7, <1>8 DEF CalmInv, TickedInv, p
  <2> QED
    BY <1>2, <1>3, <2>1 DEF TickedInv, p
<1>13. SavedInv'
  <2>1. /\ user'.shown = [n \in pair |-> user'.shown[n]]
        /\ \A n \in pair : n # open => user'.shown[n] = user.shown[n]
        /\ user'.shown[open] = IF user.ticked THEN widget[open] ELSE Empty
    BY <1>1, <1>2 DEF CalmInv, SavedInv
  <2>2. user'.shown[open] # Empty => \A k \in p.saved \cap p.sent :
          k \in DOMAIN server' /\ server'[k] = user'.shown[open][k]
    BY <1>1, <1>3, <1>5, <1>7, <2>1 DEF CalmInv, TickedInv, p
  <2>3. \A n \in pair : n # open /\ user.shown[n] # Empty =>
          \A k \in plugin[n].saved \cap plugin[n].sent :
            k \in DOMAIN files[n] /\ files[n][k] = user.shown[n][k]
    BY <1>1 DEF CalmInv, SavedInv, Saved, Dumping
  <2>4. ASSUME NEW n \in pair, user'.shown[n] # Empty,
               NEW k \in plugin[n].saved \cap plugin[n].sent, NEW v, v = user'.shown[n][k]
        PROVE  Saved(n, k, v)'
    <3>1. CASE n = open
      <4>1. k \in DOMAIN server' /\ server'[k] = v
        BY <2>2, <2>4, <3>1 DEF p
      <4> QED
        BY <1>3, <1>9, <3>1, <4>1 DEF Saved, Dumping
    <3>2. CASE n # open
      <4>1. k \in DOMAIN files[n] /\ files[n][k] = v
        BY <2>1, <2>3, <2>4, <3>2
      <4> QED
        BY <1>3, <3>2, <4>1 DEF Saved
    <3> QED
      BY <3>1, <3>2
  <2> QED
    BY <1>3, <2>1, <2>4 DEF SavedInv
<1>14. SavedComesBack'
  BY <1>1 DEF SavedComesBack
<1> QED
  BY <1>10, <1>11, <1>12, <1>13, <1>14 DEF CalmInv

(* What Load reads is the plugin's own, and the server's where the server  *)
(* has it.                                                                 *)
LEMMA Reads ==
  ASSUME NEW n, NEW p, NEW out, Agrees(p), TableOf(n, out), TableOf(n, server),
         p.read \subseteq DOMAIN out
  PROVE  /\ TableOf(n, getParameters(p, out)) /\ DOMAIN getParameters(p, out) \subseteq p.read
         /\ \A k \in p.read \cap DOMAIN server :
              p.onto[k] = k /\ k # "lfl" =>
                k \in DOMAIN getParameters(p, out) /\ getParameters(p, out)[k] = server[k]
<1> DEFINE from(w) == IF \E k \in p.read : k # w /\ p.onto[k] = w
                      THEN CHOOSE k \in p.read : k # w /\ p.onto[k] = w ELSE w
           W == {p.onto[k] : k \in p.read}
           g == [w \in W |-> getParam(p, from(w), out)]
<1>1. getParameters(p, out) = g
  BY DEF getParameters
<1>2. W \subseteq p.read
  BY DEF Agrees
<1>3. \A w \in W : from(w) \in p.read
  BY <1>2
<1>4. \A k \in p.read : p.onto[k] = k /\ k # "lfl" => k \in W /\ from(k) = k
  BY DEF Agrees
<1> HIDE DEF from, W
<1>5. \A k \in p.read : OwnValue(n, getParam(p, k, out))
  BY NobodysValues DEF getParam, TableOf
<1>6. TableOf(n, g) /\ DOMAIN g \subseteq p.read
  BY <1>2, <1>3, <1>5 DEF TableOf
<1>7. \A k \in p.read \cap DOMAIN server : p.onto[k] = k /\ k # "lfl" => k \in DOMAIN g /\ g[k] = server[k]
  BY <1>4 DEF getParam
<1> QED
  BY <1>1, <1>6, <1>7

(* The widgets are set from the server, and the file is to be loaded.      *)
LEMMA loadStep ==
  ASSUME ParametersInv, load_parameters, ~ user'.hasty
  PROVE  CalmInv'
<1> DEFINE p   == plugin[open]
           out == dataOut[open]
           g   == getParameters(p, out)
           w   == Over(widget[open], g)
           d   == [k \in DOMAIN out |-> IF k \in p.read \ p.raw THEN getParam(p, k, out) ELSE out[k]]
           again == On(server, DOMAIN files[open]) = files[open]
<1>1. /\ CalmInv /\ children = <<>>
      /\ user'.did = "again" => again
      /\ ~ user'.ticked /\ user'.shown = user.shown
  BY Waits DEF ParametersInv, load_parameters
<1>2. /\ open \in pair /\ open # "none" /\ Agrees(p)
      /\ Widgets(open) = p.read \cup p.sent
  BY <1>1, Pages DEF ParametersInv, load_parameters, CalmInv, TablesInv
<1>3. /\ widget' = [widget EXCEPT ![open] = w] /\ dataOut' = [dataOut EXCEPT ![open] = d]
      /\ children' = Append(<<>>, <<"load", open>>)
      /\ UNCHANGED <<pair, open, server, files>>
  BY <1>1, <1>2 DEF load_parameters, CalmInv, TablesInv
<1>4. /\ TableOf(open, server) /\ TableOf(open, out) /\ DOMAIN out = Widgets(open)
      /\ TableOf(open, widget[open]) /\ DOMAIN widget[open] = Widgets(open)
  BY <1>1, <1>2 DEF CalmInv, TablesInv, ServerInv, Deleting
<1>5. TableOf(open, d) /\ DOMAIN d = Widgets(open)
  <2>1. \A k \in DOMAIN out : OwnValue(open, d[k])
    BY <1>4, NobodysValues DEF TableOf, getParam
  <2> QED
    BY <1>4, <2>1 DEF TableOf
<1>6. /\ TableOf(open, g) /\ DOMAIN g \subseteq p.read
      /\ \A k \in p.read \cap DOMAIN server :
           p.onto[k] = k /\ k # "lfl" => k \in DOMAIN g /\ g[k] = server[k]
  <2>1. p.read \subseteq DOMAIN out
    BY <1>2, <1>4
  <2> HIDE DEF out, p
  <2> QED
    BY <1>2, <1>4, <2>1, Reads
<1> HIDE DEF g, d, out
<1>7. TableOf(open, w) /\ Overlaid(w, widget[open], g)
  BY <1>4, <1>6, Overlay
<1> HIDE DEF w, p
<1>8. DOMAIN w = Widgets(open)
  BY <1>2, <1>4, <1>6, <1>7 DEF Overlaid
<1>9. /\ widget' = [n \in pair |-> widget'[n]] /\ dataOut' = [n \in pair |-> dataOut'[n]]
      /\ widget'[open] = w /\ dataOut'[open] = d
      /\ \A n \in pair : n # open => widget'[n] = widget[n] /\ dataOut'[n] = dataOut[n]
  BY <1>1, <1>2, <1>3 DEF CalmInv, TablesInv
<1>10. children' # <<>> /\ children'[1] = <<"load", open>> /\ children' = <<children'[1]>>
       /\ children'[1][1] = "load" /\ children'[1][2] = open
  <2>1. children' # <<>> /\ children'[1] = <<"load", open>> /\ children' = <<children'[1]>>
    BY <1>3, FirstChild
  <2> QED
    BY <2>1
<1>11. TablesInv'
  BY <1>1, <1>2, <1>3, <1>5, <1>7, <1>8, <1>9 DEF CalmInv, TablesInv
<1>12. ChildInv' /\ ServerInv'
  BY <1>1, <1>2, <1>3, <1>4, <1>10 DEF CalmInv, ChildInv, ServerInv, Deleting
<1>13. TickedInv' /\ SavedInv'
  <2>1. TickedInv'
    BY <1>1 DEF TickedInv
  <2>2. SavedInv'
    BY <1>1, <1>3, <1>10 DEF CalmInv, SavedInv, Saved, Dumping
  <2> QED
    BY <2>1, <2>2
<1>14. \A k \in p.sent : <<open, k>> \notin Lost => Returns(p, k)
  BY <1>2, Pages DEF ParametersInv, load_parameters, p
<1>15. SavedComesBack'
  <2> SUFFICES ASSUME user'.did = "again", user.shown[open] # Empty,
                      NEW k \in p.sent, <<open, k>> \notin Lost
               PROVE  widget'[open][k] = user.shown[open][k]
    BY <1>1, <1>3 DEF SavedComesBack, p
  <2>1. k \in p.saved \cap p.sent \cap p.read /\ p.onto[k] = k /\ k # "lfl"
    BY <1>14 DEF Returns
  <2>2. k \in DOMAIN files[open] /\ files[open][k] = user.shown[open][k]
    BY <1>1, <1>2, <2>1 DEF CalmInv, SavedInv, Saved, Dumping, p
  <2>3. Restricted(files[open], server, DOMAIN files[open])
    <3>1. Restricted(On(server, DOMAIN files[open]), server, DOMAIN files[open])
      BY <1>4, Restriction
    <3> QED
      BY <1>1, <3>1
  <2>4. k \in DOMAIN server /\ files[open][k] = server[k]
    BY <2>2, <2>3 DEF Restricted
  <2>5. k \in DOMAIN g /\ g[k] = server[k]
    BY <1>6, <2>1, <2>4
  <2> QED
    BY <1>7, <1>9, <2>2, <2>4, <2>5 DEF Overlaid
<1> QED
  BY <1>11, <1>12, <1>13, <1>15 DEF CalmInv

(* Another page is shown, and the parameters are to be deleted.            *)
LEMMA switchStep ==
  ASSUME ParametersInv, NEW n \in pair \cup {"none"}, switch_tab(n), ~ user'.hasty
  PROVE  CalmInv'
<1>1. /\ CalmInv /\ children = <<>> /\ user'.did = "switch"
      /\ ~ user'.ticked /\ user'.shown = user.shown
  BY Waits DEF ParametersInv, switch_tab
<1>2. /\ open' = n /\ UNCHANGED <<pair, widget, dataOut, server, files>>
      /\ children' = IF server # Empty THEN Append(<<>>, <<"delete", open>>) ELSE <<>>
  BY <1>1 DEF switch_tab, takedown_current_controller
<1>3. TablesInv'
  BY <1>1, <1>2 DEF CalmInv, TablesInv
<1>4. TickedInv' /\ SavedComesBack'
  BY <1>1 DEF TickedInv, SavedComesBack
<1>5. CASE server = Empty
  <2>1. children' = <<>> /\ TableOf(n, server)
    BY <1>2, <1>5, EmptyTable
  <2>2. ChildInv' /\ ServerInv'
    BY <1>1, <1>2, <1>5, <2>1 DEF CalmInv, ChildInv, ServerInv
  <2>3. SavedInv'
    BY <1>1, <1>2, <2>1 DEF CalmInv, SavedInv, Saved, Dumping
  <2> QED
    BY <1>3, <1>4, <2>2, <2>3 DEF CalmInv
<1>6. CASE server # Empty
  <2>1. children' # <<>> /\ children'[1] = <<"delete", open>> /\ children' = <<children'[1]>>
    BY <1>2, <1>6, FirstChild
  <2>2. children'[1][1] = "delete" /\ children'[1][2] = open
    BY <2>1
  <2>3. ChildInv' /\ ServerInv'
    BY <1>1, <1>2, <2>1, <2>2 DEF CalmInv, ChildInv, ServerInv, Deleting
  <2>4. SavedInv'
    BY <1>1, <1>2, <2>1, <2>2 DEF CalmInv, SavedInv, Saved, Dumping
  <2> QED
    BY <1>3, <1>4, <2>3, <2>4 DEF CalmInv
<1> QED
  BY <1>5, <1>6

(* The child is done.                                                      *)
LEMMA rosparamStep ==
  ASSUME ParametersInv, NEW i \in 1..Len(children), rosparam(i), ~ user'.hasty
  PROVE  CalmInv'
<1>1. CalmInv /\ UNCHANGED <<pair, open, widget, dataOut>>
      /\ user'.ticked = user.ticked /\ user'.shown = user.shown /\ user'.did = "none"
  BY DEF ParametersInv, UserRecord, rosparam
<1>2. children # <<>> /\ children = <<children[1]>> /\ i = 1
  <2>1. children # <<>>
    OBVIOUS
  <2>2. children = <<children[1]>>
    BY <1>1, <2>1 DEF CalmInv, ChildInv
  <2> DEFINE c == children[1]
  <2>3. children = <<c>>
    BY <2>2
  <2> HIDE DEF c
  <2>4. Len(children) = 1
    BY <2>3
  <2>5. i = 1
    BY <2>4
  <2> QED
    BY <2>1, <2>2, <2>5
<1>3. children' = <<>>
  <2> DEFINE c == children[1]
  <2>1. children' = SubSeq(<<c>>, 1, 0) \o SubSeq(<<c>>, 2, 1)
    <3>1. Len(children) = 1
      BY <1>2
    <3> QED
      BY <1>2, <3>1 DEF rosparam, Finish
  <2>2. SubSeq(<<c>>, 1, 0) = <<>> /\ SubSeq(<<c>>, 2, 1) = <<>>
    OBVIOUS
  <2>3. <<>> \o <<>> = <<>>
    OBVIOUS
  <2> QED
    BY <2>1, <2>2, <2>3
<1>4. SavedComesBack'
  BY <1>1 DEF SavedComesBack
<1>5. ChildInv' /\ TickedInv' /\ ~ Deleting' /\ ~ Dumping'
  BY <1>1, <1>3 DEF CalmInv, ChildInv, TickedInv, Deleting, Dumping
<1>6. CASE Dump(1)
  <2>1. /\ children[1][1] = "dump" /\ server' = server /\ open \in pair /\ children[1][2] = open
        /\ ~ Deleting /\ TableOf(open, server)
    BY <1>1, <1>2, <1>6 DEF Dump, CalmInv, ChildInv, ServerInv, Deleting
  <2>2. files' = IF server = Empty THEN files ELSE [files EXCEPT ![open] = server]
    BY <1>2, <1>6, <2>1 DEF Dump
  <2>3. /\ files' = [n \in pair |-> files'[n]]
        /\ \A n \in pair : n # open => files'[n] = files[n]
        /\ server # Empty => files'[open] = server
        /\ server = Empty => files'[open] = files[open]
    BY <1>1, <2>1, <2>2 DEF CalmInv, TablesInv
  <2>4. TablesInv' /\ ServerInv'
    BY <1>1, <1>5, <2>1, <2>2, <2>3 DEF CalmInv, TablesInv, ServerInv
  <2>5. \A n \in pair : user.shown[n] # Empty =>
          \A k \in plugin[n].saved \cap plugin[n].sent :
            k \in DOMAIN files'[n] /\ files'[n][k] = user.shown[n][k]
    <3> SUFFICES ASSUME NEW n \in pair, user.shown[n] # Empty,
                        NEW k \in plugin[n].saved \cap plugin[n].sent
                 PROVE  k \in DOMAIN files'[n] /\ files'[n][k] = user.shown[n][k]
      OBVIOUS
    <3>1. Saved(n, k, user.shown[n][k])
      BY <1>1 DEF CalmInv, SavedInv
    <3>2. CASE n = open
      <4>1. k \in DOMAIN server /\ server[k] = user.shown[open][k]
        BY <1>2, <2>1, <3>1, <3>2 DEF Saved, Dumping
      <4>2. server # Empty
        BY <4>1, EmptyTable
      <4> QED
        BY <2>3, <3>2, <4>1, <4>2
    <3>3. CASE n # open
      BY <2>3, <3>1, <3>3 DEF Saved
    <3> QED
      BY <3>2, <3>3
  <2>6. SavedInv'
    <3>1. user'.shown = [n \in pair' |-> user'.shown[n]]
      BY <1>1 DEF CalmInv, SavedInv
    <3> QED
      BY <1>1, <1>5, <2>5, <3>1 DEF SavedInv, Saved
  <2> QED
    BY <1>4, <1>5, <2>4, <2>6 DEF CalmInv
<1>7. CASE LoadFile(1)
  <2>1. /\ children[1][1] = "load" /\ files' = files /\ open \in pair /\ children[1][2] = open
        /\ server' = Over(server, files[open]) /\ ~ Deleting /\ TableOf(open, server)
        /\ open # "none" /\ TableOf(open, files[open])
    BY <1>1, <1>2, <1>7, Pages
       DEF LoadFile, CalmInv, ChildInv, ServerInv, Deleting, TablesInv, ParametersInv
  <2>2. TableOf(open, server')
    BY <2>1, Overlay
  <2>3. TablesInv' /\ ServerInv'
    BY <1>1, <1>3, <2>1, <2>2 DEF CalmInv, TablesInv, ServerInv
  <2>4. SavedInv'
    BY <1>1, <1>2, <1>5, <2>1 DEF CalmInv, SavedInv, Saved, Dumping
  <2> QED
    BY <1>4, <1>5, <2>3, <2>4 DEF CalmInv
<1>8. CASE Delete(1)
  <2>1. files' = files /\ server' = Empty /\ Deleting
    BY <1>2, <1>8 DEF Delete, Deleting
  <2>2. TablesInv' /\ ServerInv'
    BY <1>1, <1>3, <2>1, EmptyTable DEF CalmInv, TablesInv, ServerInv
  <2>3. SavedInv'
    BY <1>1, <1>2, <1>5, <2>1 DEF CalmInv, SavedInv, Saved, Dumping, Deleting
  <2> QED
    BY <1>4, <1>5, <2>2, <2>3 DEF CalmInv
<1> QED
  BY <1>2, <1>6, <1>7, <1>8 DEF rosparam

-----------------------------------------------------------------------------
(* No plugin has a tab at first.                                           *)
LEMMA ParametersStart == ParamInit => ParametersInv
<1> SUFFICES ASSUME ParamInit PROVE ParametersInv
  OBVIOUS
<1>1. pair \subseteq Names
  BY PairAssumption DEF ParamInit
<1>2. /\ open = "none" /\ children = <<>> /\ server = Empty
      /\ widget = [n \in pair |-> [k \in Widgets(n) |-> <<n, 0>>]]
      /\ dataOut = widget /\ files = [n \in pair |-> Empty]
      /\ user = [edits |-> 0, hasty |-> FALSE, ticked |-> FALSE,
                 shown |-> [n \in pair |-> Empty], did |-> "none"]
  BY DEF ParamInit
<1>3. UserRecord /\ ~ user.ticked /\ user.shown = [n \in pair |-> Empty] /\ user.did = "none"
  BY <1>2 DEF UserRecord
<1>4. \A n \in pair : TableOf(n, widget[n]) /\ DOMAIN widget[n] = Widgets(n) /\ files[n] = Empty
  BY <1>2 DEF TableOf, OwnValue
<1>5. TablesInv
  BY <1>2, <1>4, EmptyTable DEF TablesInv
<1>6. ChildInv /\ ServerInv /\ TickedInv /\ SavedInv /\ SavedComesBack
  BY <1>2, <1>3, <1>4, EmptyTable DEF ChildInv, ServerInv, TickedInv, SavedInv, SavedComesBack
<1> QED
  BY <1>1, <1>3, <1>5, <1>6 DEF ParametersInv, CalmInv

(* Every step preserves the invariant.                                     *)
LEMMA ParametersStep == ParametersInv /\ [ParamNext]_pvars => ParametersInv'
<1> SUFFICES ASSUME ParametersInv, [ParamNext]_pvars PROVE ParametersInv'
  OBVIOUS
<1>1. pair' = pair /\ UserRecord' /\ (user.hasty => user'.hasty)
  BY UserStep
<1>2. ASSUME ~ user'.hasty PROVE CalmInv'
  <2>1. CASE UNCHANGED pvars
    BY <1>1, <1>2, <2>1 DEF ParametersInv, CalmInv, TablesInv, ChildInv, ServerInv, TickedInv,
                            SavedInv, Saved, Dumping, SavedComesBack, Deleting, pvars
  <2>2. CASE ParamNext
    BY <1>2, <2>2, EditStep, guiUpdateStep, saveStep, loadStep, switchStep, rosparamStep
       DEF ParamNext
  <2> QED
    BY <2>1, <2>2
<1> QED
  BY <1>1, <1>2 DEF ParametersInv

(* For any two plugins and any number of edits and children, as long as    *)
(* the user waits for the children: what was shown when Save was pressed   *)
(* is shown again by a Load with the file on the server, but for the       *)
(* parameters named Lost, and it is nobody else's.                         *)
THEOREM ParametersAreKept == ParamSpec => []ParametersKept
<1>1. ParametersInv => ParametersKept
  <2> SUFFICES ASSUME ParametersInv PROVE ParametersKept
    OBVIOUS
  <2>1. SavedComesBack
    BY DEF ParametersInv, CalmInv, SavedComesBack
  <2>2. NoForeignParameters
    BY DEF ParametersInv, CalmInv, TablesInv, NoForeignParameters, TableOf, OwnValue
  <2> QED
    BY <2>1, <2>2 DEF ParametersKept
<1> QED
  BY <1>1, ParametersStart, ParametersStep, PTL DEF ParamSpec
=============================================================================
