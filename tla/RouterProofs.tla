----------------------------- MODULE RouterProofs -----------------------------
(* What the console does to the routers and the nodes.  For any rules,     *)
(* nodes and number of requests at the same time: a node whose syncs are   *)
(* over and that missed none drops what the active rules say it drops.     *)
(* For any nodes, jobs and hands on them: a script of a mesh job adds, and *)
(* what it is refused it puts back.  For any set of failures, any window   *)
(* and any list of boxes: an operator's failure is never swallowed, and    *)
(* what a drill leaves behind undoes itself.  For any applications, peers  *)
(* and routers: what the peering records say is deployed is deployed,      *)
(* unless two requests for one peer crossed.                               *)
EXTENDS Mitigation, Routers, Drills, Peering, FiniteSetTheorems, SequenceTheorems, TLAPS

------------------------------------------------------------------------------
(* Failures of operations.                                                 *)

OpInv == OpTypeOK /\ NoSilentFailure

LEMMA OpInitInv == OpInit => OpInv
  BY OpFailuresAssumption DEF OpInit, OpInv, OpTypeOK, NoSilentFailure, Statuses

(* Storing a failure leaves two stores, whichever of them took it.         *)
LEMMA AddType ==
  ASSUME OpTypeOK, NEW f \in Failures, add(f)
  PROVE  opRows' \in [Failures -> Statuses] /\ opRing' \in [Failures -> Statuses]
  BY DEF OpTypeOK, add, Reopened, Statuses

(* A card goes to the error channel, whether or not the group gets it too. *)
LEMMA CardToldErrors ==
  ASSUME OpTypeOK, NEW f \in Failures, NEW e \in BOOLEAN, sendOpFailureCard(f, e)
  PROVE  /\ opCards' \in [Failures -> SUBSET {"errors", "group"}]
         /\ "errors" \in opCards'[f]
         /\ \A g \in Failures \ {f} : opCards'[g] = opCards[g]
  BY DEF OpTypeOK, sendOpFailureCard

LEMMA RecordKeepsInv ==
  ASSUME OpInv, NEW f \in Failures, recordOpFailure(f)
  PROVE  OpInv'
<1> USE DEF OpInv, OpTypeOK
<1>1. opRows' \in [Failures -> Statuses] /\ opRing' \in [Failures -> Statuses]
  BY AddType DEF recordOpFailure
<1>2. opLast' = [opLast EXCEPT ![f] = 0] /\ opLast' \in [Failures -> 0 .. NotifyWindow]
  BY OpFailuresAssumption DEF recordOpFailure
<1>3. CASE ~opFailureShouldNotify(f)
  <2>1. UNCHANGED <<triages, opCards>>
    BY <1>3 DEF recordOpFailure
  <2>2. opLast[f] < NotifyWindow
    BY <1>3, OpFailuresAssumption DEF opFailureShouldNotify
  <2> QED BY <1>1, <1>2, <2>1, <2>2 DEF NoSilentFailure
<1>4. CASE opFailureShouldNotify(f)
  <2>1. triageOpFailure(f)
    BY <1>4 DEF recordOpFailure
  <2>2. CASE \E e \in BOOLEAN : sendOpFailureCard(f, e) /\ UNCHANGED triages
    BY <1>1, <1>2, <2>2, CardToldErrors DEF NoSilentFailure
  <2>3. CASE triages' = triages \cup {f} /\ opCards' = [opCards EXCEPT ![f] = {}]
    BY <1>1, <1>2, <2>3 DEF NoSilentFailure
  <2> QED BY <2>1, <2>2, <2>3 DEF triageOpFailure
<1> QED BY <1>3, <1>4

LEMMA TriagedKeepsInv ==
  ASSUME OpInv, NEW f \in Failures, triaged(f)
  PROVE  OpInv'
<1>1. PICK e \in BOOLEAN : sendOpFailureCard(f, ~e)
  BY DEF triaged
<1>2. (~e) \in BOOLEAN
  OBVIOUS
<1> QED
  BY <1>1, <1>2, CardToldErrors DEF triaged, OpInv, OpTypeOK, NoSilentFailure

LEMMA OpStepInv == OpInv /\ [OpNext]_opVars => OpInv'
<1> SUFFICES ASSUME OpInv, [OpNext]_opVars PROVE OpInv'
  OBVIOUS
<1>1. CASE \E f \in Failures : recordOpFailure(f)
  BY <1>1, RecordKeepsInv
<1>2. CASE \E f \in Failures : triaged(f)
  BY <1>2, TriagedKeepsInv
<1>3. CASE \E f \in Failures : dismiss(f)
  BY <1>3 DEF dismiss, OpInv, OpTypeOK, NoSilentFailure, Statuses
<1>4. CASE opClock
  BY <1>4, OpFailuresAssumption DEF opClock, OpInv, OpTypeOK, NoSilentFailure
<1>5. CASE OpRestart
  BY <1>5, OpFailuresAssumption DEF OpRestart, OpInv, OpTypeOK, NoSilentFailure, Statuses
<1>6. CASE UNCHANGED opVars
  BY <1>6 DEF opVars, OpInv, OpTypeOK, NoSilentFailure
<1> QED BY <1>1, <1>2, <1>3, <1>4, <1>5, <1>6 DEF OpNext

(* What recordOpFailure remembers as told has reached the error channel or *)
(* is with the assistant, for any failures and any window.                 *)
THEOREM FailuresAreTold == OpSpec => []NoSilentFailure
<1>1. OpInv => NoSilentFailure
  BY DEF OpInv
<1> QED BY <1>1, OpInitInv, OpStepInv, PTL DEF OpSpec

------------------------------------------------------------------------------
(* Drills.  The blackout flag of a drill that the backend survives is set  *)
(* from the end of the loading until the burners of the first recovery are *)
(* killed; only a restart can leave it set.                                *)
FlagIsTheDrills ==
    blackout => drillDied \/ drill.at \in {"banning", "attacking", "killing"}

BansAreCovered == \A b \in AllBoxes \ {Own} : bans[b] <= deadmen[b] + unarmed[b]

DrillInv == DrillTypeOK /\ FlagIsTheDrills /\ BansAreCovered

LEMMA BoxesKnown ==
  /\ Own \in AllBoxes
  /\ \A i \in 1 .. Len(Boxes) : Boxes[i] \in AllBoxes
  BY DrillsAssumption DEF Own, AllBoxes

LEMMA StageType ==
  ASSUME NEW at, NEW S, at \in S
  PROVE  Stage(at, 1) \in [at : S, box : 1 .. Len(Boxes) + 1]
  BY DrillsAssumption DEF Stage

(* The next box of a stage that is not over is a box, or past the last.    *)
LEMMA NextBoxType ==
  ASSUME NEW S, NEW stage \in [at : S, box : 1 .. Len(Boxes) + 1], ~Over(stage)
  PROVE  /\ NextBox(stage) \in [at : S, box : 1 .. Len(Boxes) + 1]
         /\ NextBox(stage).at = stage.at
         /\ Boxes[stage.box] \in AllBoxes
<1>1. stage.box \in 1 .. Len(Boxes)
  BY DrillsAssumption DEF Over
<1> QED BY <1>1, BoxesKnown, DrillsAssumption DEF NextBox

(* A rule less, if there is one.                                           *)
LEMMA OneLessType ==
  ASSUME NEW count \in [AllBoxes -> 0 .. MaxBans], NEW b \in AllBoxes
  PROVE  /\ OneLess(count, b) \in [AllBoxes -> 0 .. MaxBans]
         /\ \A c \in AllBoxes : OneLess(count, b)[c] = IF c = b /\ count[b] # 0 THEN count[b] - 1 ELSE count[c]
  BY DrillsAssumption DEF OneLess

Counts == /\ bans \in [AllBoxes -> 0 .. MaxBans]
          /\ deadmen \in [AllBoxes -> 0 .. MaxBans]
          /\ unarmed \in [AllBoxes -> 0 .. MaxBans]

(* An undoing script takes a ban, and answers a script that was cut off.   *)
LEMMA LiftKeepsBans ==
  ASSUME DrillInv, NEW b \in AllBoxes, endBlackout(b), UNCHANGED deadmen
  PROVE  Counts' /\ BansAreCovered'
<1>1. Counts
  BY DEF DrillInv, DrillTypeOK, Counts
<1>2. CASE UNCHANGED <<bans, unarmed>>
  BY <1>1, <1>2 DEF BansAreCovered, DrillInv, Counts
<1>3. CASE bans' = OneLess(bans, b) /\ unarmed' = OneLess(unarmed, b)
  <2>1. Counts'
    BY <1>1, <1>3, OneLessType DEF Counts
  <2>2. ASSUME NEW c \in AllBoxes \ {Own} PROVE bans'[c] <= deadmen'[c] + unarmed'[c]
    <3>1. bans[c] \in Nat /\ deadmen[c] \in Nat /\ unarmed[c] \in Nat
      BY <1>1, DrillsAssumption DEF Counts
    <3>2. bans[c] <= deadmen[c] + unarmed[c]
      BY DEF BansAreCovered, DrillInv
    <3>3. bans'[c] = IF c = b /\ bans[b] # 0 THEN bans[b] - 1 ELSE bans[c]
      BY <1>1, <1>3, OneLessType DEF Counts
    <3>4. unarmed'[c] = IF c = b /\ unarmed[b] # 0 THEN unarmed[b] - 1 ELSE unarmed[c]
      BY <1>1, <1>3, OneLessType DEF Counts
    <3> QED BY <3>1, <3>2, <3>3, <3>4
  <2> QED BY <2>1, <2>2 DEF BansAreCovered
<1> QED BY <1>2, <1>3 DEF endBlackout

(* A ban comes with its dead-man, or its script is counted as cut off.     *)
LEMMA BanKeepsBans ==
  ASSUME DrillInv, NEW b \in AllBoxes, startBlackout(b)
  PROVE  Counts' /\ BansAreCovered'
<1>1. Counts
  BY DEF DrillInv, DrillTypeOK, Counts
<1>2. PICK banned \in {0, 1}, armed \in {0, 1} :
        LET short == IF armed < banned THEN 1 ELSE 0
        IN  /\ bans[b] + banned <= MaxBans /\ deadmen[b] + armed <= MaxBans
            /\ unarmed[b] + short <= MaxBans
            /\ bans' = [bans EXCEPT ![b] = @ + banned]
            /\ deadmen' = [deadmen EXCEPT ![b] = @ + armed]
            /\ unarmed' = [unarmed EXCEPT ![b] = @ + short]
  BY DEF startBlackout
<1> DEFINE short == IF armed < banned THEN 1 ELSE 0
<1>3. short \in {0, 1} /\ banned <= armed + short
  OBVIOUS
<1>4. /\ bans[b] + banned \in 0 .. MaxBans /\ deadmen[b] + armed \in 0 .. MaxBans
      /\ unarmed[b] + short \in 0 .. MaxBans
  <2>1. bans[b] \in Nat /\ deadmen[b] \in Nat /\ unarmed[b] \in Nat
    BY <1>1, DrillsAssumption DEF Counts
  <2>2. bans[b] + banned <= MaxBans /\ deadmen[b] + armed <= MaxBans /\ unarmed[b] + short <= MaxBans
    BY <1>2
  <2> HIDE DEF short
  <2> QED BY ONLY <1>3, <2>1, <2>2, DrillsAssumption, banned \in {0, 1}, armed \in {0, 1}
<1>5. Counts'
  BY <1>1, <1>2, <1>4 DEF Counts
<1>6. ASSUME NEW c \in AllBoxes \ {Own} PROVE bans'[c] <= deadmen'[c] + unarmed'[c]
  <2>1. /\ bans[c] \in Nat /\ deadmen[c] \in Nat /\ unarmed[c] \in Nat
        /\ bans[c] <= deadmen[c] + unarmed[c]
    BY <1>1, DrillsAssumption DEF BansAreCovered, DrillInv, Counts
  <2>2. \/ bans'[c] = bans[c] /\ deadmen'[c] = deadmen[c] /\ unarmed'[c] = unarmed[c]
        \/ /\ bans'[c] = bans[c] + banned /\ deadmen'[c] = deadmen[c] + armed
           /\ unarmed'[c] = unarmed[c] + short
    BY <1>1, <1>2 DEF Counts
  <2> HIDE DEF short
  <2> QED BY <1>3, <2>1, <2>2
<1> QED BY <1>5, <1>6 DEF BansAreCovered

LEMMA WakeKeepsBans ==
  ASSUME DrillInv, NEW b \in AllBoxes, deadManWakes(b)
  PROVE  Counts' /\ BansAreCovered'
<1>1. Counts
  BY DEF DrillInv, DrillTypeOK, Counts
<1>2. bans' \in [AllBoxes -> 0 .. MaxBans] /\ unarmed' = unarmed
  BY <1>1, OneLessType DEF deadManWakes, Counts
<1>3. deadmen' = [deadmen EXCEPT ![b] = @ - 1] /\ deadmen' \in [AllBoxes -> 0 .. MaxBans]
  BY <1>1, DrillsAssumption DEF deadManWakes, Counts
<1>4. ASSUME NEW c \in AllBoxes \ {Own} PROVE bans'[c] <= deadmen'[c] + unarmed'[c]
  <2>1. /\ bans[c] \in Nat /\ deadmen[c] \in Nat /\ unarmed[c] \in Nat /\ deadmen[b] > 0
        /\ bans[c] <= deadmen[c] + unarmed[c]
    BY <1>1, DrillsAssumption DEF BansAreCovered, DrillInv, deadManWakes, Counts
  <2>2. bans'[c] = IF c = b /\ bans[b] # 0 THEN bans[b] - 1 ELSE bans[c]
    BY <1>1, OneLessType DEF deadManWakes, Counts
  <2>3. deadmen'[c] = IF c = b THEN deadmen[b] - 1 ELSE deadmen[c]
    BY <1>1, <1>3 DEF Counts
  <2> QED BY <1>2, <2>1, <2>2, <2>3
<1> QED BY <1>1, <1>2, <1>3, <1>4 DEF BansAreCovered, Counts

------------------------------------------------------------------------------
LEMMA DrillInitInv == DrillInit => DrillInv
<1> SUFFICES ASSUME DrillInit PROVE DrillInv
  OBVIOUS
<1>1. /\ drill \in [at : Stages, box : 1 .. Len(Boxes) + 1]
      /\ stopper \in [at : {"none", "killing", "lifting"}, box : 1 .. Len(Boxes) + 1]
  BY StageType DEF DrillInit, Stages
<1>2. Counts
  BY DrillsAssumption DEF DrillInit, Counts
<1>3. DrillTypeOK
  BY <1>1, <1>2 DEF DrillInit, DrillTypeOK, Counts
<1>4. BansAreCovered
  BY DEF DrillInit, BansAreCovered
<1> QED BY <1>3, <1>4 DEF DrillInit, DrillInv, FlagIsTheDrills

USE DEF DrillInv

LEMMA RestartKeepsInv == DrillInv /\ DrillRestart => DrillInv'
<1> SUFFICES ASSUME DrillInv, DrillRestart PROVE DrillInv'
  OBVIOUS
<1>1. /\ drill' \in [at : Stages, box : 1 .. Len(Boxes) + 1]
      /\ stopper' \in [at : {"none", "killing", "lifting"}, box : 1 .. Len(Boxes) + 1]
  BY StageType DEF DrillRestart, Stages
<1>2. deadmen' = [deadmen EXCEPT ![Own] = 0] /\ burning' = burning \ {Own} /\ UNCHANGED <<bans, unarmed>>
  BY DEF DrillRestart
<1>3. deadmen' \in [AllBoxes -> 0 .. MaxBans] /\ burning' \subseteq AllBoxes
  <2>1. deadmen \in [AllBoxes -> 0 .. MaxBans] /\ burning \subseteq AllBoxes /\ 0 \in 0 .. MaxBans
    BY DrillsAssumption DEF DrillTypeOK
  <2>2. deadmen' \in [AllBoxes -> 0 .. MaxBans]
    BY ONLY <1>2, <2>1
  <2>3. burning' \subseteq AllBoxes
    BY ONLY <1>2, <2>1
  <2> QED BY <2>2, <2>3
<1>4. DrillTypeOK'
  BY <1>1, <1>2, <1>3 DEF DrillRestart, DrillTypeOK
<1>5. FlagIsTheDrills'
  BY DEF DrillRestart, FlagIsTheDrills
<1>6. BansAreCovered'
  BY <1>2 DEF BansAreCovered, DrillTypeOK
<1> QED BY <1>4, <1>5, <1>6

LEMMA EventKeepsInv == DrillInv /\ DrillEvents => DrillInv'
<1> SUFFICES ASSUME DrillInv, DrillEvents PROVE DrillInv'
  OBVIOUS
<1>1. CASE replyStormTest
  <2>1. drill' \in [at : Stages, box : 1 .. Len(Boxes) + 1]
    BY <1>1, StageType DEF replyStormTest, Stages
  <2> QED BY <1>1, <2>1 DEF replyStormTest, DrillTypeOK, FlagIsTheDrills, BansAreCovered
<1>2. CASE replyStop
  <2>1. stopper' \in [at : {"none", "killing", "lifting"}, box : 1 .. Len(Boxes) + 1]
    BY <1>2, StageType DEF replyStop
  <2> QED BY <1>2, <2>1 DEF replyStop, DrillTypeOK, FlagIsTheDrills, BansAreCovered
<1> QED BY <1>1, <1>2, RestartKeepsInv DEF DrillEvents

LEMMA LoadsKeepInv == DrillInv /\ runDrillLoads => DrillInv'
<1> SUFFICES ASSUME DrillInv, runDrillLoads PROVE DrillInv'
  OBVIOUS
<1> USE DEF DrillTypeOK, Stages
<1>1. BansAreCovered'
  BY DEF runDrillLoads, BansAreCovered
<1>2. CASE ~Over(drill)
  <2>1. drill' = NextBox(drill) /\ startLoadBurners(Boxes[drill.box]) /\ UNCHANGED blackout
    BY <1>2 DEF runDrillLoads
  <2>2. drill' \in [at : Stages, box : 1 .. Len(Boxes) + 1] /\ drill'.at = drill.at
    BY <1>2, <2>1, NextBoxType
  <2>3. burning' \subseteq AllBoxes
    <3>1. Boxes[drill.box] \in AllBoxes
      BY <1>2, NextBoxType
    <3>2. burning' = burning \/ burning' = burning \cup {Boxes[drill.box]}
      BY <2>1 DEF startLoadBurners
    <3>3. burning \subseteq AllBoxes
      OBVIOUS
    <3> HIDE DEF DrillTypeOK, DrillInv
    <3> QED BY <3>1, <3>2, <3>3
  <2> QED BY <1>1, <2>1, <2>2, <2>3 DEF runDrillLoads, FlagIsTheDrills
<1>3. CASE Over(drill)
  <2>1. drill' = Stage("banning", 1) /\ blackout' = TRUE /\ UNCHANGED burning
    BY <1>3 DEF runDrillLoads
  <2>2. drill' \in [at : Stages, box : 1 .. Len(Boxes) + 1] /\ drill'.at = "banning"
    BY <2>1, StageType DEF Stage
  <2> QED BY <1>1, <2>1, <2>2 DEF runDrillLoads, FlagIsTheDrills
<1> QED BY <1>2, <1>3

LEMMA BansKeepInv == DrillInv /\ runDrillBans => DrillInv'
<1> SUFFICES ASSUME DrillInv, runDrillBans PROVE DrillInv'
  OBVIOUS
<1> USE DEF DrillTypeOK, Stages
<1>1. CASE ~Over(drill)
  <2>1. drill' = NextBox(drill) /\ startBlackout(Boxes[drill.box]) /\ Boxes[drill.box] \in AllBoxes
    BY <1>1, NextBoxType DEF runDrillBans
  <2>2. drill' \in [at : Stages, box : 1 .. Len(Boxes) + 1] /\ drill'.at = drill.at
    BY <1>1, <2>1, NextBoxType
  <2> QED BY <2>1, <2>2, BanKeepsBans DEF runDrillBans, FlagIsTheDrills, Counts
<1>2. CASE Over(drill)
  <2>1. drill' = Stage("attacking", 1) /\ UNCHANGED <<bans, deadmen, unarmed>>
    BY <1>2 DEF runDrillBans
  <2>2. drill' \in [at : Stages, box : 1 .. Len(Boxes) + 1] /\ drill'.at = "attacking"
    BY <2>1, StageType DEF Stage
  <2> QED BY <2>1, <2>2 DEF runDrillBans, FlagIsTheDrills, BansAreCovered
<1> QED BY <1>1, <1>2

LEMMA EndKeepsInv == DrillInv /\ runDrillEnds => DrillInv'
  BY StageType DEF runDrillEnds, DrillTypeOK, FlagIsTheDrills, BansAreCovered, Stage, Stages

(* Either recovery.  The flag is off when the burners are killed.          *)
LEMMA RecoveryKeepsInv ==
  ASSUME DrillInv, NEW kill \in {"killing", "killing again"}, NEW lift \in Stages,
         NEW then \in Stages, lift \notin {"banning", "attacking", "killing"},
         runDrillRecovers(kill, lift, then)
  PROVE  DrillInv'
<1> USE DEF DrillTypeOK
<1>1. CASE drill.at = kill /\ ~Over(drill) /\ killLoadBurners(Boxes[drill.box])
           /\ drill' = NextBox(drill) /\ UNCHANGED blackout
  <2>1. drill' \in [at : Stages, box : 1 .. Len(Boxes) + 1] /\ drill'.at = drill.at
    BY <1>1, NextBoxType
  <2>2. burning' \subseteq AllBoxes /\ UNCHANGED <<bans, deadmen, unarmed>>
    BY <1>1 DEF killLoadBurners
  <2> QED BY <1>1, <2>1, <2>2 DEF runDrillRecovers, FlagIsTheDrills, BansAreCovered
<1>2. CASE blackout' = FALSE /\ drill' = Stage(lift, 1) /\ UNCHANGED <<burning, bans, deadmen, unarmed>>
  BY <1>2, StageType DEF runDrillRecovers, FlagIsTheDrills, BansAreCovered
<1>3. CASE drill.at = lift /\ ~Over(drill) /\ endBlackout(Boxes[drill.box])
           /\ drill' = NextBox(drill) /\ UNCHANGED <<burning, blackout, deadmen>>
  <2>1. /\ drill' \in [at : Stages, box : 1 .. Len(Boxes) + 1] /\ drill'.at = drill.at
        /\ Boxes[drill.box] \in AllBoxes
    BY <1>3, NextBoxType
  <2>2. Counts' /\ BansAreCovered'
    BY <1>3, <2>1, LiftKeepsBans
  <2> QED BY <1>3, <2>1, <2>2 DEF runDrillRecovers, FlagIsTheDrills, Counts
<1>4. CASE drill.at = lift /\ drill' = Stage(then, 1) /\ UNCHANGED <<burning, blackout, bans, deadmen, unarmed>>
  BY <1>4, StageType DEF runDrillRecovers, FlagIsTheDrills, BansAreCovered
<1> QED BY <1>1, <1>2, <1>3, <1>4 DEF runDrillRecovers

LEMMA StopKeepsInv == DrillInv /\ replyStopRecovers => DrillInv'
<1> SUFFICES ASSUME DrillInv, replyStopRecovers PROVE DrillInv'
  OBVIOUS
<1> DEFINE StopStages == {"none", "killing", "lifting"}
<1> USE DEF DrillTypeOK
<1>1. CASE ~Over(stopper) /\ killLoadBurners(Boxes[stopper.box]) /\ stopper' = NextBox(stopper)
           /\ UNCHANGED blackout
  <2>1. stopper' \in [at : StopStages, box : 1 .. Len(Boxes) + 1]
    BY <1>1, NextBoxType
  <2>2. burning' \subseteq AllBoxes /\ UNCHANGED <<bans, deadmen, unarmed>>
    BY <1>1 DEF killLoadBurners
  <2> QED BY <1>1, <2>1, <2>2 DEF replyStopRecovers, FlagIsTheDrills, BansAreCovered
<1>2. CASE blackout' = FALSE /\ stopper' = Stage("lifting", 1) /\ UNCHANGED <<burning, bans, deadmen, unarmed>>
  BY <1>2, StageType DEF replyStopRecovers, FlagIsTheDrills, BansAreCovered
<1>3. CASE ~Over(stopper) /\ endBlackout(Boxes[stopper.box]) /\ stopper' = NextBox(stopper)
           /\ UNCHANGED <<burning, blackout, deadmen>>
  <2>1. stopper' \in [at : StopStages, box : 1 .. Len(Boxes) + 1] /\ Boxes[stopper.box] \in AllBoxes
    BY <1>3, NextBoxType
  <2>2. Counts' /\ BansAreCovered'
    BY <1>3, <2>1, LiftKeepsBans
  <2> QED BY <1>3, <2>1, <2>2 DEF replyStopRecovers, FlagIsTheDrills, Counts
<1>4. CASE stopper' = Stage("none", 1) /\ UNCHANGED <<burning, blackout, bans, deadmen, unarmed>>
  BY <1>4, StageType DEF replyStopRecovers, FlagIsTheDrills, BansAreCovered
<1> QED BY <1>1, <1>2, <1>3, <1>4 DEF replyStopRecovers

LEMMA BoxKeepsInv ==
  ASSUME DrillInv, NEW b \in AllBoxes, deadManWakes(b) \/ burnersEnd(b)
  PROVE  DrillInv'
<1>1. CASE deadManWakes(b)
  BY <1>1, WakeKeepsBans DEF deadManWakes, DrillTypeOK, FlagIsTheDrills, Counts
<1>2. CASE burnersEnd(b)
  BY <1>2 DEF burnersEnd, DrillTypeOK, FlagIsTheDrills, BansAreCovered
<1> QED BY <1>1, <1>2

LEMMA DrillStepInv == DrillInv /\ [DrillNext]_drillVars => DrillInv'
<1> SUFFICES ASSUME DrillInv, [DrillNext]_drillVars PROVE DrillInv'
  OBVIOUS
<1>1. CASE DrillEvents
  BY <1>1, EventKeepsInv
<1>2. CASE DrillWork
  BY <1>2, LoadsKeepInv, BansKeepInv, EndKeepsInv, RecoveryKeepsInv, StopKeepsInv, BoxKeepsInv
  DEF DrillWork, Stages
<1>3. CASE UNCHANGED drillVars
  BY <1>3 DEF drillVars, DrillTypeOK, FlagIsTheDrills, BansAreCovered
<1> QED BY <1>1, <1>2, <1>3 DEF DrillNext

LEMMA DrillIsInv == DrillSpec => []DrillInv
  BY DrillInitInv, DrillStepInv, PTL DEF DrillSpec

(* The drill, /stop, the bans and the dead-men keep their types.           *)
THEOREM DrillTypeCorrect == DrillSpec => []DrillTypeOK
<1>1. DrillInv => DrillTypeOK
  OBVIOUS
<1> QED BY <1>1, DrillIsInv, PTL

(* For any list of boxes, whichever scripts fail to reach theirs or are    *)
(* cut off in between, and whenever /stop or a restart comes: a ban on     *)
(* another box has a dead-man asleep that lifts it unless its script was   *)
(* cut off before its last line and no undoing script has reached the box  *)
(* since; and a drill the backend survived leaves the console reachable.   *)
THEOREM DrillsAreUndone == DrillSpec => []DrillsUndoThemselves
<1>1. DrillInv => DrillsUndoThemselves
  BY DEF FlagIsTheDrills, BansAreCovered, DrillsUndoThemselves
<1> QED BY <1>1, DrillIsInv, PTL

HIDE DEF DrillInv

------------------------------------------------------------------------------
(* Mitigation.                                                             *)

(* A table that would be right on a node as the rules are now.             *)
Right(table, p) ==
    /\ table \subseteq ActiveOn(p)
    /\ \A r \in ActiveOn(p) \ table : flowspec[r].due

Queued(p) == \E t \in SyncTasks : p \in syncs[t].todo

Settled(p) == p \in unsynced \/ Concerned(p) \/ Right(tables[p], p)

(* A table that is on its way, and that no other sync has overtaken, is    *)
(* right, or the node will be synced again.                                *)
OnItsWay(s, p) ==
    syncs[s].pop = {p} /\ syncs[s].alone => Queued(p) \/ Right(syncs[s].table, p)

MitInv ==
    /\ MitTypeOK
    /\ \A p \in Pops : Settled(p)
    /\ \A p \in Pops, s \in SyncTasks : OnItsWay(s, p)

Syncs == [by : {"nobody", "apply", "revoke", "expire"}, todo : SUBSET Pops,
          pop : SUBSET Pops, table : SUBSET Rules, alone : BOOLEAN, failed : BOOLEAN]

LEMMA Types ==
  ASSUME MitTypeOK
  PROVE  /\ flowspec \in [Rules -> Rule] /\ flowspecSaved \in [Rules -> Rule]
         /\ tables \in [Pops -> SUBSET Rules] /\ unsynced \subseteq Pops
         /\ syncs \in [SyncTasks -> Syncs]
  BY DEF MitTypeOK, Syncs

LEMMA TypesMake ==
  ASSUME flowspec \in [Rules -> Rule], flowspecSaved \in [Rules -> Rule],
         tables \in [Pops -> SUBSET Rules], unsynced \subseteq Pops,
         syncs \in [SyncTasks -> Syncs]
  PROVE  MitTypeOK
  BY DEF MitTypeOK, Syncs

LEMMA NoSyncType ==
  /\ NoSync \in Syncs /\ NoRule \in Rule
  /\ NoSync.todo = {} /\ NoSync.pop = {} /\ NoSync.table = {} /\ NoSync.alone = TRUE
  BY DEF NoSync, Syncs, NoRule, Rule

(* A rule gets a new status; a request sets its kind and nodes.            *)
LEMMA StatusType ==
  ASSUME NEW rec \in Rule, NEW st \in {"none", "draft", "active", "revoked", "expired"}
  PROVE  /\ [rec EXCEPT !.status = st] \in Rule
         /\ [rec EXCEPT !.status = st].status = st /\ [rec EXCEPT !.status = st].pops = rec.pops
  BY DEF Rule

LEMMA StatusTypes ==
  ASSUME flowspec \in [Rules -> Rule], NEW r \in Rules,
         NEW st \in {"none", "draft", "active", "revoked", "expired"}
  PROVE  [flowspec EXCEPT ![r].status = st] \in [Rules -> Rule]
<1>1. [flowspec[r] EXCEPT !.status = st] \in Rule
  BY StatusType
<1> QED BY <1>1

LEMMA StartedType ==
  ASSUME NEW pops \in SUBSET Pops, NEW by \in {"nobody", "apply", "revoke", "expire"}
  PROVE  /\ Started(by, pops) \in Syncs
         /\ Started(by, pops).todo = pops /\ Started(by, pops).pop = {}
         /\ Started(by, pops).table = {} /\ Started(by, pops).alone = TRUE
  BY DEF Started, NoSync, Syncs

LEMMA SavedType ==
  ASSUME NEW rules \in [Rules -> Rule], flowspecSaved \in [Rules -> Rule], persistLocked(rules)
  PROVE  flowspec' \in [Rules -> Rule] /\ flowspecSaved' \in [Rules -> Rule]
  BY DEF persistLocked

------------------------------------------------------------------------------
(* Whatever rules change, a table stays right where the rules of the node  *)
(* stay the same or only come due.                                         *)
SameRules(p) ==
    ActiveOn(p)' = ActiveOn(p) /\ \A r \in ActiveOn(p) : flowspec[r].due => flowspec'[r].due

LEMMA StaysRight ==
  ASSUME NEW p \in Pops, SameRules(p), NEW table, Right(table, p)
  PROVE  table \subseteq ActiveOn(p)' /\ \A r \in ActiveOn(p)' \ table : flowspec'[r].due
  BY DEF SameRules, Right

(* A step that changes rules and syncs nothing.                            *)
LEMMA QuietStep ==
  ASSUME MitInv, MitTypeOK', UNCHANGED <<tables, syncs, unsynced>>,
         \A p \in Pops : SameRules(p)
  PROVE  MitInv'
<1>1. ASSUME NEW p \in Pops PROVE Settled(p)'
  <2>1. CASE Right(tables[p], p)
    BY <2>1, StaysRight DEF Right, Settled
  <2>2. CASE p \in unsynced \/ Concerned(p)
    BY <2>2 DEF Settled, Concerned
  <2> QED BY <2>1, <2>2 DEF MitInv, Settled
<1>2. ASSUME NEW p \in Pops, NEW s \in SyncTasks, syncs[s].pop = {p} /\ syncs[s].alone, ~Queued(p)
      PROVE  Right(syncs[s].table, p)'
  <2>1. Right(syncs[s].table, p)
    BY <1>2 DEF MitInv, OnItsWay
  <2> QED BY <2>1, StaysRight DEF Right
<1>3. ASSUME NEW p \in Pops, NEW s \in SyncTasks PROVE OnItsWay(s, p)'
  BY <1>2 DEF OnItsWay, Queued
<1> QED BY <1>1, <1>3 DEF MitInv

(* A request: the nodes whose rules it changes are queued, or written off. *)
LEMMA MitRequestStep ==
  ASSUME MitInv, MitTypeOK', tables' = tables, NEW s \in SyncTasks, NEW pops, NEW left,
         unsynced' = unsynced \cup left, syncs[s].todo = {}, syncs'[s].todo = pops,
         \A t \in SyncTasks : /\ t # s => syncs'[t].todo = syncs[t].todo
                              /\ syncs'[t].pop = syncs[t].pop /\ syncs'[t].table = syncs[t].table
                              /\ syncs'[t].alone => syncs[t].alone /\ syncs[t].pop \cap left = {},
         \A p \in Pops \ (pops \cup left) : SameRules(p)
  PROVE  MitInv'
<1>1. ASSUME NEW p \in Pops, Queued(p) PROVE Queued(p)'
  BY <1>1 DEF Queued
<1>2. ASSUME NEW p \in Pops, Concerned(p) PROVE Concerned(p)'
  BY <1>2 DEF Concerned
<1>3. ASSUME NEW p \in Pops, p \in pops PROVE Queued(p)' /\ Concerned(p)'
  BY <1>3 DEF Queued, Concerned
<1>4. ASSUME NEW p \in Pops PROVE Settled(p)'
  <2>1. CASE p \in pops
    BY <1>3, <2>1 DEF Settled
  <2>2. CASE p \in left \/ p \in unsynced
    BY <2>2 DEF Settled
  <2>3. CASE Concerned(p)
    BY <1>2, <2>3 DEF Settled
  <2>4. CASE p \notin pops \cup left /\ Right(tables[p], p)
    BY <2>4, StaysRight DEF Settled, Right
  <2> QED BY <2>1, <2>2, <2>3, <2>4 DEF MitInv, Settled
<1>5. ASSUME NEW p \in Pops, NEW t \in SyncTasks, syncs'[t].pop = {p}, syncs'[t].alone, ~Queued(p)'
      PROVE  Right(syncs[t].table, p)'
  <2>1. p \notin pops /\ p \notin left /\ ~Queued(p)
    BY <1>1, <1>3, <1>5
  <2>2. Right(syncs[t].table, p)
    BY <1>5, <2>1 DEF MitInv, OnItsWay
  <2> QED BY <2>1, <2>2, StaysRight DEF Right
<1>6. ASSUME NEW p \in Pops, NEW t \in SyncTasks PROVE OnItsWay(t, p)'
  BY <1>5 DEF OnItsWay
<1> QED BY <1>4, <1>6 DEF MitInv

------------------------------------------------------------------------------
LEMMA CreateKeepsInv ==
  ASSUME MitInv, NEW r \in Rules, handleDDoSCreate(r)
  PROVE  MitInv'
<1>1. /\ flowspec' = [flowspec EXCEPT ![r].status = "draft"] /\ flowspec[r] = NoRule
      /\ persistLocked([flowspec EXCEPT ![r].status = "draft"])
      /\ UNCHANGED <<tables, syncs, unsynced>>
  BY DEF handleDDoSCreate, persistLocked
<1>2. [flowspec EXCEPT ![r].status = "draft"] \in [Rules -> Rule]
  BY Types, StatusTypes DEF MitInv
<1>3. MitTypeOK'
  BY <1>1, <1>2, Types, SavedType DEF MitInv, MitTypeOK
<1>4. ASSUME NEW p \in Pops PROVE SameRules(p)
  BY <1>1, Types DEF MitInv, SameRules, ActiveOn, NoRule, Rule
<1> QED BY <1>1, <1>3, <1>4, QuietStep

LEMMA DueKeepsInv ==
  ASSUME MitInv, NEW r \in Rules, ruleDue(r)
  PROVE  MitInv'
<1>1. flowspec' = [flowspec EXCEPT ![r].due = TRUE] /\ UNCHANGED <<tables, syncs, unsynced>>
  BY DEF ruleDue
<1>2. flowspec' \in [Rules -> Rule] /\ flowspecSaved' \in [Rules -> Rule]
  BY Types DEF MitInv, Rule, ruleDue
<1>3. MitTypeOK'
  BY <1>1, <1>2 DEF MitInv, MitTypeOK
<1>4. ASSUME NEW p \in Pops PROVE SameRules(p)
  BY <1>1, Types DEF MitInv, SameRules, ActiveOn, Rule
<1> QED BY <1>1, <1>3, <1>4, QuietStep

LEMMA BeginRequest ==
  ASSUME MitInv, NEW s \in SyncTasks, NEW pops \in SUBSET Pops,
         NEW by \in {"apply", "revoke", "expire"}, Begin(s, by, pops),
         flowspec' \in [Rules -> Rule], flowspecSaved' \in [Rules -> Rule],
         UNCHANGED <<tables, unsynced>>,
         \A p \in Pops \ pops : SameRules(p)
  PROVE  MitInv'
<1>0. PICK none : none = {}
  OBVIOUS
<1>1. syncs[s] = NoSync /\ syncs' = [syncs EXCEPT ![s] = Started(by, pops)]
  BY DEF Begin
<1>2. syncs' \in [SyncTasks -> Syncs]
  BY <1>1, Types, StartedType DEF MitInv
<1>3. MitTypeOK'
  BY <1>2, Types DEF MitInv, MitTypeOK, Syncs
<1>4. \A t \in SyncTasks : syncs'[t] = IF t = s THEN Started(by, pops) ELSE syncs[t]
  BY <1>1, Types DEF MitInv
<1>8. by \in {"nobody", "apply", "revoke", "expire"}
  OBVIOUS
<1>9. /\ Started(by, pops).todo = pops /\ Started(by, pops).pop = {}
      /\ Started(by, pops).table = {}
      /\ syncs[s].todo = {} /\ syncs[s].pop = {} /\ syncs[s].table = {} /\ syncs[s].alone
  BY <1>1, <1>8, NoSyncType, StartedType
<1>7. syncs[s].todo = {} /\ syncs'[s].todo = pops
  BY <1>4, <1>9
<1>5. \A t \in SyncTasks : /\ t # s => syncs'[t].todo = syncs[t].todo
                           /\ syncs'[t].pop = syncs[t].pop /\ syncs'[t].table = syncs[t].table
                           /\ syncs'[t].alone => syncs[t].alone /\ syncs[t].pop \cap none = {}
  BY <1>0, <1>4, <1>9
<1>6. unsynced' = unsynced \cup none /\ tables' = tables /\ \A p \in Pops \ (pops \cup none) : SameRules(p)
  BY <1>0
<1> QED BY <1>3, <1>5, <1>6, <1>7, MitRequestStep

LEMMA RevokeKeepsInv ==
  ASSUME MitInv, NEW s \in SyncTasks, NEW r \in Rules, handleDDoSRevoke(s, r)
  PROVE  MitInv'
<1>1. /\ flowspec' = [flowspec EXCEPT ![r].status = "revoked"]
      /\ persistLocked([flowspec EXCEPT ![r].status = "revoked"])
      /\ Begin(s, "revoke", flowspec[r].pops) /\ UNCHANGED <<tables, unsynced>>
  BY DEF handleDDoSRevoke, persistLocked
<1>2. [flowspec EXCEPT ![r].status = "revoked"] \in [Rules -> Rule] /\ flowspec[r].pops \in SUBSET Pops
  BY Types DEF MitInv, Rule
<1>3. ASSUME NEW p \in Pops \ flowspec[r].pops PROVE SameRules(p)
  BY <1>1, Types DEF MitInv, SameRules, ActiveOn, Rule
<1> QED BY <1>1, <1>2, <1>3, SavedType, BeginRequest, Types DEF MitInv

LEMMA ExpireKeepsInv ==
  ASSUME MitInv, NEW s \in SyncTasks, expire(s)
  PROVE  MitInv'
<1> DEFINE pops == UNION {flowspec[r].pops : r \in Due}
<1>1. /\ flowspec' = Expired(Due) /\ persistLocked(Expired(Due))
      /\ Begin(s, "expire", pops) /\ UNCHANGED <<tables, unsynced>>
  BY DEF expire, persistLocked
<1>2. Expired(Due) \in [Rules -> Rule]
  <2>1. ASSUME NEW r \in Rules
        PROVE  flowspec[r] \in Rule /\ [flowspec[r] EXCEPT !.status = "expired"] \in Rule
    BY Types, StatusType DEF MitInv
  <2> QED BY <2>1 DEF Expired
<1>3. pops \in SUBSET Pops
  BY Types DEF MitInv, Rule, Due
<1>4. ASSUME NEW p \in Pops \ pops PROVE SameRules(p)
  <2>1. ASSUME NEW r \in Rules, flowspec[r].status = "active", p \in flowspec[r].pops
        PROVE  r \notin Due
    BY <1>4, <2>1
  <2>2. ASSUME NEW r \in Rules PROVE flowspec'[r] = IF r \in Due THEN [flowspec[r] EXCEPT !.status = "expired"] ELSE flowspec[r]
    BY <1>1 DEF Expired
  <2>3. ASSUME NEW r \in Due PROVE flowspec'[r].status = "expired" /\ p \notin flowspec[r].pops
    BY <1>4, <2>1, <2>2, <2>3, Types DEF Due, MitInv, Rule
  <2>4. ASSUME NEW r \in Rules PROVE r \in ActiveOn(p)' <=> r \in ActiveOn(p)
    BY <2>2, <2>3 DEF ActiveOn
  <2>5. ActiveOn(p)' = ActiveOn(p)
    BY <2>4 DEF ActiveOn
  <2>6. ASSUME NEW r \in ActiveOn(p), flowspec[r].due PROVE flowspec'[r].due
    BY <2>1, <2>2, <2>6 DEF ActiveOn
  <2> QED BY <2>5, <2>6 DEF SameRules
<1> HIDE DEF pops
<1> QED BY <1>1, <1>2, <1>3, <1>4, SavedType, BeginRequest, Types DEF MitInv

(* An apply that leaves out nodes of an earlier one writes these off.      *)
LEMMA MitApplyKeepsInv ==
  ASSUME MitInv, NEW s \in SyncTasks, NEW r \in Rules, NEW pops \in SUBSET Pops,
         handleDDoSApply(s, r, pops)
  PROVE  MitInv'
<1> DEFINE left == IF flowspec[r].status = "active" THEN flowspec[r].pops \ pops ELSE {}
           rule == [status |-> "active", pops |-> pops, due |-> FALSE]
<1>1. /\ persistLocked([flowspec EXCEPT ![r] = rule]) /\ flowspec' = [flowspec EXCEPT ![r] = rule]
      /\ unsynced' = unsynced \cup left /\ tables' = tables /\ syncs[s] = NoSync
      /\ syncs' = [Abandoned(left) EXCEPT ![s] = Started("apply", pops)]
  BY DEF handleDDoSApply, persistLocked
<1>2. [flowspec EXCEPT ![r] = rule] \in [Rules -> Rule] /\ left \subseteq Pops
  BY Types DEF MitInv, Rule
<1>3. Abandoned(left) \in [SyncTasks -> Syncs]
  BY Types DEF MitInv, Abandoned, Syncs
<1>4. ASSUME NEW t \in SyncTasks
      PROVE  /\ Abandoned(left)[t].todo = syncs[t].todo /\ Abandoned(left)[t].pop = syncs[t].pop
             /\ Abandoned(left)[t].table = syncs[t].table
             /\ Abandoned(left)[t].alone => syncs[t].alone /\ syncs[t].pop \cap left = {}
  BY Types DEF MitInv, Abandoned, Syncs
<1>5. /\ \A t \in SyncTasks : syncs'[t] = IF t = s THEN Started("apply", pops) ELSE Abandoned(left)[t]
      /\ syncs' \in [SyncTasks -> Syncs] /\ syncs'[s].todo = pops /\ syncs[s].todo = {}
  <2>1. "apply" \in {"nobody", "apply", "revoke", "expire"}
    OBVIOUS
  <2>2. Started("apply", pops) \in Syncs /\ Started("apply", pops).todo = pops
    BY <2>1, StartedType
  <2> HIDE DEF left, rule
  <2> QED BY <1>1, <1>3, <2>2, NoSyncType
<1>6. /\ Started("apply", pops).pop = {} /\ Started("apply", pops).table = {}
      /\ syncs[s].pop = {} /\ syncs[s].table = {} /\ syncs[s].alone
  BY <1>1, NoSyncType DEF Started, NoSync
<1>7. MitTypeOK'
  <2>1. flowspec' \in [Rules -> Rule] /\ flowspecSaved' \in [Rules -> Rule]
    BY <1>1, <1>2, SavedType, Types DEF MitInv
  <2>2. unsynced' \subseteq Pops
    BY <1>1, <1>2, Types DEF MitInv
  <2> QED BY <1>1, <1>5, <2>1, <2>2, Types DEF MitInv, MitTypeOK, Syncs
<1>8. ASSUME NEW p \in Pops \ (pops \cup left) PROVE SameRules(p)
  BY <1>1, <1>8, Types DEF MitInv, SameRules, ActiveOn, Rule
<1> HIDE DEF left, rule
<1>9. \A t \in SyncTasks : /\ t # s => syncs'[t].todo = syncs[t].todo
                           /\ syncs'[t].pop = syncs[t].pop /\ syncs'[t].table = syncs[t].table
                           /\ syncs'[t].alone => syncs[t].alone /\ syncs[t].pop \cap left = {}
  BY <1>4, <1>5, <1>6
<1>10. tables' = tables /\ unsynced' = unsynced \cup left
  BY <1>1
<1> QED BY <1>5, <1>7, <1>8, <1>9, <1>10, MitRequestStep

------------------------------------------------------------------------------
(* A table is generated: right now, and right as long as no rule of the    *)
(* node changes without the node being queued.                             *)
LEMMA MitGenerateKeepsInv ==
  ASSUME MitInv, NEW s \in SyncTasks, NEW p \in Pops, genNftFile(s, p)
  PROVE  MitInv'
<1> DEFINE others == {t \in SyncTasks : syncs[t].pop = {p}}
           mine == [syncs[s] EXCEPT !.todo = @ \ {p}, !.pop = {p},
                        !.table = activeForNodeLocked(p), !.alone = others = {}]
<1>1. /\ UNCHANGED <<flowspec, flowspecSaved, tables, unsynced>>
      /\ syncs[s].pop = {} /\ p \in syncs[s].todo
      /\ syncs' = [t \in SyncTasks |->
            CASE t = s -> mine [] t \in others -> [syncs[t] EXCEPT !.alone = FALSE] [] OTHER -> syncs[t]]
  BY DEF genNftFile
<1>2. mine \in Syncs /\ mine.todo = syncs[s].todo \ {p} /\ mine.pop = {p}
      /\ mine.table = activeForNodeLocked(p)
  BY Types DEF MitInv, Syncs, activeForNodeLocked, ActiveOn
<1>3. ASSUME NEW t \in SyncTasks
      PROVE  [syncs[t] EXCEPT !.alone = FALSE] \in Syncs
             /\ [syncs[t] EXCEPT !.alone = FALSE].todo = syncs[t].todo
             /\ [syncs[t] EXCEPT !.alone = FALSE].pop = syncs[t].pop
             /\ [syncs[t] EXCEPT !.alone = FALSE].alone = FALSE
  BY Types DEF MitInv, Syncs
<1> HIDE DEF mine
<1>4. /\ s \notin others /\ syncs'[s] = mine
      /\ \A t \in others : syncs'[t] = [syncs[t] EXCEPT !.alone = FALSE]
      /\ \A t \in SyncTasks \ (others \cup {s}) : syncs'[t] = syncs[t]
  BY <1>1
<1>5. syncs' \in [SyncTasks -> Syncs]
  BY <1>1, <1>2, <1>3, Types DEF MitInv
<1>6. MitTypeOK'
  BY <1>1, <1>5, Types DEF MitInv, MitTypeOK, Syncs
<1>7. ASSUME NEW t \in SyncTasks, t # s
      PROVE  syncs'[t].todo = syncs[t].todo /\ syncs'[t].pop = syncs[t].pop
  BY <1>3, <1>4, <1>7
<1>8. ASSUME NEW q \in Pops PROVE Settled(q)'
  <2>1. CASE q = p
    BY <1>2, <1>4, <2>1 DEF Settled, Concerned
  <2>2. CASE q # p /\ Concerned(q)
    BY <1>1, <1>2, <1>4, <1>7, <2>2 DEF Settled, Concerned
  <2>3. CASE q \in unsynced \/ Right(tables[q], q)
    BY <1>1, <2>3 DEF Settled, Right, ActiveOn
  <2> QED BY <2>1, <2>2, <2>3 DEF MitInv, Settled
<1>9. ASSUME NEW q \in Pops, NEW t \in SyncTasks, syncs'[t].pop = {q}, syncs'[t].alone, ~Queued(q)'
      PROVE  Right(syncs[t].table, q)'
  <2>1. CASE t = s
    <3>1. q = p /\ syncs'[t].table = activeForNodeLocked(p)
      BY <1>2, <1>4, <1>9, <2>1
    <3>2. Right(activeForNodeLocked(p), p)
      BY DEF Right, activeForNodeLocked
    <3> QED BY <1>1, <3>1, <3>2 DEF Right, ActiveOn
  <2>2. CASE t # s
    <3>1. t \notin others /\ syncs'[t] = syncs[t] /\ q # p
      BY <1>3, <1>4, <1>9, <2>2
    <3>2. ~Queued(q)
      BY <1>2, <1>4, <1>7, <1>9, <3>1 DEF Queued
    <3>3. Right(syncs[t].table, q)
      BY <1>9, <3>1, <3>2 DEF MitInv, OnItsWay
    <3> QED BY <1>1, <3>1, <3>3 DEF Right, ActiveOn
  <2> QED BY <2>1, <2>2
<1>10. ASSUME NEW q \in Pops, NEW t \in SyncTasks PROVE OnItsWay(t, q)'
  BY <1>9 DEF OnItsWay
<1> QED BY <1>6, <1>8, <1>10 DEF MitInv

(* A table is loaded, or not, and the reply says so, or not.               *)
LEMMA LoadKeepsInv ==
  ASSUME MitInv, NEW s \in SyncTasks, NEW p \in Pops, syncNode(s, p)
  PROVE  MitInv'
<1>1. PICK loaded \in BOOLEAN, ok \in BOOLEAN :
         /\ ok => loaded
         /\ tables' = IF loaded THEN [tables EXCEPT ![p] = syncs[s].table] ELSE tables
         /\ unsynced' = IF ok /\ syncs[s].alone THEN unsynced \ {p} ELSE unsynced \cup {p}
         /\ syncs' = [syncs EXCEPT ![s].pop = {}, ![s].table = {}, ![s].alone = TRUE,
                                   ![s].failed = @ \/ ~ok]
  BY DEF syncNode
<1>2. UNCHANGED <<flowspec, flowspecSaved>> /\ syncs[s].pop = {p}
  BY DEF syncNode
<1>3. /\ syncs' \in [SyncTasks -> Syncs]
      /\ syncs'[s].todo = syncs[s].todo /\ syncs'[s].pop = {}
      /\ \A t \in SyncTasks \ {s} : syncs'[t] = syncs[t]
  <2>1. PICK one \in Syncs : one = syncs[s]
    BY Types DEF MitInv
  <2>2. /\ [one EXCEPT !.pop = {}, !.table = {}, !.alone = TRUE, !.failed = @ \/ ~ok] \in Syncs
        /\ [one EXCEPT !.pop = {}, !.table = {}, !.alone = TRUE, !.failed = @ \/ ~ok].todo = one.todo
        /\ [one EXCEPT !.pop = {}, !.table = {}, !.alone = TRUE, !.failed = @ \/ ~ok].pop = {}
    BY DEF Syncs
  <2>3. syncs' = [syncs EXCEPT ![s] =
                     [one EXCEPT !.pop = {}, !.table = {}, !.alone = TRUE, !.failed = @ \/ ~ok]]
    BY <1>1, <2>1, Types DEF MitInv, Syncs
  <2> QED BY <2>1, <2>2, <2>3, Types DEF MitInv
<1>4. tables' \in [Pops -> SUBSET Rules] /\ unsynced' \subseteq Pops
  BY <1>1, Types DEF MitInv, Syncs
<1>5. MitTypeOK'
  BY <1>2, <1>3, <1>4, Types DEF MitInv, MitTypeOK, Syncs
<1>6. ASSUME NEW q \in Pops PROVE Queued(q)' <=> Queued(q)
  BY <1>3 DEF Queued
<1>7. ASSUME NEW q \in Pops PROVE Settled(q)'
  <2>1. CASE q = p
    <3>1. CASE ok /\ syncs[s].alone /\ ~Queued(p)
      <4>1. tables'[p] = syncs[s].table
        BY <1>1, <3>1, Types DEF MitInv
      <4>2. Right(syncs[s].table, p)
        BY <1>2, <3>1 DEF MitInv, OnItsWay
      <4> QED BY <1>2, <2>1, <4>1, <4>2 DEF Settled, Right, ActiveOn
    <3>2. CASE Queued(p)
      BY <1>6, <2>1, <3>2 DEF Settled, Queued, Concerned
    <3>3. CASE ~(ok /\ syncs[s].alone)
      BY <1>1, <2>1, <3>3 DEF Settled
    <3> QED BY <3>1, <3>2, <3>3
  <2>2. CASE q # p
    <3>1. Concerned(q) => Concerned(q)'
      BY <1>2, <1>3, <2>2 DEF Concerned
    <3>2. tables'[q] = tables[q] /\ (q \in unsynced => q \in unsynced')
      BY <1>1, <2>2, Types DEF MitInv
    <3>3. Right(tables[q], q) => Right(tables[q], q)'
      BY <1>2, <3>2 DEF Right, ActiveOn
    <3> QED BY <3>1, <3>2, <3>3 DEF MitInv, Settled
  <2> QED BY <2>1, <2>2
<1>8. ASSUME NEW q \in Pops, NEW t \in SyncTasks PROVE OnItsWay(t, q)'
  <2>1. CASE t = s
    BY <1>3, <2>1 DEF OnItsWay
  <2>2. CASE t # s
    <3>1. syncs'[t] = syncs[t]
      BY <1>3, <2>2
    <3> QED BY <1>2, <1>6, <3>1 DEF MitInv, OnItsWay, Right, ActiveOn
  <2> QED BY <2>1, <2>2
<1> QED BY <1>5, <1>7, <1>8 DEF MitInv

LEMMA MitDoneKeepsInv ==
  ASSUME MitInv, NEW s \in SyncTasks, syncsDone(s)
  PROVE  MitInv'
<1>1. /\ UNCHANGED <<flowspec, flowspecSaved, tables, unsynced>>
      /\ syncs[s].todo = {} /\ syncs[s].pop = {} /\ syncs' = [syncs EXCEPT ![s] = NoSync]
  BY DEF syncsDone
<1>2. syncs' \in [SyncTasks -> Syncs]
  BY <1>1, NoSyncType, Types DEF MitInv
<1>3. \A t \in SyncTasks : /\ syncs'[t].todo = syncs[t].todo /\ syncs'[t].pop = syncs[t].pop
                           /\ t # s => syncs'[t] = syncs[t]
  BY <1>1, NoSyncType, Types DEF MitInv
<1>4. MitTypeOK'
  BY <1>1, <1>2, Types DEF MitInv, MitTypeOK, Syncs
<1>5. ASSUME NEW q \in Pops PROVE Settled(q)'
  BY <1>1, <1>3 DEF MitInv, Settled, Concerned, Right, ActiveOn
<1>6. ASSUME NEW q \in Pops, NEW t \in SyncTasks PROVE OnItsWay(t, q)'
  <2>1. CASE t = s
    BY <1>1, <1>3, <2>1 DEF OnItsWay
  <2>2. CASE t # s
    BY <1>1, <1>3, <2>2 DEF MitInv, OnItsWay, Queued, Right, ActiveOn
  <2> QED BY <2>1, <2>2
<1> QED BY <1>4, <1>5, <1>6 DEF MitInv

(* A restart drops the syncs and takes the rules back to the last save:    *)
(* what either could concern is written off.                               *)
LEMMA MitRestartKeepsInv == MitInv /\ MitRestart => MitInv'
<1> SUFFICES ASSUME MitInv, MitRestart PROVE MitInv'
  OBVIOUS
<1>1. /\ flowspec' = flowspecSaved /\ UNCHANGED <<flowspecSaved, tables>>
      /\ syncs' = [s \in SyncTasks |-> NoSync]
      /\ unsynced' = unsynced \cup CutOff \cup Undone
  BY DEF MitRestart
<1>2. unsynced' \subseteq Pops
  <2>1. CutOff \subseteq Pops
    BY Types DEF MitInv, Syncs, CutOff
  <2>2. Undone \subseteq Pops
    BY Types DEF MitInv, Rule, Undone
  <2> QED BY <1>1, <2>1, <2>2, Types DEF MitInv
<1>3. MitTypeOK'
  BY <1>1, <1>2, NoSyncType, Types DEF MitInv, MitTypeOK, Syncs
<1>4. ASSUME NEW p \in Pops, p \notin unsynced'
      PROVE  /\ p \notin unsynced /\ ~Concerned(p)
             /\ \A r \in Rules : flowspec[r] # flowspecSaved[r] =>
                    p \notin flowspec[r].pops /\ p \notin flowspecSaved[r].pops
  <2>1. \A s \in SyncTasks : syncs[s].todo \subseteq CutOff /\ syncs[s].pop \subseteq CutOff
    BY DEF CutOff
  <2>2. \A r \in Rules : flowspec[r] # flowspecSaved[r] =>
            flowspec[r].pops \subseteq Undone /\ flowspecSaved[r].pops \subseteq Undone
    BY DEF Undone
  <2> QED BY <1>1, <1>4, <2>1, <2>2 DEF Concerned
<1>5. ASSUME NEW p \in Pops PROVE Settled(p)'
  <2>1. CASE p \in unsynced'
    BY <2>1 DEF Settled
  <2>2. CASE p \notin unsynced'
    <3>1. Right(tables[p], p)
      BY <1>4, <2>2 DEF MitInv, Settled
    <3>2. \A r \in Rules : flowspec'[r] = flowspec[r] \/ (p \notin flowspec[r].pops /\ p \notin flowspec'[r].pops)
      BY <1>1, <1>4, <2>2
    <3>3. SameRules(p)
      BY <3>2 DEF SameRules, ActiveOn
    <3> QED BY <1>1, <3>1, <3>3, StaysRight DEF Settled, Right
  <2> QED BY <2>1, <2>2
<1>6. ASSUME NEW p \in Pops, NEW s \in SyncTasks PROVE OnItsWay(s, p)'
  BY <1>1, NoSyncType DEF OnItsWay
<1> QED BY <1>3, <1>5, <1>6 DEF MitInv

------------------------------------------------------------------------------
LEMMA MitInitInv == MitInit => MitInv
<1> SUFFICES ASSUME MitInit PROVE MitInv
  OBVIOUS
<1>1. /\ [NoRule EXCEPT !.status = "draft"] \in Rule /\ NoRule.status = "none"
      /\ [NoRule EXCEPT !.status = "draft"].status = "draft" /\ NoRule \in Rule
  BY DEF NoRule, Rule
<1>2. /\ flowspec \in [Rules -> Rule] /\ flowspecSaved \in [Rules -> Rule]
      /\ \A r \in Rules : flowspec[r].status # "active"
  BY <1>1 DEF MitInit
<1>3. MitTypeOK
  BY <1>2, NoSyncType DEF MitInit, MitTypeOK, Syncs
<1>4. \A p \in Pops : Right(tables[p], p)
  BY <1>2 DEF MitInit, Right, ActiveOn
<1>5. \A p \in Pops, s \in SyncTasks : OnItsWay(s, p)
  BY NoSyncType DEF MitInit, OnItsWay
<1> QED BY <1>3, <1>4, <1>5 DEF MitInv, Settled

LEMMA MitStepInv == MitInv /\ [MitNext]_<<mitVars, opVars>> => MitInv'
<1> SUFFICES ASSUME MitInv, [MitNext]_<<mitVars, opVars>> PROVE MitInv'
  OBVIOUS
<1>1. CASE UNCHANGED <<mitVars, opVars>>
  BY <1>1 DEF mitVars, MitInv, MitTypeOK, Settled, Concerned, OnItsWay, Queued, Right, ActiveOn
<1>2. CASE MitNext
  BY <1>2, CreateKeepsInv, DueKeepsInv, RevokeKeepsInv, MitApplyKeepsInv, ExpireKeepsInv,
     MitGenerateKeepsInv, LoadKeepsInv, MitDoneKeepsInv, MitRestartKeepsInv DEF MitNext
<1> QED BY <1>1, <1>2

LEMMA MitIsInv == MitSpec => []MitInv
  BY MitInitInv, MitStepInv, PTL DEF MitSpec

(* Rules, their saved copy, the tables and the syncs keep their types.     *)
THEOREM MitTypeCorrect == MitSpec => []MitTypeOK
<1>1. MitInv => MitTypeOK
  BY DEF MitInv
<1> QED BY <1>1, MitIsInv, PTL

(* However requests, expiries, loads and restarts are interleaved, a node  *)
(* that no sync concerns and that missed none drops what the active rules  *)
(* say, so that an expired or revoked rule is lifted there.                *)
THEOREM TablesAreRight == MitSpec => []TablesFollowRules
<1>1. MitInv => TablesFollowRules
  BY DEF MitInv, Settled, Right, TablesFollowRules
<1> QED BY <1>1, MitIsInv, PTL
------------------------------------------------------------------------------
(* The jobs that change routers.                                           *)
Script == [at : {"none", "edited", "accepted", "refused", "lost"}, node : SUBSET Nodes, bak : Confs,
           created : SUBSET Nodes, conf : Confs, tuns : SUBSET Nodes]
MeshJob == [running : BOOLEAN, ok : BOOLEAN, todo : SUBSET Nodes, failed : BOOLEAN, script : Script]
DriftCheck == [at : {"idle", "fetched", "hashed", "judged"}, node : SUBSET Nodes, conf : Confs, drift : BOOLEAN]

RouterTypes ==
    /\ birdConf \in [Nodes -> Confs] /\ decls \in [Nodes -> Confs]
    /\ tunnels \in [Nodes -> SUBSET Nodes] /\ mixed \subseteq Nodes
    /\ meshJobs \in [Nodes -> MeshJob] /\ rollbacks \in [Nodes -> Script]
    /\ checks \in [Checkers -> DriftCheck]

(* A script between its two steps is on one node, and its backup is the    *)
(* file it found.                                                          *)
AtWork(s, n) == s.at = "edited" /\ s.node = {n}
ScriptsBackUp ==
    \A id \in Nodes : meshJobs[id].script.at = "edited" =>
        /\ meshJobs[id].script.bak = meshJobs[id].script.conf
        /\ \E n \in Nodes : meshJobs[id].script.node = {n}

(* On a node that is not mixed it is the only hand, and the tunnels are    *)
(* those it found and those it made.                                       *)
ScriptsAreAlone ==
    \A id \in Nodes : \A n \in Nodes \ mixed : AtWork(meshJobs[id].script, n) =>
        /\ \A other \in Nodes : AtWork(meshJobs[other].script, n) => other = id
        /\ rollbacks[n].at # "edited"
        /\ tunnels[n] = meshJobs[id].script.tuns \cup meshJobs[id].script.created
        /\ meshJobs[id].script.tuns \cap meshJobs[id].script.created = {}

RoutersInv == RouterTypes /\ ScriptsBackUp /\ ScriptsAreAlone

LEMMA NothingRuns == NoConf \in Confs /\ NoScript \in Script /\ NoJob \in MeshJob /\ NoCheck \in DriftCheck
BY DEF NoScript, NoJob, NoCheck, Script, MeshJob, DriftCheck, Confs

LEMMA RoutersInitInv == RoutersInit => RoutersInv
<1> SUFFICES ASSUME RoutersInit PROVE RoutersInv
  OBVIOUS
<1>1. \A id \in Nodes : meshJobs[id].script.at = "none"
  BY DEF RoutersInit, NoJob, NoScript
<1>2. RouterTypes
  <2>1. birdConf \in [Nodes -> Confs]
    BY DEF RoutersInit, Confs
  <2> QED BY <2>1, NothingRuns DEF RoutersInit, RouterTypes
<1> QED BY <1>1, <1>2 DEF RoutersInv, ScriptsBackUp, ScriptsAreAlone, AtWork

(* The scripts as they were: the files may change.                         *)
LEMMA FilesKeepInv ==
  ASSUME RoutersInv, RouterTypes', UNCHANGED <<tunnels, meshJobs>>,
         \A n \in Nodes \ mixed' :
             \/ n \notin mixed /\ (rollbacks'[n].at = "edited" => rollbacks[n].at = "edited")
             \/ \A id \in Nodes : ~AtWork(meshJobs[id].script, n)
  PROVE  RoutersInv'
BY DEF RoutersInv, ScriptsBackUp, ScriptsAreAlone, AtWork

(* A script that is over, or a job without one.                            *)
LEMMA JobKeepsInv ==
  ASSUME RoutersInv, NEW id \in Nodes, NEW j \in MeshJob, j.script.at # "edited",
         meshJobs' = [meshJobs EXCEPT ![id] = j],
         UNCHANGED <<birdConf, decls, tunnels, mixed, rollbacks, checks>>
  PROVE  RoutersInv'
<1>1. RouterTypes'
  BY DEF RoutersInv, RouterTypes
<1>2. \A k \in Nodes : meshJobs'[k].script.at = "edited" => meshJobs'[k] = meshJobs[k]
  BY DEF RoutersInv, RouterTypes
<1>3. ScriptsBackUp'
  BY <1>2 DEF RoutersInv, ScriptsBackUp
<1>4. ScriptsAreAlone'
  BY <1>2 DEF RoutersInv, ScriptsAreAlone, AtWork
<1> QED BY <1>1, <1>3, <1>4 DEF RoutersInv

LEMMA BeginKeepsInv ==
  ASSUME RoutersInv, NEW id \in Nodes, NEW targets \in SUBSET Nodes, beginMeshApply(id, targets)
  PROVE  RoutersInv'
<1> DEFINE j == [NoJob EXCEPT !.running = TRUE, !.todo = targets]
<1>1. j \in MeshJob /\ j.script.at # "edited"
  BY NothingRuns DEF NoJob, NoScript, MeshJob
<1>2. meshJobs' = [meshJobs EXCEPT ![id] = j]
  BY DEF beginMeshApply
<1> HIDE DEF j
<1> QED BY <1>1, <1>2, JobKeepsInv DEF beginMeshApply, confVars, driftVars

LEMMA MeshUnreachedKeepsInv ==
  ASSUME RoutersInv, NEW id \in Nodes, NEW t \in Nodes, scriptUnreached(id, t)
  PROVE  RoutersInv'
<1> DEFINE j == [meshJobs[id] EXCEPT !.todo = @ \ {t}, !.failed = TRUE, !.script = NoScript]
<1>1. j \in MeshJob /\ j.script.at # "edited"
  BY NothingRuns DEF NoScript, MeshJob, RoutersInv, RouterTypes
<1>2. meshJobs' = [meshJobs EXCEPT ![id] = j]
  BY DEF scriptUnreached, RoutersInv, RouterTypes
<1> HIDE DEF j
<1> QED BY <1>1, <1>2, JobKeepsInv DEF scriptUnreached, confVars, driftVars

LEMMA MeshDoneKeepsInv ==
  ASSUME RoutersInv, NEW id \in Nodes, meshDone(id)
  PROVE  RoutersInv'
<1> DEFINE j == [NoJob EXCEPT !.ok = ~meshJobs[id].failed]
<1>1. j \in MeshJob /\ j.script.at # "edited"
  BY NothingRuns DEF NoJob, NoScript, MeshJob
<1>2. meshJobs' = [meshJobs EXCEPT ![id] = j]
  BY DEF meshDone
<1> HIDE DEF j
<1> QED BY <1>1, <1>2, JobKeepsInv DEF meshDone, confVars, driftVars

(* How a script ended, for the job.                                        *)
LEMMA EndedJob ==
  ASSUME RouterTypes, NEW id \in Nodes, NEW how \in {"accepted", "refused", "lost"}, Ended(id, how)
  PROVE  \E j \in MeshJob : j.script.at # "edited" /\ meshJobs' = [meshJobs EXCEPT ![id] = j]
<1> DEFINE s == [meshJobs[id].script EXCEPT !.at = how]
           j == [meshJobs[id] EXCEPT !.script = s, !.failed = @ \/ how # "accepted"]
<1>1. meshJobs[id] \in MeshJob /\ meshJobs[id].script \in Script /\ meshJobs[id].failed \in BOOLEAN
  BY DEF RouterTypes, MeshJob
<1>2. s \in Script /\ s.at # "edited"
  BY <1>1 DEF Script
<1>3. meshJobs' = [meshJobs EXCEPT ![id] = j]
  BY DEF Ended, RouterTypes
<1> HIDE DEF s
<1>4. j \in MeshJob /\ j.script = s
  BY <1>1, <1>2 DEF MeshJob
<1> HIDE DEF j
<1> QED BY <1>2, <1>3, <1>4

LEMMA EndsKeepsInv ==
  ASSUME RoutersInv, NEW id \in Nodes, scriptEnds(id)
  PROVE  RoutersInv'
<1>1. PICK how \in {"accepted", "lost"} : Ended(id, how)
  BY DEF scriptEnds
<1>2. PICK j \in MeshJob : j.script.at # "edited" /\ meshJobs' = [meshJobs EXCEPT ![id] = j]
  BY <1>1, EndedJob DEF RoutersInv
<1> QED BY <1>2, JobKeepsInv DEF scriptEnds, confVars, driftVars

(* The edit of a script: the node is its own, or it is mixed.              *)
LEMMA EditsKeepsInv ==
  ASSUME RoutersInv, NEW id \in Nodes, NEW t \in Nodes, scriptEdits(id, t)
  PROVE  RoutersInv'
<1>0. RouterTypes /\ meshJobs[id] \in MeshJob /\ birdConf[t] \in Confs /\ meshJobs[id].script.at # "edited"
  BY DEF RoutersInv, RouterTypes, scriptEdits
<1>1. CASE isNcn(birdConf[t]) \/ t = id
  <2> DEFINE new == Wanted(id, t) \ tunnels[t]
             s == [at |-> "edited", node |-> {t}, bak |-> birdConf[t], created |-> new,
                   conf |-> birdConf[t], tuns |-> tunnels[t]]
             j == [meshJobs[id] EXCEPT !.todo = @ \ {t}, !.script = s]
  <2>1. /\ meshJobs' = [meshJobs EXCEPT ![id] = j]
        /\ birdConf' = [birdConf EXCEPT ![t] = Edited(id, t)]
        /\ tunnels' = [tunnels EXCEPT ![t] = @ \cup new]
        /\ mixed' = IF Busy(t) THEN mixed \cup {t} ELSE mixed \ {t}
        /\ UNCHANGED <<decls, rollbacks, checks>>
    BY <1>0, <1>1 DEF scriptEdits, RouterTypes, driftVars
  <2>2. Wanted(id, t) \subseteq Nodes /\ new \subseteq Nodes /\ tunnels[t] \subseteq Nodes
    BY <1>0, RoutersAssumption DEF Wanted, RouterTypes
  <2>3. Edited(id, t) \in Confs
    BY <1>0, <2>2 DEF Edited, Confs, isNcn, Blocks, FullConf
  <2>4. s \in Script /\ s.node = {t} /\ s.bak = s.conf /\ s.at = "edited" /\ s.tuns = tunnels[t] /\ s.created = new
    BY <1>0, <2>2 DEF Script
  <2>5. new \cap tunnels[t] = {}
    OBVIOUS
  <2> HIDE DEF s, new
  <2>6. j \in MeshJob /\ j.script = s
    BY <1>0, <2>4 DEF MeshJob
  <2> HIDE DEF j
  <2>7. RouterTypes'
    <3>1. birdConf' \in [Nodes -> Confs] /\ tunnels' \in [Nodes -> SUBSET Nodes]
      BY <1>0, <2>1, <2>2, <2>3 DEF RouterTypes
    <3>2. meshJobs' \in [Nodes -> MeshJob] /\ mixed' \subseteq Nodes
      BY <1>0, <2>1, <2>6 DEF RouterTypes
    <3> QED BY <1>0, <2>1, <3>1, <3>2 DEF RouterTypes
  <2>8. meshJobs'[id].script = s /\ \A k \in Nodes \ {id} : meshJobs'[k] = meshJobs[k]
    BY <1>0, <2>1, <2>6 DEF RouterTypes
  <2>9. ScriptsBackUp'
    BY <2>4, <2>8 DEF RoutersInv, ScriptsBackUp
  <2>10. ASSUME NEW k \in Nodes, NEW n \in Nodes \ mixed', AtWork(meshJobs'[k].script, n)
         PROVE  /\ \A other \in Nodes : AtWork(meshJobs'[other].script, n) => other = k
                /\ rollbacks'[n].at # "edited"
                /\ tunnels'[n] = meshJobs'[k].script.tuns \cup meshJobs'[k].script.created
                /\ meshJobs'[k].script.tuns \cap meshJobs'[k].script.created = {}
    <3>1. CASE n = t
      <4>1. ~Busy(t)
        BY <2>1, <2>10, <3>1
      <4>2. k = id /\ (\A other \in Nodes : AtWork(meshJobs'[other].script, n) => other = id) /\ rollbacks[t].at # "edited"
        BY <2>8, <2>10, <3>1, <4>1 DEF Busy, ScriptsOn, AtWork
      <4>3. tunnels'[t] = tunnels[t] \cup new
        BY <1>0, <2>1 DEF RouterTypes
      <4> QED BY <2>1, <2>4, <2>5, <2>8, <3>1, <4>2, <4>3
    <3>2. CASE n # t
      <4>1. k # id /\ n \notin mixed /\ ~AtWork(meshJobs'[id].script, n) /\ tunnels'[n] = tunnels[n]
        BY <1>0, <2>1, <2>4, <2>8, <2>10, <3>2 DEF AtWork, RouterTypes
      <4> QED BY <2>1, <2>8, <2>10, <4>1 DEF RoutersInv, ScriptsAreAlone
    <3> QED BY <3>1, <3>2
  <2>11. ScriptsAreAlone'
    BY <2>10 DEF ScriptsAreAlone
  <2> QED BY <2>7, <2>9, <2>11 DEF RoutersInv
<1>2. CASE ~(isNcn(birdConf[t]) \/ t = id)
  <2> DEFINE j == [meshJobs[id] EXCEPT !.todo = @ \ {t}, !.failed = TRUE, !.script = NoScript]
  <2>1. j \in MeshJob /\ j.script.at # "edited"
    BY <1>0, NothingRuns DEF NoScript, MeshJob
  <2>2. meshJobs' = [meshJobs EXCEPT ![id] = j]
    BY <1>0, <1>2 DEF scriptEdits, RouterTypes
  <2> HIDE DEF j
  <2> QED BY <1>2, <2>1, <2>2, JobKeepsInv DEF scriptEdits, confVars, driftVars
<1> QED BY <1>1, <1>2

LEMMA RefusedKeepsInv ==
  ASSUME RoutersInv, NEW id \in Nodes, NEW t \in Nodes, scriptRefused(id, t)
  PROVE  RoutersInv'
<1> DEFINE s == meshJobs[id].script
<1>1. /\ AtWork(s, t) /\ s \in Script /\ UNCHANGED <<decls, mixed, rollbacks, checks>>
      /\ birdConf' = IF s.bak = NoConf THEN birdConf ELSE [birdConf EXCEPT ![t] = s.bak]
      /\ tunnels' = [tunnels EXCEPT ![t] = @ \ s.created]
  BY DEF scriptRefused, driftVars, AtWork, RoutersInv, RouterTypes, MeshJob
<1>2. PICK how \in {"refused", "lost"} : Ended(id, how)
  BY DEF scriptRefused
<1>3. PICK j \in MeshJob : j.script.at # "edited" /\ meshJobs' = [meshJobs EXCEPT ![id] = j]
  BY <1>2, EndedJob DEF RoutersInv
<1>4. meshJobs'[id].script.at # "edited" /\ \A k \in Nodes \ {id} : meshJobs'[k] = meshJobs[k]
  BY <1>3 DEF RoutersInv, RouterTypes
<1>5. RouterTypes'
  <2>1. birdConf' \in [Nodes -> Confs] /\ tunnels' \in [Nodes -> SUBSET Nodes]
    BY <1>1 DEF RoutersInv, RouterTypes, Script
  <2>2. meshJobs' \in [Nodes -> MeshJob]
    BY <1>3 DEF RoutersInv, RouterTypes
  <2> QED BY <1>1, <2>1, <2>2 DEF RoutersInv, RouterTypes
<1>6. ScriptsBackUp'
  BY <1>4 DEF RoutersInv, ScriptsBackUp
<1>7. ASSUME NEW k \in Nodes, NEW n \in Nodes \ mixed', AtWork(meshJobs'[k].script, n)
      PROVE  /\ \A other \in Nodes : AtWork(meshJobs'[other].script, n) => other = k
             /\ rollbacks'[n].at # "edited"
             /\ tunnels'[n] = meshJobs'[k].script.tuns \cup meshJobs'[k].script.created
             /\ meshJobs'[k].script.tuns \cap meshJobs'[k].script.created = {}
  <2>1. k # id /\ AtWork(meshJobs[k].script, n) /\ n \notin mixed
    BY <1>1, <1>4, <1>7 DEF AtWork
  <2>2. n # t
    BY <1>1, <2>1 DEF RoutersInv, ScriptsAreAlone
  <2>3. tunnels'[n] = tunnels[n]
    BY <1>1, <2>2 DEF RoutersInv, RouterTypes
  <2>4. \A other \in Nodes : AtWork(meshJobs'[other].script, n) => AtWork(meshJobs[other].script, n)
    BY <1>4 DEF AtWork
  <2> QED BY <1>1, <1>4, <2>1, <2>3, <2>4 DEF RoutersInv, ScriptsAreAlone
<1>8. ScriptsAreAlone'
  BY <1>7 DEF ScriptsAreAlone
<1> QED BY <1>5, <1>6, <1>8 DEF RoutersInv

(* A hand on the file.                                                     *)
LEMMA HandKeepsInv ==
  ASSUME RoutersInv, NEW n \in Nodes, handEdit(n)
  PROVE  RoutersInv'
<1>1. birdConf[n] \in SUBSET Blocks /\ birdConf[n] \cup {Hand} \in Confs
  BY DEF handEdit, RoutersInv, RouterTypes, Confs, isNcn, Blocks
<1>2. RouterTypes'
  <2>1. birdConf' \in [Nodes -> Confs] /\ mixed' \subseteq Nodes
    BY <1>1 DEF handEdit, RoutersInv, RouterTypes
  <2> QED BY <2>1 DEF handEdit, RoutersInv, RouterTypes, driftVars
<1>3. mixed \subseteq mixed' /\ UNCHANGED <<tunnels, meshJobs, rollbacks>>
  BY DEF handEdit, driftVars
<1> QED BY <1>2, <1>3, FilesKeepInv

LEMMA RollbackWritesKeepsInv ==
  ASSUME RoutersInv, NEW n \in Nodes, rollbackWrites(n)
  PROVE  RoutersInv'
<1> DEFINE s == [NoScript EXCEPT !.at = "edited", !.node = {n}, !.bak = birdConf[n]]
<1>1. RouterTypes /\ birdConf[n] \in Confs /\ decls[n] \in Confs
  BY DEF RoutersInv, RouterTypes
<1>2. s \in Script
  BY <1>1, NothingRuns DEF NoScript, Script
<1>3. /\ rollbacks' = [rollbacks EXCEPT ![n] = s] /\ birdConf' = [birdConf EXCEPT ![n] = decls[n]]
      /\ mixed' = IF Busy(n) THEN mixed \cup {n} ELSE mixed \ {n}
      /\ UNCHANGED <<tunnels, meshJobs, decls, checks>>
  BY DEF rollbackWrites
<1> HIDE DEF s
<1>4. RouterTypes'
  <2>1. birdConf' \in [Nodes -> Confs] /\ rollbacks' \in [Nodes -> Script] /\ mixed' \subseteq Nodes
    BY <1>1, <1>2, <1>3 DEF RouterTypes
  <2> QED BY <1>1, <1>3, <2>1 DEF RouterTypes
<1>5. ASSUME NEW m \in Nodes \ mixed'
      PROVE  \/ m \notin mixed /\ (rollbacks'[m].at = "edited" => rollbacks[m].at = "edited")
             \/ \A id \in Nodes : ~AtWork(meshJobs[id].script, m)
  <2>1. CASE m = n
    BY <1>3, <1>5, <2>1 DEF Busy, ScriptsOn, AtWork
  <2>2. CASE m # n
    BY <1>1, <1>3, <1>5, <2>2 DEF RouterTypes
  <2> QED BY <2>1, <2>2
<1> QED BY <1>3, <1>4, <1>5, FilesKeepInv

LEMMA RollbackEndsKeepsInv ==
  ASSUME RoutersInv, NEW n \in Nodes, rollbackEnds(n)
  PROVE  RoutersInv'
<1>1. PICK how \in {"accepted", "refused", "lost"} :
         /\ rollbacks' = [rollbacks EXCEPT ![n].at = how]
         /\ birdConf' = IF how = "refused" THEN [birdConf EXCEPT ![n] = rollbacks[n].bak] ELSE birdConf
  BY DEF rollbackEnds
<1>2. UNCHANGED <<tunnels, mixed, meshJobs, decls, checks>>
  BY DEF rollbackEnds
<1>3. rollbacks[n] \in Script /\ [rollbacks[n] EXCEPT !.at = how] \in Script
  BY DEF RoutersInv, RouterTypes, Script
<1>4. rollbacks' \in [Nodes -> Script] /\ birdConf' \in [Nodes -> Confs]
  BY <1>1, <1>3 DEF RoutersInv, RouterTypes, Script
<1>5. RouterTypes'
  BY <1>2, <1>4 DEF RoutersInv, RouterTypes
<1>6. \A m \in Nodes : rollbacks'[m].at = "edited" => rollbacks[m].at = "edited"
  BY <1>1 DEF RoutersInv, RouterTypes, Script
<1> QED BY <1>2, <1>5, <1>6, FilesKeepInv

(* What only looks at the files, and adopts one.                           *)
LEMMA ChecksKeepInv ==
  ASSUME RoutersInv, NEW n \in Nodes, NEW c \in Checkers,
         hashed(c, n) \/ checkNode(c, n) \/ maybeAlert(c, n) \/ fetchConfig(c, n) \/ adopt(c, n)
  PROVE  RoutersInv'
<1>1. UNCHANGED <<birdConf, tunnels, mixed, meshJobs, rollbacks>>
  BY DEF hashed, checkNode, maybeAlert, fetchConfig, adopt, Read, confVars
<1>2. checks[c] \in DriftCheck /\ birdConf[n] \in Confs
  BY DEF RoutersInv, RouterTypes
<1>3. checks' \in [Checkers -> DriftCheck] /\ decls' \in [Nodes -> Confs]
  <2>1. ASSUME NEW at \in {"fetched", "hashed"}, Read(c, n, at) PROVE checks' \in [Checkers -> DriftCheck] /\ decls' \in [Nodes -> Confs]
    <3> DEFINE k == [NoCheck EXCEPT !.at = at, !.node = {n}, !.conf = birdConf[n]]
    <3>1. k \in DriftCheck
      BY <1>2 DEF NoCheck, DriftCheck
    <3>2. checks' = [checks EXCEPT ![c] = k] /\ decls' = decls
      BY <2>1 DEF Read
    <3> HIDE DEF k
    <3> QED BY <3>1, <3>2 DEF RoutersInv, RouterTypes
  <2>2. CASE hashed(c, n) \/ fetchConfig(c, n)
    BY <2>1, <2>2 DEF hashed, fetchConfig
  <2>3. CASE checkNode(c, n)
    <3> DEFINE drift == checks[c].conf # NoConf /\ checks[c].conf # decls[n]
               k == [checks[c] EXCEPT !.at = "judged", !.drift = drift]
    <3>1. k \in DriftCheck
      BY <1>2 DEF DriftCheck
    <3>2. checks' = [checks EXCEPT ![c] = k] /\ decls' = decls
      BY <2>3 DEF checkNode, RoutersInv, RouterTypes
    <3> HIDE DEF k
    <3> QED BY <3>1, <3>2 DEF RoutersInv, RouterTypes
  <2>4. CASE maybeAlert(c, n)
    BY <2>4, NothingRuns DEF maybeAlert, RoutersInv, RouterTypes
  <2>5. CASE adopt(c, n)
    BY <1>2, <2>5, NothingRuns DEF adopt, RoutersInv, RouterTypes, DriftCheck
  <2> QED BY <2>2, <2>3, <2>4, <2>5
<1>4. RouterTypes'
  BY <1>1, <1>3 DEF RoutersInv, RouterTypes
<1> QED BY <1>1, <1>4, FilesKeepInv

LEMMA OtherJobsKeepInv ==
  ASSUME RoutersInv, UNCHANGED <<confVars, meshJobs, decls, checks, rollbacks>>
  PROVE  RoutersInv'
BY DEF confVars, RoutersInv, RouterTypes, ScriptsBackUp, ScriptsAreAlone, AtWork

LEMMA RoutersRestartKeepsInv ==
  ASSUME RoutersInv, RoutersRestart
  PROVE  RoutersInv'
<1>1. \A id \in Nodes : meshJobs'[id].script.at = "none"
  BY DEF RoutersRestart, NoJob, NoScript
<1>2. RouterTypes'
  <2>1. meshJobs' \in [Nodes -> MeshJob] /\ rollbacks' \in [Nodes -> Script] /\ checks' \in [Checkers -> DriftCheck]
    BY NothingRuns DEF RoutersRestart
  <2>2. mixed' \subseteq Nodes /\ UNCHANGED <<birdConf, decls, tunnels>>
    BY DEF RoutersRestart, RoutersInv, RouterTypes
  <2> QED BY <2>1, <2>2 DEF RoutersInv, RouterTypes
<1> QED BY <1>1, <1>2 DEF RoutersInv, ScriptsBackUp, ScriptsAreAlone, AtWork

LEMMA RoutersStepInv == RoutersInv /\ [RoutersNext]_<<routerVars, opVars>> => RoutersInv'
<1> SUFFICES ASSUME RoutersInv, [RoutersNext]_<<routerVars, opVars>> PROVE RoutersInv'
  OBVIOUS
<1>1. CASE MeshNext
  BY <1>1, BeginKeepsInv, EditsKeepsInv, MeshUnreachedKeepsInv, RefusedKeepsInv, EndsKeepsInv, MeshDoneKeepsInv,
     HandKeepsInv DEF MeshNext
<1>2. CASE DriftNext
  BY <1>2, ChecksKeepInv, RollbackWritesKeepsInv, RollbackEndsKeepsInv DEF DriftNext
<1>3. CASE OnboardNext
  <2>1. UNCHANGED <<confVars, meshJobs, decls, checks, rollbacks>>
    BY <1>3 DEF OnboardNext, startOnboard, onboardFails, bootstrapFleetKey, runOnboard, verifyAgentHealth, driftVars
  <2> QED BY <2>1, OtherJobsKeepInv
<1>4. CASE AnycastNext
  <2>1. UNCHANGED <<confVars, meshJobs, decls, checks, rollbacks>>
    BY <1>4 DEF AnycastNext, anycastSetDrain, anycastCheck, scrapeSessions, sessionChanges, driftVars
  <2> QED BY <2>1, OtherJobsKeepInv
<1>5. CASE UNCHANGED routerVars
  BY <1>5, OtherJobsKeepInv DEF routerVars, driftVars
<1> QED BY <1>1, <1>2, <1>3, <1>4, <1>5, RoutersRestartKeepsInv DEF RoutersNext

(* What a job that has no script, or whose script is over, cannot break.   *)
LEMMA CalmStep ==
  ASSUME \A id \in Nodes : \/ meshJobs'[id] = meshJobs[id]
                           \/ meshJobs'[id].script.at \notin {"edited", "refused"}
  PROVE  EditsAdd /\ RefusalsRestore
BY DEF EditsAdd, RefusalsRestore

LEMMA EditsReverse ==
  ASSUME RoutersInv, NEW id \in Nodes, NEW t \in Nodes, scriptEdits(id, t)
  PROVE  EditsAdd /\ RefusalsRestore
<1>1. RouterTypes /\ meshJobs[id] \in MeshJob /\ birdConf[t] \in Confs
  BY DEF RoutersInv, RouterTypes
<1>2. CASE isNcn(birdConf[t]) \/ t = id
  <2> DEFINE s == [at |-> "edited", node |-> {t}, bak |-> birdConf[t], created |-> Wanted(id, t) \ tunnels[t],
                   conf |-> birdConf[t], tuns |-> tunnels[t]]
             j == [meshJobs[id] EXCEPT !.todo = @ \ {t}, !.script = s]
  <2>1. meshJobs' = [meshJobs EXCEPT ![id] = j] /\ birdConf' = [birdConf EXCEPT ![t] = Edited(id, t)]
    BY <1>1, <1>2 DEF scriptEdits, RouterTypes
  <2>2. s.at = "edited" /\ s.node = {t}
    OBVIOUS
  <2> HIDE DEF s
  <2>3. j.script = s
    BY <1>1 DEF MeshJob
  <2> HIDE DEF j
  <2>4. meshJobs'[id].script = s /\ \A k \in Nodes \ {id} : meshJobs'[k] = meshJobs[k]
    BY <1>1, <2>1, <2>3 DEF RouterTypes
  <2>5. birdConf'[t] = Edited(id, t)
    BY <1>1, <2>1 DEF RouterTypes
  <2>6. isNcn(birdConf[t]) => birdConf[t] \subseteq birdConf'[t]
    BY <2>5 DEF Edited
  <2> QED BY <2>2, <2>4, <2>6 DEF EditsAdd, RefusalsRestore
<1>3. CASE ~(isNcn(birdConf[t]) \/ t = id)
  <2> DEFINE j == [meshJobs[id] EXCEPT !.todo = @ \ {t}, !.failed = TRUE, !.script = NoScript]
  <2>1. j.script.at = "none"
    BY <1>1 DEF NoScript, MeshJob
  <2>2. meshJobs' = [meshJobs EXCEPT ![id] = j]
    BY <1>1, <1>3 DEF scriptEdits, RouterTypes
  <2> HIDE DEF j
  <2>3. \A k \in Nodes : meshJobs'[k] = meshJobs[k] \/ meshJobs'[k].script.at = "none"
    BY <1>1, <2>1, <2>2 DEF RouterTypes
  <2> QED BY <2>3, CalmStep
<1> QED BY <1>2, <1>3

(* The backup is the file the script found, and the tunnels it made are    *)
(* the only ones that came.                                                *)
LEMMA RefusedReverses ==
  ASSUME RoutersInv, NEW id \in Nodes, NEW t \in Nodes, scriptRefused(id, t)
  PROVE  EditsAdd /\ RefusalsRestore
<1> DEFINE s == meshJobs[id].script
<1>1. /\ AtWork(s, t)
      /\ birdConf' = IF s.bak = NoConf THEN birdConf ELSE [birdConf EXCEPT ![t] = s.bak]
      /\ tunnels' = [tunnels EXCEPT ![t] = @ \ s.created]
  BY DEF scriptRefused, AtWork
<1>2. PICK how \in {"refused", "lost"} : Ended(id, how)
  BY DEF scriptRefused
<1>3. /\ meshJobs'[id].script.at = how /\ meshJobs'[id].script.node = {t}
      /\ \A k \in Nodes \ {id} : meshJobs'[k] = meshJobs[k]
  <2>1. meshJobs \in [Nodes -> MeshJob] /\ s \in Script /\ s.node = {t}
    BY <1>1 DEF RoutersInv, RouterTypes, MeshJob, AtWork
  <2>2. meshJobs'[id].script = [s EXCEPT !.at = how] /\ \A k \in Nodes \ {id} : meshJobs'[k] = meshJobs[k]
    BY <1>2, <2>1 DEF Ended, MeshJob
  <2> QED BY <2>1, <2>2 DEF Script
<1>4. ASSUME t \notin mixed, s.conf # NoConf PROVE birdConf'[t] = s.conf /\ tunnels'[t] = s.tuns
  <2>1. s.bak = s.conf /\ tunnels[t] = s.tuns \cup s.created /\ s.tuns \cap s.created = {}
    BY <1>1, <1>4 DEF RoutersInv, ScriptsBackUp, ScriptsAreAlone, AtWork
  <2>2. birdConf'[t] = s.conf
    BY <1>1, <1>4, <2>1 DEF RoutersInv, RouterTypes
  <2>3. tunnels'[t] = tunnels[t] \ s.created
    BY <1>1 DEF RoutersInv, RouterTypes
  <2> QED BY <2>1, <2>2, <2>3
<1>5. EditsAdd
  BY <1>3 DEF EditsAdd
<1>6. RefusalsRestore
  BY <1>3, <1>4 DEF RefusalsRestore
<1> QED BY <1>5, <1>6

LEMMA MeshStepReverses == RoutersInv /\ [RoutersNext]_<<routerVars, opVars>> => EditsAdd /\ RefusalsRestore
<1> SUFFICES ASSUME RoutersInv, [RoutersNext]_<<routerVars, opVars>> PROVE EditsAdd /\ RefusalsRestore
  OBVIOUS
<1>1. ASSUME NEW id \in Nodes, NEW j, j.script.at \notin {"edited", "refused"},
             meshJobs' = [meshJobs EXCEPT ![id] = j]
      PROVE  EditsAdd /\ RefusalsRestore
  BY <1>1, CalmStep DEF RoutersInv, RouterTypes
<1>2. ASSUME NEW id \in Nodes, NEW targets \in SUBSET Nodes, beginMeshApply(id, targets)
      PROVE  EditsAdd /\ RefusalsRestore
  <2>1. [NoJob EXCEPT !.running = TRUE, !.todo = targets].script.at = "none"
    BY DEF NoJob, NoScript
  <2> QED BY <1>1, <1>2, <2>1 DEF beginMeshApply
<1>3. ASSUME NEW id \in Nodes, NEW t \in Nodes, scriptUnreached(id, t) PROVE EditsAdd /\ RefusalsRestore
  <2> DEFINE j == [meshJobs[id] EXCEPT !.todo = @ \ {t}, !.failed = TRUE, !.script = NoScript]
  <2>1. j.script.at = "none"
    BY DEF RoutersInv, RouterTypes, MeshJob, NoScript
  <2>2. meshJobs' = [meshJobs EXCEPT ![id] = j]
    BY <1>3 DEF scriptUnreached, RoutersInv, RouterTypes
  <2> HIDE DEF j
  <2> QED BY <1>1, <2>1, <2>2
<1>4. ASSUME NEW id \in Nodes, scriptEnds(id) PROVE EditsAdd /\ RefusalsRestore
  <2>1. PICK how \in {"accepted", "lost"} : Ended(id, how)
    BY <1>4 DEF scriptEnds
  <2>2. meshJobs'[id].script.at = how /\ \A k \in Nodes \ {id} : meshJobs'[k] = meshJobs[k]
    BY <2>1 DEF Ended, RoutersInv, RouterTypes, MeshJob, Script
  <2> QED BY <2>2, CalmStep
<1>5. ASSUME NEW id \in Nodes, meshDone(id) PROVE EditsAdd /\ RefusalsRestore
  <2>1. [NoJob EXCEPT !.ok = ~meshJobs[id].failed].script.at = "none"
    BY DEF NoJob, NoScript
  <2> QED BY <1>1, <1>5, <2>1 DEF meshDone
<1>6. CASE RoutersRestart
  BY <1>6, CalmStep DEF RoutersRestart, NoJob, NoScript
<1>7. CASE UNCHANGED meshJobs
  BY <1>7, CalmStep
<1>8. \A n \in Nodes : handEdit(n) => UNCHANGED meshJobs
  BY DEF handEdit
<1>9. DriftNext \/ OnboardNext \/ AnycastNext \/ UNCHANGED routerVars => UNCHANGED meshJobs
  BY DEF DriftNext, hashed, checkNode, maybeAlert, fetchConfig, adopt, Read, rollbackWrites, rollbackEnds,
         OnboardNext, startOnboard, onboardFails, bootstrapFleetKey, runOnboard, verifyAgentHealth,
         AnycastNext, anycastSetDrain, anycastCheck, scrapeSessions, sessionChanges, routerVars
<1>10. CASE MeshNext
  BY <1>2, <1>3, <1>4, <1>5, <1>7, <1>8, <1>10, EditsReverse, RefusedReverses DEF MeshNext
<1> QED BY <1>6, <1>7, <1>9, <1>10 DEF RoutersNext

(* For any routers, wired by any number of jobs at once while people edit, *)
(* baselines are rolled back, connections are lost and the console         *)
(* restarts: a mesh script only adds to a file of ours, and a refused one  *)
(* leaves the file and the tunnels as it found them.                       *)
THEOREM MeshCanBeUndone == RoutersSpec => MeshIsReversible
<1> QED BY RoutersInitInv, RoutersStepInv, MeshStepReverses, PTL DEF RoutersSpec, MeshIsReversible

(* Every job hands its failures to the one funnel: what is proved of the   *)
(* funnel holds of them, so that no failure of a router's job is swallowed.*)
LEMMA JobsReport == [RoutersNext]_<<routerVars, opVars>> => [OpNext]_opVars
<1> SUFFICES ASSUME [RoutersNext]_<<routerVars, opVars>> PROVE OpNext \/ UNCHANGED opVars
  OBVIOUS
<1>0. {"mesh-apply", "config-rollback"} \subseteq Failures
  BY RoutersAssumption
<1>1. CASE MeshNext
  <2>1. PICK id \in Nodes :
          \/ \E targets \in SUBSET Nodes : beginMeshApply(id, targets)
          \/ \E t \in Nodes : scriptEdits(id, t) \/ scriptUnreached(id, t) \/ scriptRefused(id, t)
          \/ scriptEnds(id) \/ meshDone(id) \/ handEdit(id)
    BY <1>1 DEF MeshNext
  <2>2. CASE meshDone(id)
    <3>1. recordOpFailure("mesh-apply") \/ noFailure
      BY <2>2 DEF meshDone
    <3> QED BY <1>0, <3>1 DEF OpNext, noFailure
  <2> QED BY <2>1, <2>2 DEF beginMeshApply, scriptEdits, scriptUnreached, scriptRefused, scriptEnds, handEdit
<1>2. CASE DriftNext
  <2>1. CASE \E n \in Nodes : rollbackEnds(n)
    <3>1. recordOpFailure("config-rollback") \/ noFailure
      BY <2>1 DEF rollbackEnds
    <3> QED BY <1>0, <3>1 DEF OpNext, noFailure
  <2> QED BY <1>2, <2>1 DEF DriftNext, hashed, checkNode, maybeAlert, fetchConfig, adopt, Read, rollbackWrites
<1>3. CASE OnboardNext
  <2>1. PICK n \in Nodes : \/ \E withKey \in BOOLEAN : startOnboard(n, withKey)
                           \/ onboardFails(n) \/ bootstrapFleetKey(n) \/ runOnboard(n) \/ verifyAgentHealth(n)
    BY <1>3 DEF OnboardNext
  <2>2. CASE onboardFails(n)
    BY <2>2, RoutersAssumption DEF onboardFails, OpNext
  <2> QED BY <2>1, <2>2 DEF startOnboard, bootstrapFleetKey, runOnboard, verifyAgentHealth
<1>4. CASE AnycastNext
  BY <1>4 DEF AnycastNext, anycastSetDrain, anycastCheck, scrapeSessions, sessionChanges
<1>5. CASE RoutersRestart
  BY <1>5 DEF RoutersRestart, OpNext
<1> QED BY <1>1, <1>2, <1>3, <1>4, <1>5 DEF RoutersNext, OpNext

(* The jobs report their failures as OpFailures says, and nothing else     *)
(* touches its store: what they report is not silenced either.             *)
THEOREM JobsUseTheFunnel == RoutersSpec => OpSpec /\ []NoSilentFailure
BY JobsReport, FailuresAreTold, PTL DEF RoutersSpec, OpSpec

(* A request to apply a rule reports likewise; a revocation never does.    *)
LEMMA RequestsReport == [MitNext]_<<mitVars, opVars>> => [OpNext]_opVars
<1> SUFFICES ASSUME [MitNext]_<<mitVars, opVars>> PROVE OpNext \/ UNCHANGED opVars
  OBVIOUS
<1>1. ASSUME NEW r \in Rules, handleDDoSCreate(r) \/ ruleDue(r) PROVE UNCHANGED opVars
  BY <1>1 DEF handleDDoSCreate, ruleDue
<1>2. ASSUME NEW s \in SyncTasks, NEW r \in Rules, NEW pops,
             handleDDoSRevoke(s, r) \/ handleDDoSApply(s, r, pops)
      PROVE  UNCHANGED opVars
  BY <1>2 DEF handleDDoSRevoke, handleDDoSApply
<1>3. ASSUME NEW s \in SyncTasks, NEW p \in Pops, genNftFile(s, p) \/ syncNode(s, p) PROVE UNCHANGED opVars
  BY <1>3 DEF genNftFile, syncNode
<1>4. ASSUME NEW s \in SyncTasks, syncsDone(s) PROVE OpNext \/ UNCHANGED opVars
  <2>1. recordOpFailure(ApplyFailed) \/ noFailure
    BY <1>4 DEF syncsDone
  <2> QED BY <2>1, MitigationAssumption DEF OpNext, noFailure
<1>5. ASSUME NEW s \in SyncTasks, expire(s) PROVE UNCHANGED opVars
  BY <1>5 DEF expire
<1>6. CASE MitRestart
  BY <1>6 DEF MitRestart, OpNext
<1> QED BY <1>1, <1>2, <1>3, <1>4, <1>5, <1>6 DEF MitNext

(* Requests, expiries and syncs leave the failures to the funnel.          *)
THEOREM RequestsUseTheFunnel == MitSpec => OpSpec /\ []NoSilentFailure
BY RequestsReport, FailuresAreTold, PTL DEF MitSpec, OpSpec
------------------------------------------------------------------------------
(* Peering.  What a generation and a request are, and whose a generation   *)
(* is.                                                                     *)
Gen == [asn : Asns, prefixes : PrefixSets, status : {"generated", "applied", "drifted"},
        edges : SUBSET Edges]
App == [status : {"none", "pending", "approved", "rejected"}, asn : SUBSET Asns, age : Ages]
Request == [at : {"idle", "expand", "apply", "edited"}, asn : SUBSET Asns, gen : Nat,
            todo : SUBSET Edges, done : SUBSET Edges, edge : SUBSET Edges, bak : Nat]

IsOf(all, g, a) == g \in DOMAIN all /\ all[g].asn = a

PeerTypes ==
    /\ apps \in [Apps -> App] /\ appsSaved \in [Apps -> App]
    /\ gens \in Seq(Gen) /\ irr \in [Asns -> PrefixSets]
    /\ peerFiles \in [Edges -> [Asns -> Nat]]
    /\ crossed \subseteq Asns /\ refreshing \subseteq DOMAIN gens

CurrentOK == current \in [Asns -> Nat] /\ \A a \in Asns : current[a] = 0 \/ IsOf(gens, current[a], a)

(* What was last saved is of generations that were made.                   *)
SavedOK ==
    /\ gensSaved.gens \in Seq(Gen) /\ gensSaved.now \in [Asns -> Nat]
    /\ \A g \in DOMAIN gensSaved.gens : IsOf(gens, g, gensSaved.gens[g].asn)
    /\ \A a \in Asns : gensSaved.now[a] = 0 \/ IsOf(gens, gensSaved.now[a], a)

(* A request that applies a generation has each router in one place.       *)
RequestOK(all, k) ==
    /\ k \in Request
    /\ k.at \in {"apply", "edited"} => \E a \in Asns : k.asn = {a} /\ IsOf(all, k.gen, a)
    /\ k.done \cap (k.todo \cup k.edge) = {} /\ k.todo \cap k.edge = {}
    /\ k.at = "apply" => k.edge = {}

RequestsOK ==
    /\ peerTasks = [t \in PeerTasks |-> peerTasks[t]]
    /\ \A t \in PeerTasks : RequestOK(gens, peerTasks[t])

(* Of a peer nobody crossed: its record is true, at most one request       *)
(* applies, the routers it is done with have its file, what is newer than  *)
(* its generation claims no router, and its backup is the recorded file.   *)
Writes(k, a) == k.at \in {"apply", "edited"} /\ k.asn = {a}
Deployed(a) == current[a] # 0 => \A e \in gens[current[a]].edges : peerFiles[e][a] = current[a]
OneWriter(a) == \A s, t \in PeerTasks : Writes(peerTasks[s], a) /\ Writes(peerTasks[t], a) => s = t
Truthful(all, files, now, k, a) ==
    /\ \A e \in k.done \cup k.edge : files[e][a] = k.gen
    /\ now[a] # 0 /\ (k.gen = now[a] \/ all[now[a]].edges = {})
    /\ k.edge \cap all[now[a]].edges # {} => k.bak = now[a]
Uncrossed(a) ==
    /\ Deployed(a) /\ OneWriter(a)
    /\ \A t \in PeerTasks : Writes(peerTasks[t], a) => Truthful(gens, peerFiles, current, peerTasks[t], a)

PeeringInv ==
    PeerTypes /\ CurrentOK /\ SavedOK /\ RequestsOK /\ \A a \in Asns \ crossed : Uncrossed(a)

LEMMA PeeringInitInv == PeeringInit => PeeringInv
<1> SUFFICES ASSUME PeeringInit PROVE PeeringInv
  OBVIOUS
<1> USE DEF PeeringInit
<1>1. PeerTypes
  <2>1. apps \in [Apps -> App]
    BY DEF NoApp, App, Ages
  <2>2. peerFiles \in [Edges -> [Asns -> Nat]]
    OBVIOUS
  <2> QED BY <2>1, <2>2 DEF PeerTypes
<1>2. CurrentOK /\ SavedOK
  BY DEF CurrentOK, SavedOK
<1>3. RequestOK(gens, NoTask) /\ NoTask.at = "idle"
  BY DEF RequestOK, Request, NoTask
<1>4. RequestsOK /\ \A t \in PeerTasks : peerTasks[t].at = "idle"
  BY <1>3 DEF RequestsOK
<1>5. \A a \in Asns \ crossed : Uncrossed(a)
  BY <1>4 DEF Uncrossed, Deployed, OneWriter, Writes
<1> QED BY <1>1, <1>2, <1>4, <1>5 DEF PeeringInv

(* The applications, the IRR and what the watch has listed.                *)
LEMMA OutsideKeepsInv ==
  ASSUME PeeringInv, UNCHANGED <<genVars, peerFiles, peerTasks>>,
         apps' \in [Apps -> App], appsSaved' \in [Apps -> App], irr' \in [Asns -> PrefixSets],
         refreshing' \subseteq DOMAIN gens
  PROVE  PeeringInv'
<1> USE DEF PeeringInv, genVars
<1>1. PeerTypes'
  BY DEF PeerTypes
<1>2. CurrentOK' /\ SavedOK'
  BY DEF CurrentOK, SavedOK, IsOf
<1>3. RequestsOK'
  BY DEF RequestsOK, RequestOK, IsOf
<1>4. ASSUME NEW a \in Asns \ crossed' PROVE Uncrossed(a)'
  BY DEF Uncrossed, Deployed, OneWriter, Writes, Truthful
<1> QED BY <1>1, <1>2, <1>3, <1>4

LEMMA LiveType ==
  ASSUME NEW all \in [Apps -> App]
  PROVE  Live(all) \in [Apps -> App]
BY DEF Live, App, NoApp, Ages

LEMMA AppsKeepInv ==
  ASSUME PeeringInv,
         \/ \E x \in Apps, a \in Asns : handleApply(x, a)
         \/ \E x \in Apps, status \in {"approved", "rejected"} : handleDecide(x, status)
         \/ \E x \in Apps : appAges(x)
         \/ handleList \/ \E a \in Asns : irrChanges(a)
         \/ checkBegins
  PROVE  PeeringInv'
<1>1. /\ apps \in [Apps -> App] /\ appsSaved \in [Apps -> App] /\ irr \in [Asns -> PrefixSets]
      /\ refreshing \subseteq DOMAIN gens /\ Live(apps) \in [Apps -> App]
  BY LiveType DEF PeeringInv, PeerTypes
<1>2. ASSUME NEW x \in Apps, NEW a \in Asns, handleApply(x, a) PROVE PeeringInv'
  <2>1. [Live(apps) EXCEPT ![x] = [status |-> "pending", asn |-> {a}, age |-> 0]] \in [Apps -> App]
    BY <1>1 DEF App, Ages
  <2> QED BY <1>1, <1>2, <2>1, OutsideKeepsInv DEF handleApply, persistApps
<1>3. ASSUME NEW x \in Apps, NEW status \in {"approved", "rejected"}, handleDecide(x, status)
      PROVE  PeeringInv'
  <2>1. [apps EXCEPT ![x].status = status,
                     ![x].age = IF apps[x].age = 2 THEN 1 ELSE apps[x].age] \in [Apps -> App]
    <3>1. \A n \in Ages : [apps EXCEPT ![x].status = status, ![x].age = n] \in [Apps -> App]
      <4> SUFFICES ASSUME NEW n \in Ages
                   PROVE  [apps EXCEPT ![x].status = status, ![x].age = n] \in [Apps -> App]
        OBVIOUS
      <4>1. [apps[x] EXCEPT !.status = status, !.age = n] \in App
        BY <1>1 DEF App
      <4> QED BY <1>1, <4>1
    <3>2. (IF apps[x].age = 2 THEN 1 ELSE apps[x].age) \in Ages
      BY <1>1 DEF App, Ages
    <3> QED BY <3>1, <3>2
  <2> QED BY <1>1, <1>3, <2>1, OutsideKeepsInv DEF handleDecide, persistApps
<1>4. ASSUME NEW x \in Apps, appAges(x) PROVE PeeringInv'
  <2>1. apps[x].age + 1 \in Ages
    <3>1. apps[x] \in App
      BY <1>1
    <3>2. apps[x].age \in 0 .. 2 /\ apps[x].status \in {"pending", "approved", "rejected"}
      BY <1>4, <3>1 DEF appAges, App, Ages
    <3>3. apps[x].age < (IF apps[x].status = "pending" THEN 1 ELSE 2)
      BY <1>4 DEF appAges
    <3>4. apps[x].age < 2
      BY <3>2, <3>3
    <3> QED BY <3>2, <3>4 DEF Ages
  <2>2. \A all \in [Apps -> App] : [all EXCEPT ![x].age = apps[x].age + 1] \in [Apps -> App]
    BY <2>1 DEF App
  <2>3. apps' \in [Apps -> App] /\ appsSaved' \in [Apps -> App]
    BY <1>1, <1>4, <2>2 DEF appAges
  <2> QED BY <1>1, <1>4, <2>3, OutsideKeepsInv DEF appAges
<1>5. ASSUME handleList PROVE PeeringInv'
  BY <1>1, <1>5, OutsideKeepsInv DEF handleList
<1>6. ASSUME NEW a \in Asns, irrChanges(a) PROVE PeeringInv'
  BY <1>1, <1>6, OutsideKeepsInv DEF irrChanges
<1>7. ASSUME checkBegins PROVE PeeringInv'
  <2>1. refreshing' \subseteq DOMAIN gens
    BY <1>7 DEF checkBegins, PeeringInv, CurrentOK, IsOf
  <2> QED BY <1>1, <1>7, <2>1, OutsideKeepsInv DEF checkBegins
<1> QED BY <1>2, <1>3, <1>4, <1>5, <1>6, <1>7

(* A generation stays what it is, whatever becomes of its status.          *)
KeepsGens ==
    gens' \in Seq(Gen) /\ \A g \in DOMAIN gens : g \in DOMAIN gens' /\ gens'[g].asn = gens[g].asn

LEMMA KeptGens ==
  ASSUME KeepsGens
  PROVE  /\ \A g, a : IsOf(gens, g, a) => IsOf(gens', g, a)
         /\ \A k : RequestOK(gens, k) => RequestOK(gens', k)
<1>1. \A g, a : IsOf(gens, g, a) => IsOf(gens', g, a)
  BY DEF KeepsGens, IsOf
<1> QED BY <1>1 DEF RequestOK

LEMMA SavedStep ==
  ASSUME PeeringInv, KeepsGens, CurrentOK', persistGens
  PROVE  SavedOK'
<1>1. CASE gensSaved' = gensSaved
  BY <1>1, KeptGens DEF PeeringInv, SavedOK
<1>2. CASE gensSaved' = [now |-> current', gens |-> gens']
  <2>1. gensSaved'.gens = gens' /\ gensSaved'.now = current'
    BY <1>2
  <2> QED BY <2>1 DEF KeepsGens, CurrentOK, SavedOK, IsOf
<1> QED BY <1>1, <1>2 DEF persistGens

(* A step of one request.                                                  *)
Moves(t) ==
    /\ peerTasks' = [s \in PeerTasks |-> peerTasks'[s]]
    /\ \A s \in PeerTasks \ {t} : peerTasks'[s] = peerTasks[s]

LEMMA RequestStep ==
  ASSUME PeeringInv, KeepsGens, NEW t \in PeerTasks, Moves(t), RequestOK(gens', peerTasks'[t])
  PROVE  RequestsOK'
BY KeptGens DEF PeeringInv, RequestsOK, Moves

LEMMA TaskRests ==
  ASSUME PeeringInv, NEW t \in PeerTasks, NEW k, RequestOK(gens, k), k.at \in {"idle", "expand"},
         peerTasks' = [peerTasks EXCEPT ![t] = k],
         UNCHANGED <<apps, appsSaved, genVars, irr, peerFiles, refreshing>>
  PROVE  PeeringInv'
<1>0. UNCHANGED <<gens, current, gensSaved, crossed>>
  BY DEF genVars
<1>1. KeepsGens
  BY <1>0 DEF KeepsGens, PeeringInv, PeerTypes
<1>2. Moves(t) /\ peerTasks'[t] = k
  BY DEF PeeringInv, RequestsOK, Moves
<1>3. RequestsOK'
  BY <1>0, <1>1, <1>2, RequestStep
<1>4. PeerTypes' /\ CurrentOK' /\ SavedOK'
  BY <1>0 DEF PeeringInv, PeerTypes, CurrentOK, SavedOK, IsOf
<1>5. ASSUME NEW a \in Asns \ crossed' PROVE Uncrossed(a)'
  <2>1. Uncrossed(a)
    BY <1>0, <1>5 DEF PeeringInv
  <2>2. \A s \in PeerTasks : Writes(peerTasks'[s], a) => Writes(peerTasks[s], a) /\ peerTasks'[s] = peerTasks[s]
    BY <1>2 DEF Moves, Writes
  <2>3. Deployed(a)'
    BY <1>0, <2>1 DEF Uncrossed, Deployed
  <2>4. OneWriter(a)'
    BY <2>1, <2>2 DEF Uncrossed, OneWriter
  <2> QED BY <1>0, <2>1, <2>2, <2>3, <2>4 DEF Uncrossed
<1> QED BY <1>3, <1>4, <1>5 DEF PeeringInv

LEMMA NoTaskRests == \A all : RequestOK(all, NoTask) /\ NoTask.at = "idle"
  BY DEF RequestOK, Request, NoTask

LEMMA ConfigKeepsInv ==
  ASSUME PeeringInv, NEW t \in PeerTasks,
         expandFails(t) \/ \E x \in Apps : handlePeerConfig(t, x)
  PROVE  PeeringInv'
<1>1. CASE expandFails(t)
  BY <1>1, NoTaskRests, TaskRests DEF expandFails
<1>2. ASSUME NEW x \in Apps, handlePeerConfig(t, x) PROVE PeeringInv'
  <2> DEFINE k == [NoTask EXCEPT !.at = "expand", !.asn = apps[x].asn]
  <2>1. apps[x].asn \subseteq Asns
    BY DEF PeeringInv, PeerTypes, App
  <2>2. RequestOK(gens, k) /\ k.at = "expand"
    BY <2>1 DEF RequestOK, Request, NoTask
  <2>3. peerTasks' = [peerTasks EXCEPT ![t] = k]
    BY <1>2 DEF handlePeerConfig
  <2> HIDE DEF k
  <2> QED BY <1>2, <2>2, <2>3, TaskRests DEF handlePeerConfig
<1> QED BY <1>1, <1>2

LEMMA GenerateKeepsInv ==
  ASSUME PeeringInv, NEW t \in PeerTasks, NEW a \in Asns, genPeerConfig(t, a)
  PROVE  PeeringInv'
<1> DEFINE gen == [asn |-> a, prefixes |-> irr[a], status |-> "generated", edges |-> {}]
           n == Len(gens) + 1
<1>1. /\ gens' = Append(gens, gen) /\ current' = [current EXCEPT ![a] = n] /\ persistGens
      /\ peerTasks' = [peerTasks EXCEPT ![t] = NoTask]
      /\ UNCHANGED <<apps, appsSaved, crossed, irr, peerFiles, refreshing>>
  BY DEF genPeerConfig
<1>2. gens \in Seq(Gen) /\ gen \in Gen /\ gen.asn = a /\ gen.edges = {}
  BY DEF PeeringInv, PeerTypes, Gen
<1> HIDE DEF gen
<1>3. /\ gens' \in Seq(Gen) /\ n \in Nat /\ n # 0 /\ n \in DOMAIN gens' /\ gens'[n] = gen
      /\ \A g \in DOMAIN gens : g \in DOMAIN gens' /\ gens'[g] = gens[g]
  BY <1>1, <1>2
<1> HIDE DEF n
<1>4. KeepsGens
  BY <1>3 DEF KeepsGens
<1>5. Moves(t) /\ peerTasks'[t] = NoTask
  BY <1>1 DEF PeeringInv, RequestsOK, Moves
<1>6. RequestsOK'
  BY <1>4, <1>5, NoTaskRests, RequestStep
<1>7. CurrentOK'
  <2>1. current' \in [Asns -> Nat] /\ current'[a] = n /\ \A b \in Asns \ {a} : current'[b] = current[b]
    BY <1>1, <1>3 DEF PeeringInv, CurrentOK
  <2> QED BY <1>2, <1>3, <1>4, <2>1, KeptGens DEF PeeringInv, CurrentOK, IsOf
<1>8. SavedOK'
  BY <1>1, <1>4, <1>7, SavedStep
<1>9. PeerTypes'
  BY <1>1, <1>3 DEF PeeringInv, PeerTypes
<1>10. ASSUME NEW b \in Asns \ crossed' PROVE Uncrossed(b)'
  <2>1. Uncrossed(b) /\ CurrentOK /\ RequestsOK
    BY <1>1, <1>10 DEF PeeringInv
  <2>2. \A s \in PeerTasks : Writes(peerTasks'[s], b) => Writes(peerTasks[s], b) /\ peerTasks'[s] = peerTasks[s]
    BY <1>5, NoTaskRests DEF Moves, Writes
  <2>3. OneWriter(b)'
    BY <2>1, <2>2 DEF Uncrossed, OneWriter
  <2>4. CASE b = a
    <3>1. current'[b] = n /\ gens'[current'[b]].edges = {}
      BY <1>1, <1>2, <1>3, <2>1, <2>4 DEF CurrentOK
    <3>2. Deployed(b)'
      BY <3>1 DEF Deployed
    <3>3. n # 0 /\ peerFiles' = peerFiles
      BY <1>1, <1>3
    <3>4. ASSUME NEW s \in PeerTasks, Writes(peerTasks'[s], b)
          PROVE  Truthful(gens, peerFiles, current, peerTasks[s], b) /\ peerTasks'[s] = peerTasks[s]
      BY <2>1, <2>2, <3>4 DEF Uncrossed
    <3>5. ASSUME NEW s \in PeerTasks, Writes(peerTasks'[s], b)
          PROVE  Truthful(gens', peerFiles', current', peerTasks'[s], b)
      <4>1. \A e \in peerTasks'[s].done \cup peerTasks'[s].edge : peerFiles'[e][b] = peerTasks'[s].gen
        BY <3>3, <3>4, <3>5 DEF Truthful
      <4> QED BY <3>1, <3>3, <4>1 DEF Truthful
    <3> QED BY <2>3, <3>2, <3>5 DEF Uncrossed
  <2>5. CASE b # a
    <3>1. current'[b] = current[b] /\ (current[b] # 0 => gens'[current[b]] = gens[current[b]])
      BY <1>1, <1>3, <2>1, <2>5 DEF CurrentOK, IsOf
    <3>2. Deployed(b)'
      BY <1>1, <2>1, <3>1 DEF Uncrossed, Deployed
    <3>3. ASSUME NEW s \in PeerTasks, Writes(peerTasks'[s], b)
          PROVE  Truthful(gens', peerFiles', current', peerTasks'[s], b)
      <4>1. Truthful(gens, peerFiles, current, peerTasks[s], b) /\ peerTasks'[s] = peerTasks[s]
        BY <2>1, <2>2, <3>3 DEF Uncrossed
      <4> QED BY <1>1, <3>1, <4>1 DEF Truthful
    <3> QED BY <2>3, <3>2, <3>3 DEF Uncrossed
  <2> QED BY <2>4, <2>5
<1> QED BY <1>6, <1>7, <1>8, <1>9, <1>10 DEF PeeringInv

LEMMA ApplyKeepsInv ==
  ASSUME PeeringInv, NEW t \in PeerTasks, NEW a \in Asns, NEW edges \in SUBSET Edges,
         handlePeerApply(t, a, edges)
  PROVE  PeeringInv'
<1> DEFINE k == [NoTask EXCEPT !.at = "apply", !.asn = {a}, !.gen = current[a], !.todo = edges]
<1>1. /\ peerTasks[t] = NoTask /\ current[a] # 0 /\ peerTasks' = [peerTasks EXCEPT ![t] = k]
      /\ crossed' = IF Applying(a) # {} THEN crossed \cup {a} ELSE crossed
      /\ UNCHANGED <<apps, appsSaved, gens, current, gensSaved, irr, peerFiles, refreshing>>
  BY DEF handlePeerApply
<1>2. current[a] \in Nat /\ IsOf(gens, current[a], a)
  BY <1>1 DEF PeeringInv, CurrentOK
<1>3. /\ RequestOK(gens, k) /\ k.at = "apply" /\ k.asn = {a} /\ k.gen = current[a]
      /\ k.done = {} /\ k.edge = {}
  BY <1>2 DEF RequestOK, Request, NoTask
<1> HIDE DEF k
<1>4. KeepsGens
  BY <1>1 DEF KeepsGens, PeeringInv, PeerTypes
<1>5. Moves(t) /\ peerTasks'[t] = k
  BY <1>1 DEF PeeringInv, RequestsOK, Moves
<1>6. RequestsOK'
  BY <1>1, <1>3, <1>4, <1>5, RequestStep
<1>7. PeerTypes' /\ CurrentOK' /\ SavedOK'
  BY <1>1 DEF PeeringInv, PeerTypes, CurrentOK, SavedOK, IsOf
<1>8. ASSUME NEW b \in Asns \ crossed' PROVE Uncrossed(b)'
  <2>1. Uncrossed(b) /\ (b = a => Applying(a) = {})
    BY <1>1, <1>8 DEF PeeringInv
  <2>2. \A s \in PeerTasks \ {t} : peerTasks'[s] = peerTasks[s] /\ (b = a => ~Writes(peerTasks'[s], b))
    BY <1>5, <2>1 DEF Moves, Writes, Applying
  <2>3. Writes(k, b) => b = a
    BY <1>3 DEF Writes
  <2>4. Deployed(b)'
    BY <1>1, <2>1 DEF Uncrossed, Deployed
  <2>5. OneWriter(b)'
    BY <1>5, <2>1, <2>2, <2>3 DEF Uncrossed, OneWriter
  <2>6. ASSUME NEW s \in PeerTasks, Writes(peerTasks'[s], b)
        PROVE  Truthful(gens, peerFiles, current, peerTasks'[s], b)
    <3>1. CASE s = t
      BY <1>1, <1>3, <1>5, <2>3, <2>6, <3>1 DEF Truthful
    <3>2. CASE s # t
      BY <2>1, <2>2, <2>6, <3>2 DEF Uncrossed
    <3> QED BY <3>1, <3>2
  <2> QED BY <1>1, <2>4, <2>5, <2>6 DEF Uncrossed
<1> QED BY <1>6, <1>7, <1>8 DEF PeeringInv

LEMMA ClaimedRouters ==
  ASSUME PeeringInv, NEW a \in Asns, current[a] # 0
  PROVE  gens[current[a]] \in Gen /\ gens[current[a]].edges \subseteq Edges
<1>1. gens \in Seq(Gen) /\ current[a] \in DOMAIN gens
  BY DEF PeeringInv, PeerTypes, CurrentOK, IsOf
<1>2. gens[current[a]] \in Gen
  BY <1>1
<1> QED BY <1>2 DEF Gen

(* What the steps on a router have in common: the request goes on, and     *)
(* only its peer's file on that router may change.                         *)
OnRouter(t, a, e) ==
    /\ Moves(t) /\ RequestOK(gens, peerTasks'[t])
    /\ Writes(peerTasks[t], a) /\ Writes(peerTasks'[t], a) /\ peerTasks'[t].gen = peerTasks[t].gen
    /\ peerFiles' \in [Edges -> [Asns -> Nat]]
    /\ \A f \in Edges, b \in Asns : f # e \/ b # a => peerFiles'[f][b] = peerFiles[f][b]
    /\ UNCHANGED <<apps, appsSaved, gens, current, gensSaved, crossed, irr, refreshing>>

LEMMA RouterKeepsInv ==
  ASSUME PeeringInv, NEW t \in PeerTasks, NEW a \in Asns, NEW e \in Edges, OnRouter(t, a, e),
         a \notin crossed => Deployed(a)' /\ Truthful(gens, peerFiles', current, peerTasks'[t], a)
  PROVE  PeeringInv'
<1>1. UNCHANGED <<apps, appsSaved, gens, current, gensSaved, crossed, irr, refreshing>>
  BY DEF OnRouter
<1>2. KeepsGens
  BY <1>1 DEF KeepsGens, PeeringInv, PeerTypes
<1>3. RequestsOK'
  BY <1>1, <1>2, RequestStep DEF OnRouter
<1>4. PeerTypes' /\ CurrentOK' /\ SavedOK'
  BY <1>1 DEF PeeringInv, PeerTypes, CurrentOK, SavedOK, IsOf, OnRouter
<1>5. ASSUME NEW b \in Asns \ crossed' PROVE Uncrossed(b)'
  <2>1. Uncrossed(b)
    BY <1>1, <1>5 DEF PeeringInv
  <2>2. \A s \in PeerTasks \ {t} : peerTasks'[s] = peerTasks[s]
    BY DEF OnRouter, Moves
  <2>3. \A s \in PeerTasks : Writes(peerTasks'[s], b) => Writes(peerTasks[s], b)
    BY <2>2 DEF OnRouter, Writes
  <2>4. OneWriter(b)'
    BY <2>1, <2>3 DEF Uncrossed, OneWriter
  <2>5. CASE b = a
    <3>1. \A s \in PeerTasks : Writes(peerTasks'[s], b) => s = t
      BY <2>1, <2>3, <2>5 DEF Uncrossed, OneWriter, OnRouter
    <3> QED BY <1>1, <1>5, <2>4, <2>5, <3>1 DEF Uncrossed
  <2>6. CASE b # a
    <3>1. \A f \in Edges : peerFiles'[f][b] = peerFiles[f][b]
      BY <2>6 DEF OnRouter
    <3>2. Deployed(b)'
      <4>1. current[b] # 0 => gens[current[b]].edges \subseteq Edges
        BY ClaimedRouters
      <4> QED BY <1>1, <2>1, <3>1, <4>1 DEF Uncrossed, Deployed
    <3>3. \A s \in PeerTasks : Writes(peerTasks'[s], b) => s # t
      BY <2>6 DEF OnRouter, Writes
    <3>4. \A s \in PeerTasks : peerTasks[s].done \cup peerTasks[s].edge \subseteq Edges
      BY DEF PeeringInv, RequestsOK, RequestOK, Request
    <3> QED BY <1>1, <2>1, <2>2, <2>4, <3>1, <3>2, <3>3, <3>4 DEF Uncrossed, Truthful
  <2> QED BY <2>5, <2>6
<1> QED BY <1>3, <1>4, <1>5 DEF PeeringInv

LEMMA WriteOnRouter ==
  ASSUME PeeringInv, NEW t \in PeerTasks, NEW a \in Asns, NEW e \in Edges, peerScriptWrites(t, a, e)
  PROVE  PeeringInv'
<1>1. /\ peerTasks[t].at = "apply" /\ peerTasks[t].asn = {a} /\ e \in peerTasks[t].todo
      /\ peerFiles' = [peerFiles EXCEPT ![e][a] = peerTasks[t].gen]
      /\ UNCHANGED <<apps, appsSaved, gens, current, gensSaved, crossed, irr, refreshing>>
  BY DEF peerScriptWrites, genVars
<1>2. RequestOK(gens, peerTasks[t]) /\ peerTasks[t] \in Request /\ peerFiles \in [Edges -> [Asns -> Nat]]
  BY DEF PeeringInv, RequestsOK, RequestOK, PeerTypes
<1>3. /\ Moves(t) /\ peerTasks'[t] \in Request
      /\ peerTasks'[t].at = "edited" /\ peerTasks'[t].edge = {e} /\ peerTasks'[t].bak = peerFiles[e][a]
      /\ peerTasks'[t].todo = peerTasks[t].todo \ {e} /\ peerTasks'[t].done = peerTasks[t].done
      /\ peerTasks'[t].asn = {a} /\ peerTasks'[t].gen = peerTasks[t].gen
  <2>1. peerTasks = [s \in PeerTasks |-> peerTasks[s]]
    BY DEF PeeringInv, RequestsOK
  <2>2. peerTasks' = [peerTasks EXCEPT ![t].at = "edited", ![t].edge = {e},
                        ![t].bak = peerFiles[e][a], ![t].todo = @ \ {e}]
    BY DEF peerScriptWrites
  <2>3. peerFiles[e][a] \in Nat /\ peerTasks[t] \in Request
    BY <1>2
  <2> QED BY ONLY <1>1, <2>1, <2>2, <2>3, t \in PeerTasks, e \in Edges DEF Moves, Request
<1>4. RequestOK(gens, peerTasks'[t])
  BY <1>1, <1>2, <1>3 DEF RequestOK
<1>5. /\ peerFiles' \in [Edges -> [Asns -> Nat]] /\ peerFiles'[e][a] = peerTasks[t].gen
      /\ \A f \in Edges, b \in Asns : f # e \/ b # a => peerFiles'[f][b] = peerFiles[f][b]
  BY <1>1, <1>2 DEF Request
<1>6. OnRouter(t, a, e)
  BY <1>1, <1>3, <1>4, <1>5 DEF OnRouter, Writes
<1>7. ASSUME a \notin crossed
      PROVE  Deployed(a)' /\ Truthful(gens, peerFiles', current, peerTasks'[t], a)
  <2>1. Deployed(a) /\ Truthful(gens, peerFiles, current, peerTasks[t], a)
    BY <1>1, <1>7 DEF PeeringInv, Uncrossed, Writes
  <2>2. current[a] # 0 => gens[current[a]].edges \subseteq Edges
    BY ClaimedRouters
  <2>3. Deployed(a)'
    BY <1>1, <1>5, <2>1, <2>2 DEF Deployed, Truthful
  <2>4. \A f \in peerTasks'[t].done \cup peerTasks'[t].edge : peerFiles'[f][a] = peerTasks'[t].gen
    BY <1>2, <1>3, <1>5, <2>1 DEF Truthful, Request
  <2>5. peerTasks'[t].edge \cap gens[current[a]].edges # {} => peerTasks'[t].bak = current[a]
    BY <1>3, <2>1 DEF Deployed, Truthful
  <2> QED BY <1>3, <2>1, <2>3, <2>4, <2>5 DEF Truthful
<1> QED BY <1>6, <1>7, RouterKeepsInv

LEMMA EndOnRouter ==
  ASSUME PeeringInv, NEW t \in PeerTasks, NEW a \in Asns, NEW e \in Edges,
         NEW how \in {"accepted", "refused", "lost"}, peerScriptEnds(t, a, e, how)
  PROVE  PeeringInv'
<1>1. /\ peerTasks[t].at = "edited" /\ peerTasks[t].asn = {a} /\ peerTasks[t].edge = {e}
      /\ peerFiles' = IF how = "refused" THEN [peerFiles EXCEPT ![e][a] = peerTasks[t].bak] ELSE peerFiles
      /\ UNCHANGED <<apps, appsSaved, gens, current, gensSaved, crossed, irr, refreshing>>
  BY DEF peerScriptEnds, genVars
<1>2. RequestOK(gens, peerTasks[t]) /\ peerTasks[t] \in Request /\ peerFiles \in [Edges -> [Asns -> Nat]]
  BY DEF PeeringInv, RequestsOK, RequestOK, PeerTypes
<1>3. /\ Moves(t) /\ peerTasks'[t] \in Request
      /\ peerTasks'[t].at = "apply" /\ peerTasks'[t].edge = {}
      /\ peerTasks'[t].todo = peerTasks[t].todo
      /\ peerTasks'[t].done = IF how = "accepted" THEN peerTasks[t].done \cup {e} ELSE peerTasks[t].done
      /\ peerTasks'[t].asn = {a} /\ peerTasks'[t].gen = peerTasks[t].gen
  BY <1>1, <1>2 DEF peerScriptEnds, PeeringInv, RequestsOK, Moves, Request
<1>4. RequestOK(gens, peerTasks'[t])
  BY <1>1, <1>2, <1>3 DEF RequestOK
<1>5. /\ peerFiles' \in [Edges -> [Asns -> Nat]]
      /\ peerFiles'[e][a] = IF how = "refused" THEN peerTasks[t].bak ELSE peerFiles[e][a]
      /\ \A f \in Edges, b \in Asns : f # e \/ b # a => peerFiles'[f][b] = peerFiles[f][b]
  BY <1>1, <1>2 DEF Request
<1>6. OnRouter(t, a, e)
  BY <1>1, <1>3, <1>4, <1>5 DEF OnRouter, Writes
<1>7. ASSUME a \notin crossed
      PROVE  Deployed(a)' /\ Truthful(gens, peerFiles', current, peerTasks'[t], a)
  <2>1. Deployed(a) /\ Truthful(gens, peerFiles, current, peerTasks[t], a)
    BY <1>1, <1>7 DEF PeeringInv, Uncrossed, Writes
  <2>2. current[a] # 0 => gens[current[a]].edges \subseteq Edges
    BY ClaimedRouters
  <2>3. Deployed(a)'
    BY <1>1, <1>5, <2>1, <2>2 DEF Deployed, Truthful
  <2>4. \A f \in peerTasks'[t].done : peerFiles'[f][a] = peerTasks'[t].gen
    <3>1. e \notin peerTasks[t].done
      BY <1>1, <1>2 DEF RequestOK
    <3> QED BY <1>1, <1>2, <1>3, <1>5, <2>1, <3>1 DEF Truthful, Request
  <2> QED BY <1>3, <2>1, <2>3, <2>4 DEF Truthful
<1> QED BY <1>6, <1>7, RouterKeepsInv

LEMMA UnreachedKeepsInv ==
  ASSUME PeeringInv, NEW t \in PeerTasks, NEW e \in Edges, peerUnreached(t, e)
  PROVE  PeeringInv'
<1>1. /\ peerTasks[t].at = "apply" /\ peerTasks' = [peerTasks EXCEPT ![t].todo = @ \ {e}]
      /\ UNCHANGED <<apps, appsSaved, gens, current, gensSaved, crossed, irr, peerFiles, refreshing>>
  BY DEF peerUnreached, genVars
<1>2. RequestOK(gens, peerTasks[t]) /\ peerTasks[t] \in Request
  BY DEF PeeringInv, RequestsOK, RequestOK
<1>3. /\ Moves(t) /\ peerTasks'[t] \in Request
      /\ peerTasks'[t].at = "apply" /\ peerTasks'[t].edge = peerTasks[t].edge
      /\ peerTasks'[t].todo = peerTasks[t].todo \ {e} /\ peerTasks'[t].done = peerTasks[t].done
      /\ peerTasks'[t].asn = peerTasks[t].asn /\ peerTasks'[t].gen = peerTasks[t].gen
      /\ peerTasks'[t].bak = peerTasks[t].bak
  BY <1>1, <1>2 DEF PeeringInv, RequestsOK, Moves, Request
<1>4. RequestOK(gens, peerTasks'[t])
  BY <1>1, <1>2, <1>3 DEF RequestOK
<1> PICK a \in Asns : peerTasks[t].asn = {a}
  BY <1>1, <1>2 DEF RequestOK
<1>5. OnRouter(t, a, e)
  BY <1>1, <1>3, <1>4 DEF OnRouter, Writes, PeeringInv, PeerTypes
<1>6. ASSUME a \notin crossed
      PROVE  Deployed(a)' /\ Truthful(gens, peerFiles', current, peerTasks'[t], a)
  <2>1. Deployed(a) /\ Truthful(gens, peerFiles, current, peerTasks[t], a)
    BY <1>1, <1>6 DEF PeeringInv, Uncrossed, Writes
  <2> QED BY <1>1, <1>3, <2>1 DEF Deployed, Truthful
<1> QED BY <1>5, <1>6, RouterKeepsInv

(* A generation is put back by who held it: what others of its peer knew   *)
(* is crossed unless it is the current one.                                *)
LEMMA PutKeepsInv ==
  ASSUME PeeringInv, KeepsGens, NEW g \in DOMAIN gens, NEW a \in Asns, gens[g].asn = a, put(g), persistGens,
         crossed' = crossed \cup Crosses(g), RequestsOK',
         \A h \in DOMAIN gens \ {g} : gens'[h] = gens[h],
         \A s \in PeerTasks : peerTasks'[s].at \in {"apply", "edited"} => peerTasks'[s] = peerTasks[s],
         \A s \in PeerTasks : a \notin crossed /\ Writes(peerTasks'[s], a) => gens'[g].edges = gens[g].edges,
         a \notin crossed' => \A e \in gens'[g].edges : peerFiles[e][a] = g,
         refreshing' \subseteq refreshing, UNCHANGED <<apps, appsSaved, irr, peerFiles>>
  PROVE  PeeringInv'
<1>1. /\ current' = [current EXCEPT ![a] = g]
      /\ crossed' = crossed \cup (IF current[a] # g THEN {a} ELSE {})
  BY DEF put, Crosses, Of
<1>2. g \in Nat /\ g # 0 /\ current \in [Asns -> Nat]
  BY DEF PeeringInv, PeerTypes, CurrentOK
<1>3. /\ current' \in [Asns -> Nat] /\ current'[a] = g
      /\ \A b \in Asns \ {a} : current'[b] = current[b]
  BY <1>1, <1>2
<1>4. CurrentOK'
  BY <1>3, KeptGens DEF PeeringInv, CurrentOK, IsOf
<1>5. SavedOK'
  BY <1>4, SavedStep
<1>6. PeerTypes'
  BY <1>1 DEF KeepsGens, PeeringInv, PeerTypes
<1>7. ASSUME NEW b \in Asns \ crossed' PROVE Uncrossed(b)'
  <2>1. Uncrossed(b) /\ b \notin crossed
    BY <1>1, <1>7 DEF PeeringInv
  <2>2. \A s \in PeerTasks : Writes(peerTasks'[s], b) => Writes(peerTasks[s], b) /\ peerTasks'[s] = peerTasks[s]
    BY DEF Writes
  <2>3. OneWriter(b)'
    BY <2>1, <2>2 DEF Uncrossed, OneWriter
  <2>4. CASE b = a
    <3>1. current[a] = g
      BY <1>1, <1>7, <2>4
    <3>2. Deployed(b)'
      BY <1>3, <1>7, <2>4 DEF Deployed
    <3> QED BY <1>3, <2>1, <2>2, <2>3, <2>4, <3>1, <3>2 DEF Uncrossed, Truthful
  <2>5. CASE b # a
    <3>1. current'[b] = current[b] /\ (current[b] # 0 => gens'[current[b]] = gens[current[b]])
      BY <1>3, <2>5 DEF PeeringInv, CurrentOK, IsOf
    <3>2. Deployed(b)'
      BY <2>1, <3>1 DEF Uncrossed, Deployed
    <3> QED BY <2>1, <2>2, <2>3, <3>1, <3>2 DEF Uncrossed, Truthful
  <2> QED BY <2>4, <2>5
<1> QED BY <1>4, <1>5, <1>6, <1>7 DEF PeeringInv

LEMMA DoneKeepsInv ==
  ASSUME PeeringInv, NEW t \in PeerTasks, applyDone(t)
  PROVE  PeeringInv'
<1>1. /\ peerTasks[t].at = "apply" /\ peerTasks' = [peerTasks EXCEPT ![t] = NoTask]
      /\ UNCHANGED <<apps, appsSaved, irr, peerFiles, refreshing>>
  BY DEF applyDone
<1>2. CASE UNCHANGED genVars
  BY <1>1, <1>2, NoTaskRests, TaskRests
<1>3. CASE Recorded(t, peerTasks[t].done)
  <2>1. RequestOK(gens, peerTasks[t]) /\ peerTasks[t].done \subseteq Edges
    BY DEF PeeringInv, RequestsOK, RequestOK, Request
  <2> PICK a \in Asns : peerTasks[t].asn = {a} /\ IsOf(gens, peerTasks[t].gen, a)
    BY <1>1, <2>1 DEF RequestOK
  <2> PICK g \in DOMAIN gens : g = peerTasks[t].gen
    BY DEF IsOf
  <2>2. gens[g].asn = a
    BY DEF IsOf
  <2>3. /\ gens' = [gens EXCEPT ![g].status = "applied", ![g].edges = peerTasks[t].done]
        /\ put(g) /\ persistGens /\ crossed' = crossed \cup Crosses(g)
    BY <1>3 DEF Recorded
  <2>4. gens \in Seq(Gen) /\ gens[g] \in Gen
    BY DEF PeeringInv, PeerTypes
  <2>5. /\ gens'[g].edges = peerTasks[t].done /\ gens'[g] \in Gen /\ gens'[g].asn = a
        /\ \A h \in DOMAIN gens \ {g} : gens'[h] = gens[h]
        /\ DOMAIN gens' = DOMAIN gens
    BY <2>1, <2>2, <2>3, <2>4 DEF Gen
  <2>6. gens' \in Seq(Gen)
    BY <2>1, <2>3, <2>4 DEF Gen
  <2>7. KeepsGens
    BY <2>2, <2>5, <2>6 DEF KeepsGens
  <2>8. Moves(t) /\ peerTasks'[t] = NoTask
    BY <1>1 DEF PeeringInv, RequestsOK, Moves
  <2>9. RequestsOK'
    BY <2>7, <2>8, NoTaskRests, RequestStep
  <2>10. \A s \in PeerTasks : peerTasks'[s].at \in {"apply", "edited"} => s # t /\ peerTasks'[s] = peerTasks[s]
    BY <2>8, NoTaskRests DEF Moves
  <2>11. ASSUME a \notin crossed
         PROVE  /\ \A e \in gens'[g].edges : peerFiles[e][a] = g
                /\ \A s \in PeerTasks : ~Writes(peerTasks'[s], a)
    <3>1. Writes(peerTasks[t], a) /\ Uncrossed(a)
      BY <1>1, <2>11 DEF Writes, PeeringInv
    <3>2. \A e \in gens'[g].edges : peerFiles[e][a] = g
      BY <2>5, <3>1 DEF Uncrossed, Truthful
    <3>3. ASSUME NEW s \in PeerTasks, Writes(peerTasks'[s], a) PROVE FALSE
      BY <2>10, <3>1, <3>3 DEF Uncrossed, OneWriter, Writes
    <3> QED BY <3>2, <3>3
  <2> QED BY <1>1, <2>2, <2>3, <2>5, <2>7, <2>9, <2>10, <2>11, PutKeepsInv
<1> QED BY <1>2, <1>3 DEF applyDone

LEMMA CheckKeepsInv ==
  ASSUME PeeringInv, NEW g \in refreshing, check(g)
  PROVE  PeeringInv'
<1>1. /\ refreshing' \subseteq refreshing /\ UNCHANGED <<apps, appsSaved, irr, peerFiles, peerTasks>>
      /\ g \in DOMAIN gens
  BY DEF check, PeeringInv, PeerTypes
<1>2. CASE UNCHANGED genVars
  <2>1. /\ apps \in [Apps -> App] /\ appsSaved \in [Apps -> App] /\ irr \in [Asns -> PrefixSets]
        /\ refreshing \subseteq DOMAIN gens
    BY DEF PeeringInv, PeerTypes
  <2> QED BY <1>1, <1>2, <2>1, OutsideKeepsInv
<1>3. CASE ~UNCHANGED genVars
  <2>1. /\ gens' = [gens EXCEPT ![g].status = "drifted"]
        /\ put(g) /\ persistGens /\ crossed' = crossed \cup Crosses(g)
    BY <1>3 DEF check
  <2>2. gens \in Seq(Gen) /\ gens[g] \in Gen
    BY <1>1 DEF PeeringInv, PeerTypes
  <2>3. /\ gens'[g].edges = gens[g].edges /\ gens'[g].asn = gens[g].asn
        /\ \A h \in DOMAIN gens \ {g} : gens'[h] = gens[h]
        /\ DOMAIN gens' = DOMAIN gens
    BY <1>1, <2>1, <2>2 DEF Gen
  <2>4. gens' \in Seq(Gen)
    BY <1>1, <2>1, <2>2 DEF Gen
  <2>5. KeepsGens
    BY <2>3, <2>4 DEF KeepsGens
  <2>6. RequestsOK'
    BY <1>1, <2>5, KeptGens DEF PeeringInv, RequestsOK
  <2> PICK a \in Asns : gens[g].asn = a
    BY <2>2 DEF Gen
  <2>7. ASSUME a \notin crossed' PROVE \A e \in gens'[g].edges : peerFiles[e][a] = g
    <3>1. current[a] = g /\ a \notin crossed
      BY <2>1, <2>7 DEF Crosses, Of
    <3>2. g # 0
      BY <1>1, <2>2
    <3> QED BY <2>3, <3>1, <3>2 DEF PeeringInv, Uncrossed, Deployed
  <2> QED BY <1>1, <2>1, <2>3, <2>5, <2>6, <2>7, PutKeepsInv
<1> QED BY <1>2, <1>3

LEMMA PeerRestartKeepsInv ==
  ASSUME PeeringInv, PeeringRestart
  PROVE  PeeringInv'
<1> DEFINE saved == gensSaved.gens
<1>1. /\ current' = gensSaved.now /\ gensSaved' = gensSaved
      /\ gens' = [g \in DOMAIN gens |-> IF g \in DOMAIN saved THEN saved[g] ELSE gens[g]]
      /\ crossed' = crossed \cup {a \in Asns : \/ current'[a] # current[a]
                                               \/ current[a] # 0 /\ gens'[current[a]] # gens[current[a]]}
      /\ peerTasks' = [t \in PeerTasks |-> NoTask] /\ refreshing' = {}
      /\ apps' = Live(appsSaved) /\ UNCHANGED <<appsSaved, irr, peerFiles>>
  BY DEF PeeringRestart
<1>2. gens \in Seq(Gen) /\ saved \in Seq(Gen)
  BY DEF PeeringInv, PeerTypes, SavedOK
<1>3. \A g \in DOMAIN saved : g \in DOMAIN gens /\ gens[g].asn = saved[g].asn
  BY DEF PeeringInv, SavedOK, IsOf
<1> HIDE DEF saved
<1>4. DOMAIN gens' = DOMAIN gens /\ \A g \in DOMAIN gens : gens'[g].asn = gens[g].asn
  BY <1>1, <1>3
<1>5. gens' \in Seq(Gen)
  <2> PICK n \in Nat : n = Len(gens) /\ DOMAIN gens = 1 .. n
    BY <1>2
  <2>1. \A g \in 1 .. n : gens[g] \in Gen /\ (g \in DOMAIN saved => saved[g] \in Gen)
    BY <1>2
  <2>2. gens' \in [1 .. n -> Gen]
    BY <1>1, <2>1
  <2> QED BY <2>2, SeqDef
<1>6. KeepsGens
  BY <1>4, <1>5 DEF KeepsGens
<1>7. CurrentOK' /\ SavedOK'
  BY <1>1, <1>6, KeptGens DEF PeeringInv, SavedOK, CurrentOK
<1>8. RequestsOK' /\ \A t \in PeerTasks, a \in Asns : ~Writes(peerTasks'[t], a)
  BY <1>1, NoTaskRests DEF RequestsOK, Writes
<1>9. PeerTypes'
  BY <1>1, <1>5, LiveType DEF PeeringInv, PeerTypes
<1>10. ASSUME NEW a \in Asns \ crossed' PROVE Uncrossed(a)'
  <2>1. /\ a \notin crossed /\ current'[a] = current[a]
        /\ current[a] # 0 => gens'[current[a]] = gens[current[a]]
    BY <1>1, <1>10
  <2>2. Deployed(a)'
    BY <1>1, <2>1 DEF PeeringInv, Uncrossed, Deployed
  <2> QED BY <1>8, <2>2 DEF Uncrossed, OneWriter
<1> QED BY <1>7, <1>8, <1>9, <1>10 DEF PeeringInv

LEMMA PeeringStepInv == PeeringInv /\ [PeeringNext]_peeringVars => PeeringInv'
<1> SUFFICES ASSUME PeeringInv, [PeeringNext]_peeringVars PROVE PeeringInv'
  OBVIOUS
<1>1. CASE UNCHANGED peeringVars
  <2>1. /\ apps \in [Apps -> App] /\ appsSaved \in [Apps -> App] /\ irr \in [Asns -> PrefixSets]
        /\ refreshing \subseteq DOMAIN gens
    BY DEF PeeringInv, PeerTypes
  <2> QED BY <1>1, <2>1, OutsideKeepsInv DEF peeringVars, genVars
<1>2. CASE PeeringRequests
  BY <1>2, AppsKeepInv, ConfigKeepsInv, ApplyKeepsInv, PeerRestartKeepsInv DEF PeeringRequests
<1>3. CASE PeeringWork
  <2>1. ASSUME NEW t \in PeerTasks,
               \/ \E a \in Asns : genPeerConfig(t, a)
               \/ \E e \in Edges : peerUnreached(t, e) \/ \E a \in Asns :
                    \/ peerScriptWrites(t, a, e)
                    \/ \E how \in {"accepted", "refused", "lost"} : peerScriptEnds(t, a, e, how)
        PROVE  PeeringInv'
    BY <2>1, GenerateKeepsInv, UnreachedKeepsInv, WriteOnRouter, EndOnRouter
  <2> QED BY <1>3, <2>1, AppsKeepInv, ConfigKeepsInv, DoneKeepsInv, CheckKeepsInv DEF PeeringWork
<1> QED BY <1>1, <1>2, <1>3 DEF PeeringNext

(* For any applications, peers, routers and requests at once, whatever the *)
(* scripts do and whenever the backend restarts: a peer's record names     *)
(* only routers that have the recorded file, unless writers crossed.       *)
THEOREM RecordsAreTrue == PeeringSpec => []RecordedIsDeployed
<1>1. PeeringInv => RecordedIsDeployed
  BY DEF PeeringInv, Uncrossed, Deployed, RecordedIsDeployed
<1> QED BY <1>1, PeeringInitInv, PeeringStepInv, PTL DEF PeeringSpec
===============================================================================
