-------------------------------- MODULE Drills --------------------------------
(***************************************************************************)
(* The under-attack drill of the Telegram bot (backend/bot_drill.go).  A   *)
(* goroutine loads the boxes, blacks the console out, bans SSH on box after*)
(* box and, when told or at the cap, undoes it twice; /stop undoes it from *)
(* the bot's loop at the same time.  A script may not reach its box, or be *)
(* cut off in it.  Its last line leaves a dead-man on the box, a shell that *)
(* sleeps and lifts the ban; the dead-man of the backend's own box runs in *)
(* the backend's service and is killed with it.  A ban is a script's rules, *)
(* all of them or some.  Messages and the lengths of time are left out.    *)
(***************************************************************************)
EXTENDS Naturals, Sequences

CONSTANTS
    Boxes,              \* drillFWNodes, in order: the backend's own box first
    MaxBans             \* bound on the bans of a box

ASSUME DrillsAssumption ==
    DOMAIN Boxes = 1 .. Len(Boxes) /\ Len(Boxes) \in Nat \ {0} /\ MaxBans \in Nat

VARIABLES
    drill,              \* runDrill: the stage and the box it is at; "none" is
                        \* drillCancel = nil
    stopper,            \* replyStop, in the bot's loop
    blackout,           \* drillBlackoutFlag: nginx answers 503
    burning,            \* boxes with load burners
    bans, deadmen,      \* per box: bans in the firewall, dead-men asleep
    unarmed,            \* history: per box, the scripts cut off before the dead-man
                        \* that no undoing script has answered since
    drillDied           \* history: the backend was restarted in a drill

drillVars == <<drill, stopper, blackout, burning, bans, deadmen, unarmed, drillDied>>

AllBoxes == {Boxes[i] : i \in DOMAIN Boxes}
Own == Boxes[1]
Stage(at, box) == [at |-> at, box |-> box]
Stages == {"none", "loading", "banning", "attacking", "killing", "lifting", "killing again", "lifting again"}

DrillTypeOK ==
    /\ drill \in [at : Stages, box : 1 .. Len(Boxes) + 1]
    /\ stopper \in [at : {"none", "killing", "lifting"}, box : 1 .. Len(Boxes) + 1]
    /\ blackout \in BOOLEAN /\ drillDied \in BOOLEAN
    /\ burning \subseteq AllBoxes
    /\ bans \in [AllBoxes -> 0 .. MaxBans] /\ deadmen \in [AllBoxes -> 0 .. MaxBans]
    /\ unarmed \in [AllBoxes -> 0 .. MaxBans]

DrillInit ==
    /\ drill = Stage("none", 1) /\ stopper = Stage("none", 1)
    /\ blackout = FALSE /\ drillDied = FALSE
    /\ burning = {}
    /\ bans = [b \in AllBoxes |-> 0] /\ deadmen = [b \in AllBoxes |-> 0]
    /\ unarmed = [b \in AllBoxes |-> 0]

------------------------------------------------------------------------------
(* The bot's loop is in /stop until its last script has run.               *)
replyStormTest ==
    /\ stopper.at = "none" /\ drill.at = "none"
    /\ drill' = Stage("loading", 1)
    /\ UNCHANGED <<stopper, blackout, burning, bans, deadmen, unarmed, drillDied>>

startLoadBurners(b) == burning' \in {burning, burning \cup {b}}

(* A mutant: the marker is on the dead-men's shells too.                   *)
MutKillAll(b) ==
    /\ burning' \in {burning, burning \ {b}}
    /\ deadmen' = [deadmen EXCEPT ![b] = 0] /\ UNCHANGED <<bans, unarmed>>

killLoadBurners(b) ==
    /\ burning' \in {burning, burning \ {b}}
    /\ UNCHANGED <<bans, deadmen, unarmed>>

(* The script bans with its first lines and leaves the dead-man with its   *)
(* last; each may fail, and it may not run or be cut off in between.       *)
startBlackout(b) == \E banned, armed \in {0, 1} :
    LET short == IF armed < banned THEN 1 ELSE 0
    IN  /\ bans[b] + banned <= MaxBans /\ deadmen[b] + armed <= MaxBans
        /\ unarmed[b] + short <= MaxBans
        /\ bans' = [bans EXCEPT ![b] = @ + banned]
        /\ deadmen' = [deadmen EXCEPT ![b] = @ + armed]
        /\ unarmed' = [unarmed EXCEPT ![b] = @ + short]

(* iptables -D deletes one rule, if there is one.                          *)
OneLess(count, b) == IF count[b] = 0 THEN count ELSE [count EXCEPT ![b] = @ - 1]
endBlackout(b) ==
    \/ UNCHANGED <<bans, unarmed>>
    \/ bans' = OneLess(bans, b) /\ unarmed' = OneLess(unarmed, b)

deadManWakes(b) ==
    /\ deadmen[b] > 0
    /\ deadmen' = [deadmen EXCEPT ![b] = @ - 1]
    /\ bans' = OneLess(bans, b)
    /\ UNCHANGED <<drill, stopper, blackout, burning, unarmed, drillDied>>

(* timeout maxsecs of the burners.                                         *)
burnersEnd(b) ==
    /\ b \in burning
    /\ burning' = burning \ {b}
    /\ UNCHANGED <<drill, stopper, blackout, bans, deadmen, unarmed, drillDied>>

------------------------------------------------------------------------------
(* The script of a stage on its next box, or the stage's end.              *)
Over(stage) == stage.box > Len(Boxes)
NextBox(stage) == [stage EXCEPT !.box = @ + 1]

runDrillLoads ==
    /\ drill.at = "loading"
    /\ \/ /\ ~Over(drill) /\ drill' = NextBox(drill)
          /\ startLoadBurners(Boxes[drill.box]) /\ UNCHANGED blackout
       \/ /\ Over(drill) /\ drill' = Stage("banning", 1)
          /\ blackout' = TRUE /\ UNCHANGED burning
    /\ UNCHANGED <<stopper, bans, deadmen, unarmed, drillDied>>

runDrillBans ==
    /\ drill.at = "banning"
    /\ \/ /\ ~Over(drill) /\ drill' = NextBox(drill) /\ startBlackout(Boxes[drill.box])
       \/ /\ Over(drill) /\ drill' = Stage("attacking", 1) /\ UNCHANGED <<bans, deadmen, unarmed>>
    /\ UNCHANGED <<stopper, blackout, burning, drillDied>>

(* At maxsecs, or because /stop cancelled the context.                      *)
runDrillEnds ==
    /\ drill.at = "attacking"
    /\ drill' = Stage("killing", 1)
    /\ UNCHANGED <<stopper, blackout, burning, bans, deadmen, unarmed, drillDied>>

(* The recovery, once in the function and once in its defer.               *)
runDrillRecovers(kill, lift, then) ==
    /\ \/ /\ drill.at = kill /\ ~Over(drill)
          /\ killLoadBurners(Boxes[drill.box]) /\ drill' = NextBox(drill) /\ UNCHANGED blackout
       \/ /\ drill.at = kill /\ Over(drill)
          /\ blackout' = FALSE /\ drill' = Stage(lift, 1) /\ UNCHANGED <<burning, bans, deadmen, unarmed>>
       \/ /\ drill.at = lift /\ ~Over(drill)
          /\ endBlackout(Boxes[drill.box]) /\ drill' = NextBox(drill) /\ UNCHANGED <<burning, blackout, deadmen>>
       \/ /\ drill.at = lift /\ Over(drill)
          /\ drill' = Stage(then, 1) /\ UNCHANGED <<burning, blackout, bans, deadmen, unarmed>>
    /\ UNCHANGED <<stopper, drillDied>>

(* /stop undoes everything itself; its cancel is the early runDrillEnds.   *)
replyStop ==
    /\ stopper.at = "none"
    /\ stopper' = Stage("killing", 1)
    /\ UNCHANGED <<drill, blackout, burning, bans, deadmen, unarmed, drillDied>>

replyStopRecovers ==
    /\ \/ /\ stopper.at = "killing" /\ ~Over(stopper)
          /\ killLoadBurners(Boxes[stopper.box]) /\ stopper' = NextBox(stopper)
          /\ UNCHANGED blackout
       \/ /\ stopper.at = "killing" /\ Over(stopper)
          /\ blackout' = FALSE /\ stopper' = Stage("lifting", 1)
          /\ UNCHANGED <<burning, bans, deadmen, unarmed>>
       \/ /\ stopper.at = "lifting" /\ ~Over(stopper)
          /\ endBlackout(Boxes[stopper.box]) /\ stopper' = NextBox(stopper)
          /\ UNCHANGED <<burning, blackout, deadmen>>
       \/ /\ stopper.at = "lifting" /\ Over(stopper)
          /\ stopper' = Stage("none", 1)
          /\ UNCHANGED <<burning, blackout, bans, deadmen, unarmed>>
    /\ UNCHANGED <<drill, drillDied>>

(* systemd kills what the service started on its own box; the flag is a    *)
(* file and the bans are in the firewall.                                  *)
DrillRestart ==
    /\ drill' = Stage("none", 1) /\ stopper' = Stage("none", 1)
    /\ drillDied' = (drillDied \/ drill.at # "none")
    /\ burning' = burning \ {Own} /\ deadmen' = [deadmen EXCEPT ![Own] = 0]
    /\ UNCHANGED <<blackout, bans, unarmed>>

DrillEvents == replyStormTest \/ replyStop \/ DrillRestart
DrillWork ==
    \/ runDrillLoads \/ runDrillBans \/ runDrillEnds \/ replyStopRecovers
    \/ runDrillRecovers("killing", "lifting", "killing again")
    \/ runDrillRecovers("killing again", "lifting again", "none")
    \/ \E b \in AllBoxes : deadManWakes(b) \/ burnersEnd(b)

DrillNext == DrillEvents \/ DrillWork
DrillSpec == DrillInit /\ [][DrillNext]_drillVars

------------------------------------------------------------------------------
(* What a drill leaves behind undoes itself: a ban on another box that was *)
(* not lifted, because the script did not get there or the bot died, has a *)
(* dead-man asleep that will lift it, or else its script was cut off and   *)
(* the undoing scripts that have reached the box since were fewer; the     *)
(* console is back when the drill is over, unless the backend died in it.  *)
DrillsUndoThemselves ==
    /\ \A b \in AllBoxes \ {Own} : bans[b] <= deadmen[b] + unarmed[b]
    /\ drill.at = "none" => ~blackout \/ drillDied

(* What bot_drill.go:276-278 says, that each box restores itself even if   *)
(* the bot dies; a script that is cut off before its last line violates it. *)
BansHaveDeadMen == \A b \in AllBoxes \ {Own} : bans[b] <= deadmen[b]
==============================================================================
