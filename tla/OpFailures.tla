------------------------------ MODULE OpFailures ------------------------------
(***************************************************************************)
(* The record of operators' actions that failed (backend/opfailures.go)    *)
(* and how it is told (backend/bot_opfail.go).  A failure is stored in     *)
(* PostgreSQL or, if that refuses it, in a ring in memory; unless the same *)
(* one was seen within the window it is told: a critical one after the     *)
(* assistant has looked at it, in a goroutine of up to a minute.           *)
(*                                                                         *)
(* A failure is its kind, target and reason, the signature by which repeats*)
(* are recognised: a repeat re-opens it.  The ring never reaches its cap.  *)
(***************************************************************************)
EXTENDS Naturals

CONSTANTS
    Failures,
    CritFailures,       \* those of the kinds isCritFailure names
    NotifyWindow        \* opNotifyDedupWindow, in ticks of opClock

ASSUME OpFailuresAssumption == CritFailures \subseteq Failures /\ NotifyWindow \in Nat \ {0}

VARIABLES
    opRows, opRing,     \* the two stores: the status of each failure
    opLast,             \* opNotifyDedup.last, as an age; NotifyWindow is "long ago"
    triages,            \* failures the assistant is looking at
    opCards             \* the channels each failure was last told to

opVars == <<opRows, opRing, opLast, triages, opCards>>

Statuses == {"none", "open", "dismissed"}
OpTypeOK ==
    /\ opRows \in [Failures -> Statuses] /\ opRing \in [Failures -> Statuses]
    /\ opLast \in [Failures -> 0 .. NotifyWindow]
    /\ triages \subseteq Failures
    /\ opCards \in [Failures -> SUBSET {"errors", "group"}]

OpInit ==
    /\ opRows = [f \in Failures |-> "none"] /\ opRing = [f \in Failures |-> "none"]
    /\ opLast = [f \in Failures |-> NotifyWindow]
    /\ triages = {}
    /\ opCards = [f \in Failures |-> {}]

------------------------------------------------------------------------------
Reopened(store, f) == [store EXCEPT ![f] = "open"]
add(f) ==
    \/ opRows' = Reopened(opRows, f) /\ UNCHANGED opRing
    \/ opRing' = Reopened(opRing, f) /\ UNCHANGED opRows

sendOpFailureCard(f, escalate) ==
    opCards' = [opCards EXCEPT ![f] = {"errors"} \cup IF escalate THEN {"group"} ELSE {}]

(* Not critical: the error channel.  Critical and no assistant: both.      *)
triageOpFailure(f) ==
    \/ /\ f \notin CritFailures
       /\ sendOpFailureCard(f, FALSE) /\ UNCHANGED triages
    \/ /\ f \in CritFailures
       /\ sendOpFailureCard(f, TRUE) /\ UNCHANGED triages
    \/ /\ f \in CritFailures
       /\ triages' = triages \cup {f}
       /\ opCards' = [opCards EXCEPT ![f] = {}]

opFailureShouldNotify(f) == opLast[f] = NotifyWindow

(* The funnel.  The signature is stamped also when nothing is told.        *)
recordOpFailure(f) ==
    /\ add(f)
    /\ opLast' = [opLast EXCEPT ![f] = 0]
    /\ IF opFailureShouldNotify(f)
       THEN triageOpFailure(f) ELSE UNCHANGED <<triages, opCards>>

noFailure == UNCHANGED opVars

(* A mutant: when the assistant fails, nothing is told. *)
MutSilentTriage(f) ==
    /\ f \in triages /\ triages' = triages \ {f}
    /\ \/ sendOpFailureCard(f, TRUE)
       \/ UNCHANGED opCards
    /\ UNCHANGED <<opRows, opRing, opLast>>

(* The verdict, or none: only VERDICT: EXTERNAL keeps it from the group.   *)
triaged(f) ==
    /\ f \in triages /\ triages' = triages \ {f}
    /\ \E external \in BOOLEAN : sendOpFailureCard(f, ~external)
    /\ UNCHANGED <<opRows, opRing, opLast>>

dismiss(f) ==
    /\ \/ opRows[f] # "none" /\ opRows' = [opRows EXCEPT ![f] = "dismissed"] /\ UNCHANGED opRing
       \/ opRing[f] # "none" /\ opRing' = [opRing EXCEPT ![f] = "dismissed"] /\ UNCHANGED opRows
    /\ UNCHANGED <<opLast, triages, opCards>>

listSnapshot(dbAnswers) ==
    {f \in Failures : IF dbAnswers THEN opRows[f] # "none" ELSE opRing[f] # "none"}

opClock ==
    LET older(age) == [f \in Failures |-> IF age[f] < NotifyWindow THEN age[f] + 1 ELSE age[f]]
    IN  /\ opLast' = older(opLast)
        /\ UNCHANGED <<opRows, opRing, triages, opCards>>

(* ncn-api restarts: the ring, the signatures and the triages are gone.    *)
OpRestart ==
    /\ opRing' = [f \in Failures |-> "none"]
    /\ opLast' = [f \in Failures |-> NotifyWindow] /\ triages' = {}
    /\ UNCHANGED <<opRows, opCards>>

OpNext ==
    \/ \E f \in Failures : recordOpFailure(f) \/ triaged(f) \/ dismiss(f)
    \/ opClock
    \/ OpRestart

OpSpec == OpInit /\ [][OpNext]_opVars

------------------------------------------------------------------------------
(* A failure that the process remembers as told was handed to the error    *)
(* channel, or the assistant still looks at it: what became of the         *)
(* assistant never swallows an operator's failure.                         *)
NoSilentFailure ==
    \A f \in Failures : opLast[f] < NotifyWindow => f \in triages \/ "errors" \in opCards[f]

==============================================================================
