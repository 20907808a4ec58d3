------------------------------- MODULE OneShot -------------------------------
(***************************************************************************)
(* What every ticket, challenge, state and code that the console stores    *)
(* promises: it is honoured at most once, and never after it lapsed or was *)
(* refused.                                                                *)
(***************************************************************************)
EXTENDS Naturals

CONSTANT Tickets
VARIABLES open, uses

Init == open = {} /\ uses = [t \in Tickets |-> 0]

Issue(t) == t \notin open /\ uses[t] = 0 /\ open' = open \cup {t} /\ UNCHANGED uses
Honour(t) == t \in open /\ open' = open \ {t} /\ uses' = [uses EXCEPT ![t] = 1]
Close(t) == t \in open /\ open' = open \ {t} /\ UNCHANGED uses
\* An exchange: one ticket is honoured with another.
Exchange(s, t) ==
    /\ s \in open /\ t \notin open /\ uses[t] = 0
    /\ open' = (open \ {s}) \cup {t} /\ uses' = [uses EXCEPT ![s] = 1]
Crash == open' = {} /\ UNCHANGED uses

Next ==
    \/ \E t \in Tickets : Issue(t) \/ Honour(t) \/ Close(t)
    \/ \E s, t \in Tickets : Exchange(s, t)
    \/ Crash

Spec == Init /\ [][Next]_<<open, uses>>

(* The promise, without the bookkeeping. *)
AtMostOnce == \A t \in Tickets : uses[t] <= 1 /\ (uses[t] = 1 => t \notin open)
==============================================================================
