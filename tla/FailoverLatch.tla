---------------------------- MODULE FailoverLatch ----------------------------
(***************************************************************************)
(* What ncn-lb promises its operators: an active-passive selector that     *)
(* adopts one primary, moves at most once to another origin, and stays     *)
(* there until the process is restarted.                                   *)
(***************************************************************************)
CONSTANTS Origin, NoOrigin

VARIABLES active, failing

Init == active = NoOrigin /\ failing = FALSE

Adopt == active = NoOrigin /\ active' \in Origin /\ UNCHANGED failing

Move ==
  /\ active \in Origin
  /\ ~failing
  /\ active' \in Origin \ {active}
  /\ failing' = TRUE

Spec == Init /\ [][Adopt \/ Move]_<<active, failing>>
=============================================================================
