------------------------------ MODULE FleetView ------------------------------
(***************************************************************************)
(* What the fleet shows the alert engine: the nodes that are live and have *)
(* been scraped, and the evictions under way of nodes taken out.           *)
(* AlertEngine takes its environment's steps from here, and NodeLifecycle  *)
(* is shown to take no others: together they are the console's fleet and   *)
(* its alerts.                                                             *)
(***************************************************************************)
CONSTANT Node

VARIABLES
  fleet,      \* nodes of fleetScraper.nodes that have a cached status
  evicting    \* nodes taken out of the scrape set, evictNode still to run

Init == fleet = {} /\ evicting = {}

Scraped(n) == fleet' = fleet \cup {n} /\ UNCHANGED evicting

Leaves(n) == fleet' = fleet \ {n} /\ evicting' = evicting \cup {n}

(* Another eviction of the same node may still be under way.               *)
Evicted(n) ==
  /\ n \in evicting
  /\ evicting' \in {evicting, evicting \ {n}}
  /\ UNCHANGED fleet

Restart == fleet' = {} /\ evicting' = {}

Next == Restart \/ \E n \in Node : Scraped(n) \/ Leaves(n) \/ Evicted(n)

Spec == Init /\ [][Next]_<<fleet, evicting>>
=============================================================================
