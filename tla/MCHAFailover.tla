---------------------------- MODULE MCHAFailover ----------------------------
(* Model values for HAFailover: one pair of hosts, an A and an AAAA record. *)
EXTENDS HAFailover

Ranked == [o \in Origin |-> IF o = Primary THEN 1 ELSE 2]

File(os, m) == [origins |-> os, mode |-> m, unhealthy |-> 2, healthy |-> 1, runnable |-> TRUE]
Armed == {File(Host, "armed")}
=============================================================================
