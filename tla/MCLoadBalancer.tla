--------------------------- MODULE MCLoadBalancer ---------------------------
(* Model values for LoadBalancer: a primary and one or two standbys, every *)
(* mode, a script that is or is not runnable, thresholds set or defaulted. *)
EXTENDS LoadBalancer

CONSTANTS o1, o2, o3

RankedPriority == [o \in Origin |-> CASE o = o1 -> 1 [] o = o2 -> 2 [] OTHER -> 3]

File(os, m, u, h, r) ==
  [origins |-> os, mode |-> m, unhealthy |-> u, healthy |-> h, runnable |-> r]

ManyFiles ==
  {File({o1, o2}, "armed", 0, 0, TRUE), File({o1, o2, o3}, "armed", 2, 1, TRUE),
   File({o1, o2}, "armed", 2, 3, FALSE), File({o1, o2}, "", 1, 2, TRUE),
   File({o1}, "armed", 2, 2, TRUE), File({}, "observe", 3, 2, TRUE)}

DefaultFile == {File({o1, o2}, "armed", 3, 2, TRUE)}
=============================================================================
