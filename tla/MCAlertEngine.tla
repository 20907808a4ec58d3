---------------------------- MODULE MCAlertEngine ----------------------------
(* Rule stores, groups and ranks for checking AlertEngine with TLC.        *)
EXTENDS AlertEngine, TLC

CONSTANTS n1, n2, n3, root, leaf, gk

RankOf == [k \in Key |-> (CASE k[1] = n1 -> 0 [] k[1] = n2 -> 2 [] OTHER -> 4) + (IF k[2] = leaf THEN 1 ELSE 0)]
LeafFirst == [k \in Key |-> (CASE k[1] = n1 -> 0 [] k[1] = n2 -> 2 [] OTHER -> 4) + (IF k[2] = root THEN 1 ELSE 0)]
NoInhibits == {}
NoEdits == {}
RootInhibitsLeaf == {<<root, leaf>>}

AllNodes == [enabled |-> TRUE, muted |-> FALSE, nodes |-> {}, sustain |-> 0,
             suppress |-> FALSE, minSev |-> ""]

Plain == [group |-> "all", enabled |-> TRUE, muted |-> FALSE, anomaly |-> FALSE,
          sev |-> "warn", notify |-> TRUE, sustain |-> 0, resolve |-> 0,
          escalate |-> 0, repeat |-> 0, gkey |-> NoKey]

Store(gs, rs) == [groups |-> gs, rules |-> rs]
All(rs) == Store("all" :> AllNodes, rs)

(* Debounce times, an inherited sustain, a mute and a change of scope.     *)
Debounced == [Plain EXCEPT !.sustain = 31, !.resolve = 60, !.escalate = 60]

DebounceStores ==
  {All(root :> Debounced),
   Store("all" :> [AllNodes EXCEPT !.sustain = 90, !.muted = TRUE],
         root :> [Debounced EXCEPT !.sustain = 0]),
   Store("all" :> [AllNodes EXCEPT !.nodes = {Elsewhere}], root :> [Debounced EXCEPT !.resolve = 0])}

NudgeStores == {All(root :> [Plain EXCEPT !.repeat = 30, !.sustain = 60])}

(* A root cause and its dependent: one card by rule, or by GroupKey.       *)
Info == [Plain EXCEPT !.sev = "info"]
Keyed == [Info EXCEPT !.gkey = gk, !.anomaly = TRUE]
DispatchStores == {All(root :> Info @@ leaf :> Info), All(root :> Keyed @@ leaf :> Keyed)}

SimpleStores == {All(root :> Plain)}
=============================================================================
