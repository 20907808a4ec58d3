------------------------------- MODULE Peering -------------------------------
(***************************************************************************)
(* Peering: applications and their decision (backend/peering_apply.go), a  *)
(* per-peer bird file generated from an approved application and the IRR   *)
(* (peerApply.go, peergen.go, irr.go), its application to routers, and the *)
(* watch for IRR drift (peerRefresh.go).                                   *)
(*                                                                         *)
(* The store of generations hands out pointers: a request that applies one *)
(* and the watch hold theirs for minutes and then put it back, whatever    *)
(* has been generated in the meantime.  So a generation is an object with  *)
(* a number, and the store says which one is an AS's current.              *)
(***************************************************************************)
EXTENDS Naturals, Sequences, FiniteSets

CONSTANTS
    Apps, Asns, Edges,      \* applications, peers' AS numbers, routers
    PrefixSets,             \* what the IRR may say of an AS
    PeerTasks,              \* bound: requests under way
    MaxGens,                \* bound: generations made
    MaxPerIP                \* peeringMaxPerIP24h; every application has one IP

VARIABLES
    apps, appsSaved,        \* peeringStore.apps, and its file and row
    gens,                   \* every generation made, in its order
    current, gensSaved,     \* peerGenStore.gens; what was last saved of it
    irr,                    \* the prefixes registered for each AS
    peerFiles,              \* peer_as<asn>.conf on each router; 0 is none
    peerTasks,              \* requests to generate or to apply
    refreshing,             \* generations the watch has listed
    alerted,                \* peerRefresher.alerted
    crossed                 \* history: peers where an older generation was put
                            \* over a newer, two requests applied at the same
                            \* time, or a record was lost in a restart

peeringVars == <<apps, appsSaved, gens, current, gensSaved, irr, peerFiles, peerTasks,
                 refreshing, alerted, crossed>>
genVars == <<gens, current, gensSaved, crossed>>

NoApp == [status |-> "none", asn |-> {}, age |-> 0]
NoTask == [at |-> "idle", asn |-> {}, gen |-> 0, todo |-> {}, done |-> {}, edge |-> {}, bak |-> 0]
Ages == 0 .. 2          \* within a day; older; decided more than 90 days ago

PeeringTypeOK ==
    /\ apps \in [Apps -> [status : {"none", "pending", "approved", "rejected"},
                          asn : SUBSET Asns, age : Ages]]
    /\ \A g \in 1 .. Len(gens) : gens[g].status \in {"generated", "applied", "drifted"}
    /\ current \in [Asns -> 0 .. MaxGens] /\ peerFiles \in [Edges -> [Asns -> 0 .. MaxGens]]
    /\ refreshing \subseteq 1 .. MaxGens /\ crossed \subseteq Asns

PeeringInit ==
    /\ apps \in [Apps -> {NoApp} \cup {[status |-> "approved", asn |-> {a}, age |-> 1] : a \in Asns}]
    /\ appsSaved = apps
    /\ gens = <<>> /\ current = [a \in Asns |-> 0] /\ gensSaved = [now |-> current, gens |-> gens]
    /\ irr \in [Asns -> PrefixSets]
    /\ peerFiles = [e \in Edges |-> [a \in Asns |-> 0]]
    /\ peerTasks = [t \in PeerTasks |-> NoTask]
    /\ refreshing = {} /\ alerted = [a \in Asns |-> {}] /\ crossed = {}

(* Both stores only log, or answer 500 for, a save that failed.            *)
persistApps(new) == apps' = new /\ appsSaved' \in {new, appsSaved}
Live(all) == [x \in Apps |-> IF all[x].age = 2 THEN NoApp ELSE all[x]]

------------------------------------------------------------------------------
(* Applications.  Every list and every application drops the old ones.     *)
handleApply(x, a) ==
    /\ apps[x] = NoApp
    /\ Cardinality({y \in Apps : Live(apps)[y].status # "none" /\ apps[y].age = 0}) < MaxPerIP
    /\ persistApps([Live(apps) EXCEPT ![x] = [status |-> "pending", asn |-> {a}, age |-> 0]])
    /\ UNCHANGED <<genVars, irr, peerFiles, peerTasks, refreshing, alerted>>

(* Whatever was decided before; the decision is what the mail announces.   *)
handleDecide(x, status) ==
    /\ apps[x].status # "none"
    /\ persistApps([apps EXCEPT ![x].status = status,
                                ![x].age = IF apps[x].age = 2 THEN 1 ELSE apps[x].age])
    /\ UNCHANGED <<genVars, irr, peerFiles, peerTasks, refreshing, alerted>>

handleList ==
    /\ apps' = Live(apps)
    /\ UNCHANGED <<appsSaved, genVars, irr, peerFiles, peerTasks, refreshing, alerted>>

appAges(x) ==
    /\ apps[x].status # "none" /\ apps[x].age < (IF apps[x].status = "pending" THEN 1 ELSE 2)
    /\ LET older(all) == IF all[x].status = "none" THEN all ELSE [all EXCEPT ![x].age = apps[x].age + 1]
       IN  apps' = older(apps) /\ appsSaved' = older(appsSaved)
    /\ UNCHANGED <<genVars, irr, peerFiles, peerTasks, refreshing, alerted>>

------------------------------------------------------------------------------
Of(g) == gens[g].asn
persistGens == gensSaved' \in {[now |-> current', gens |-> gens'], gensSaved}

(* put by a holder of an old pointer takes the place of what is newer.     *)
put(g) == current' = [current EXCEPT ![Of(g)] = g]
Crosses(g) == IF current[Of(g)] # g THEN {Of(g)} ELSE {}

(* The application is read and checked, then the IRR is asked, up to 75    *)
(* seconds; nothing is checked again.                                      *)
handlePeerConfig(t, x) ==
    /\ peerTasks[t] = NoTask /\ apps[x].status = "approved"
    /\ peerTasks' = [peerTasks EXCEPT ![t] = [NoTask EXCEPT !.at = "expand", !.asn = apps[x].asn]]
    /\ UNCHANGED <<apps, appsSaved, genVars, irr, peerFiles, refreshing, alerted>>

genPeerConfig(t, a) ==
    /\ peerTasks[t].at = "expand" /\ a \in peerTasks[t].asn /\ Len(gens) < MaxGens
    /\ gens' = Append(gens, [asn |-> a, prefixes |-> irr[a], status |-> "generated", edges |-> {}])
    /\ current' = [current EXCEPT ![a] = Len(gens) + 1]
    /\ persistGens
    /\ peerTasks' = [peerTasks EXCEPT ![t] = NoTask]
    /\ UNCHANGED <<apps, appsSaved, crossed, irr, peerFiles, refreshing, alerted>>

expandFails(t) ==
    /\ peerTasks[t].at = "expand"
    /\ peerTasks' = [peerTasks EXCEPT ![t] = NoTask]
    /\ UNCHANGED <<apps, appsSaved, genVars, irr, peerFiles, refreshing, alerted>>

------------------------------------------------------------------------------
(* A confirmed request to apply the current generation; the application is *)
(* not looked at again.  That a generation without a neighbour's address   *)
(* is refused is left out.                                                 *)
Applying(a) == {t \in PeerTasks : peerTasks[t].at \in {"apply", "edited"} /\ peerTasks[t].asn = {a}}

handlePeerApply(t, a, edges) ==
    /\ peerTasks[t] = NoTask /\ current[a] # 0 /\ edges # {}
    /\ peerTasks' = [peerTasks EXCEPT ![t] =
            [NoTask EXCEPT !.at = "apply", !.asn = {a}, !.gen = current[a], !.todo = edges]]
    /\ crossed' = IF Applying(a) # {} THEN crossed \cup {a} ELSE crossed
    /\ UNCHANGED <<apps, appsSaved, gens, current, gensSaved, irr, peerFiles, refreshing, alerted>>

(* buildPeerApplyScript: backup and write ...                              *)
peerScriptWrites(t, a, e) ==
    /\ peerTasks[t].at = "apply" /\ peerTasks[t].asn = {a} /\ e \in peerTasks[t].todo
    /\ peerFiles' = [peerFiles EXCEPT ![e][a] = peerTasks[t].gen]
    /\ peerTasks' = [peerTasks EXCEPT ![t].at = "edited", ![t].edge = {e}, ![t].bak = peerFiles[e][a],
                                      ![t].todo = @ \ {e}]
    /\ UNCHANGED <<apps, appsSaved, genVars, irr, refreshing, alerted>>

(* ... bird accepts; or refuses, and the script puts the backup in place,  *)
(* or removes the file; or the script is lost after its write.             *)
peerScriptEnds(t, a, e, how) ==
    /\ peerTasks[t].at = "edited" /\ peerTasks[t].asn = {a} /\ peerTasks[t].edge = {e}
    /\ peerFiles' = IF how = "refused" THEN [peerFiles EXCEPT ![e][a] = peerTasks[t].bak] ELSE peerFiles
    /\ peerTasks' = [peerTasks EXCEPT ![t].at = "apply", ![t].edge = {}, ![t].bak = 0,
                                      ![t].done = IF how = "accepted" THEN @ \cup {e} ELSE @]
    /\ UNCHANGED <<apps, appsSaved, genVars, irr, refreshing, alerted>>

peerUnreached(t, e) ==
    /\ peerTasks[t].at = "apply" /\ e \in peerTasks[t].todo
    /\ peerTasks' = [peerTasks EXCEPT ![t].todo = @ \ {e}]
    /\ UNCHANGED <<apps, appsSaved, genVars, irr, peerFiles, refreshing, alerted>>

Recorded(t, edges) ==
    LET g == peerTasks[t].gen
    IN  /\ gens' = [gens EXCEPT ![g].status = "applied", ![g].edges = edges]
        /\ put(g) /\ persistGens
        /\ crossed' = crossed \cup Crosses(g)

(* A mutant: the request's targets are recorded, not those that accepted. *)
MutRecordAll(t) ==
    /\ peerTasks[t].at = "apply" /\ peerTasks[t].todo = {}
    /\ Recorded(t, Edges)
    /\ peerTasks' = [peerTasks EXCEPT ![t] = NoTask]
    /\ UNCHANGED <<apps, appsSaved, irr, peerFiles, refreshing, alerted>>

applyDone(t) ==
    /\ peerTasks[t].at = "apply" /\ peerTasks[t].todo = {}
    /\ IF peerTasks[t].done = {} THEN UNCHANGED genVars ELSE Recorded(t, peerTasks[t].done)
    /\ peerTasks' = [peerTasks EXCEPT ![t] = NoTask]
    /\ UNCHANGED <<apps, appsSaved, irr, peerFiles, refreshing, alerted>>

------------------------------------------------------------------------------
(* The watch lists the generations, and asks the IRR of each that is, when *)
(* its turn comes, applied.                                                *)
irrChanges(a) ==
    /\ \E p \in PrefixSets \ {irr[a]} : irr' = [irr EXCEPT ![a] = p]
    /\ UNCHANGED <<apps, appsSaved, genVars, peerFiles, peerTasks, refreshing, alerted>>

checkBegins ==
    /\ refreshing = {} /\ refreshing' = {current[a] : a \in Asns} \ {0}
    /\ UNCHANGED <<apps, appsSaved, genVars, irr, peerFiles, peerTasks, alerted>>

check(g) ==
    /\ g \in refreshing /\ refreshing' = refreshing \ {g}
    /\ LET drifted == gens[g].status # "generated" /\ irr[Of(g)] # gens[g].prefixes
                          /\ alerted[Of(g)] # {irr[Of(g)]}
       IN  \/ drifted /\ alerted' = [alerted EXCEPT ![Of(g)] = {irr[Of(g)]}]
              /\ gens' = [gens EXCEPT ![g].status = "drifted"]
              /\ put(g) /\ persistGens /\ crossed' = crossed \cup Crosses(g)
           \/ UNCHANGED <<genVars, alerted>>    \* no drift, or the IRR does not answer
    /\ UNCHANGED <<apps, appsSaved, irr, peerFiles, peerTasks>>

PeeringRestart ==
    /\ apps' = Live(appsSaved) /\ UNCHANGED <<appsSaved, gensSaved, irr, peerFiles>>
    /\ current' = gensSaved.now
    /\ gens' = [g \in DOMAIN gens |-> IF g \in DOMAIN gensSaved.gens THEN gensSaved.gens[g] ELSE gens[g]]
    /\ crossed' = crossed \cup {a \in Asns : \/ current'[a] # current[a]
                                             \/ current[a] # 0 /\ gens'[current[a]] # gens[current[a]]}
    /\ peerTasks' = [t \in PeerTasks |-> NoTask] /\ refreshing' = {}
    /\ alerted' = [a \in Asns |-> {}]

PeeringRequests ==
    \/ \E x \in Apps : \/ \E a \in Asns : handleApply(x, a)
                       \/ \E status \in {"approved", "rejected"} : handleDecide(x, status)
                       \/ \E t \in PeerTasks : handlePeerConfig(t, x)
    \/ \E t \in PeerTasks, a \in Asns, edges \in SUBSET Edges : handlePeerApply(t, a, edges)
    \/ \E a \in Asns : irrChanges(a)
    \/ checkBegins
    \/ PeeringRestart
PeeringWork ==
    \/ \E x \in Apps : appAges(x)
    \/ handleList
    \/ \E t \in PeerTasks :
         \/ expandFails(t) \/ applyDone(t)
         \/ \E a \in Asns : genPeerConfig(t, a)
         \/ \E e \in Edges : peerUnreached(t, e) \/ \E a \in Asns :
              \/ peerScriptWrites(t, a, e)
              \/ \E how \in {"accepted", "refused", "lost"} : peerScriptEnds(t, a, e, how)
    \/ \E g \in refreshing : check(g)

PeeringNext == PeeringRequests \/ PeeringWork
PeeringSpec == PeeringInit /\ [][PeeringNext]_peeringVars

------------------------------------------------------------------------------
(* The routers a generation is recorded on have its file, unless another   *)
(* writer of the same peer came in between: what was refused, out of reach *)
(* or lost is not recorded, and a new generation claims no router.         *)
RecordedIsDeployed ==
    \A a \in Asns \ crossed :
        current[a] # 0 => \A e \in gens[current[a]].edges : peerFiles[e][a] = current[a]
==============================================================================
