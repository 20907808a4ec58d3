------------------------------- MODULE MCConsole -------------------------------
(* Small instances of the console's other stores and jobs.  A behaviour    *)
(* runs the handlers of one slice, so that the state spaces add up instead *)
(* of multiplying.                                                         *)
EXTENDS Mitigation, Routers, RuleStore, Peering, Console, BotAgent, Drills, AuditLog

CONSTANTS
    Slices,
    MaxEvents   \* per slice: requests, ticks and restarts

LongSlices == {"rulestore", "peering", "wiki", "billing", "incidents", "assistant", "agent"}
MCMaxEvents == [s \in Slices |-> CASE s \in {"nodes", "mesh", "rpki"} -> 2 [] s \in LongSlices -> 4 [] OTHER -> 3]

Tier(after, target) == [after |-> after, target |-> target]
MCPlans == {<<>>, <<Tier(0, "oncall"), Tier(1, "admins")>>, <<Tier(0, "group"), Tier(1, "oncall")>>}

MCBoxes == <<"own", "far">>

VARIABLES slice, events

boxVars == <<opVars, mitVars, routerVars>>
tellVars == <<noticeVars, watcherVars>>
storeVars == <<ruleVars, peeringVars, measureVars, tellVars, documentVars>>
botVars == <<agentVars, drillVars, auditVars>>
consoleVars == <<boxVars, storeVars, botVars, slice, events>>

OnePop == {CHOOSE p \in Pops : TRUE}
OneNode == {CHOOSE n \in Nodes : TRUE}
OneRule == {CHOOSE r \in Rules : TRUE}

BoxesInit ==
    /\ OpInit /\ MitInit /\ RoutersInit
    /\ slice = "nodes" \/ \A r \in Rules : flowspec[r].status = "draft"
    /\ slice = "anycast" \/ \A n \in Nodes, u \in Uplinks : sessions[n][u] = "up"
    /\ slice \in {"mesh", "drift"} \/ \A n \in Nodes : birdConf[n] = NoConf
    /\ slice = "drift" => \A n \in Nodes \ OneNode : birdConf[n] = NoConf

\* Somebody is on call and one of two people has Telegram.
StoresInit ==
    /\ RuleStoreInit /\ PeeringInit /\ MeasureInit /\ NoticesInit /\ WatchersInit /\ DocumentsInit
    /\ slice = "peering" \/ \A x \in Apps : apps[x] = NoApp
    /\ \A a \in Asns : irr[a] = CHOOSE p \in PrefixSets : TRUE
    /\ oncall \in People \ Admins /\ bound = Admins /\ available = {}
    /\ plan = CHOOSE p \in Plans : p # <<>>
    /\ interval = MinRefresh /\ \A x \in Nets : validity[x] = "valid"

MCInit == slice \in Slices /\ events = 0 /\ BoxesInit /\ StoresInit /\ AgentInit /\ DrillInit /\ AuditInit

event == events < MaxEvents[slice] /\ events' = events + 1
work == UNCHANGED events

\* Two rules on one node, or one rule on two nodes.
MitigationSlice(someRules, somePops) ==
    \/ event /\ \E r \in someRules : handleDDoSCreate(r) \/ ruleDue(r)
    \/ event /\ \E s \in SyncTasks, r \in someRules :
         handleDDoSRevoke(s, r) \/ \E to \in SUBSET somePops : handleDDoSApply(s, r, to)
    \/ work /\ \E s \in SyncTasks :
         expire(s) \/ syncsDone(s) \/ \E p \in somePops : genNftFile(s, p) \/ syncNode(s, p)
    \/ event /\ MitRestart

\* One critical failure and one that is not.
TwoFailures == {CHOOSE f \in CritFailures : TRUE, CHOOSE f \in Failures \ CritFailures : TRUE}

FailuresSlice ==
    \/ work /\ \E f \in TwoFailures : recordOpFailure(f) \/ triaged(f) \/ dismiss(f)
    \/ work /\ opClock
    \/ event /\ OpRestart

MeshSlice ==
    \/ event /\ \E id \in Nodes :
         handEdit(id) \/ \E targets \in SUBSET Nodes : beginMeshApply(id, targets)
    \/ work /\ \E id \in Nodes :
         \/ \E t \in Nodes : scriptEdits(id, t) \/ scriptUnreached(id, t) \/ scriptRefused(id, t)
         \/ scriptEnds(id) \/ meshDone(id)
    \/ event /\ RoutersRestart

DriftSlice ==
    \/ event /\ \E n \in OneNode :
         handEdit(n) \/ rollbackWrites(n) \/ beginMeshApply(n, {n}) \/ \E c \in Checkers : fetchConfig(c, n)
    \/ work /\ \E n \in OneNode :
         \/ \E c \in Checkers : hashed(c, n) \/ checkNode(c, n) \/ maybeAlert(c, n) \/ adopt(c, n)
         \/ rollbackEnds(n) \/ scriptEdits(n, n) \/ scriptRefused(n, n) \/ scriptEnds(n) \/ meshDone(n)
    \/ event /\ RoutersRestart

BoxSlice ==
    \/ slice = "onboarding" /\ OnboardNext
    \/ slice = "anycast" /\ AnycastNext

BoxesNext ==
    \/ slice = "failures" /\ FailuresSlice /\ UNCHANGED <<mitVars, routerVars>>
    \/ slice = "rules" /\ MitigationSlice(Rules, OnePop) /\ UNCHANGED routerVars
    \/ slice = "nodes" /\ MitigationSlice(OneRule, Pops) /\ UNCHANGED routerVars
    \/ slice = "mesh" /\ MeshSlice /\ UNCHANGED mitVars
    \/ slice = "drift" /\ DriftSlice /\ UNCHANGED mitVars
    \/ BoxSlice /\ UNCHANGED <<mitVars, events>>

RuleStoreSlice ==
    \/ event /\ \E t \in Reloads, r \in RuleIds :
         removeRule(t, r) \/ \E g \in GroupIds : addRule(t, r, g) \/ updateRule(t, r, g)
    \/ event /\ \E t \in Reloads, g \in GroupIds : addGroup(t, g) \/ updateGroup(t, g) \/ removeGroup(t, g)
    \/ work /\ \E t \in Reloads : snapshot(t) \/ reloadRules(t)
    \/ event /\ newAlertRuleStore

MeasureSlice ==
    \/ slice = "capacity" /\ event /\ \E load \in [Metrics -> 1 .. MaxLoad] : sampleCap(load)
    \/ slice = "capacity" /\ event /\ \E link \in 0 .. MaxLoad : handleCapacitySetLink(link)
    \/ slice = "capacity" /\ work /\ (flushTodayCap \/ recomputeForecast)
    \/ slice = "sla" /\ event /\ (sampleSla \/ handleSLATargetsSet)
    \/ slice = "sla" /\ work /\ (flushTodaySla \/ probeReports)
    \/ slice = "heartbeat" /\ event /\ \E up \in BOOLEAN : record(up)
    \/ slice = "heartbeat" /\ work /\ persistHeartbeats
    \/ slice \in {"capacity", "sla", "heartbeat"} /\ ((work /\ nextDay) \/ (event /\ MeasureRestart))

DocumentSlice ==
    \/ slice = "wiki" /\ ((event /\ WikiEvents) \/ (work /\ WikiWork))
    \/ slice = "billing" /\ ((event /\ BillingEvents) \/ (work /\ monthPasses))
    \/ slice = "incidents" /\ event /\ IncidentEvents
    \/ slice = "assistant" /\ event /\ AIEvents
    \/ slice \in {"wiki", "billing", "incidents", "assistant"} /\ event /\ DocumentsRestart

WatcherSlice ==
    \/ slice = "rpki" /\ ((event /\ (RpkiEvents \/ WatchersRestart)) \/ (work /\ RpkiWork))
    \/ slice = "ticker" /\ ((event /\ (TickerEvents \/ WatchersRestart)) \/ (work /\ TickerWork))
    \/ slice = "hijack" /\ ((event /\ (HijackEvents \/ WatchersRestart)) \/ (work /\ HijackWork))

StoresNext ==
    \/ /\ slice = "rulestore" /\ RuleStoreSlice
       /\ UNCHANGED <<peeringVars, measureVars, tellVars, documentVars>>
    \/ /\ slice = "peering" /\ ((event /\ PeeringRequests) \/ (work /\ PeeringWork))
       /\ UNCHANGED <<ruleVars, measureVars, tellVars, documentVars>>
    \/ /\ MeasureSlice
       /\ UNCHANGED <<ruleVars, peeringVars, tellVars, documentVars>>
    \/ /\ \/ slice = "oncall" /\ ((event /\ (OncallEvents \/ NoticesRestart)) \/ (work /\ OncallWork))
          \/ slice = "replication" /\ work /\ (ReplWork \/ NoticesRestart)
       /\ UNCHANGED <<ruleVars, peeringVars, measureVars, documentVars, watcherVars>>
    \/ /\ WatcherSlice
       /\ UNCHANGED <<ruleVars, peeringVars, measureVars, documentVars>>
    \/ /\ DocumentSlice
       /\ UNCHANGED <<ruleVars, peeringVars, measureVars, tellVars>>

BotNext ==
    \/ slice = "agent" /\ ((event /\ AgentEvents) \/ (work /\ AgentWork)) /\ UNCHANGED <<drillVars, auditVars>>
    \/ slice = "drill" /\ ((event /\ DrillEvents) \/ (work /\ DrillWork)) /\ UNCHANGED <<agentVars, auditVars>>
    \/ slice = "audit" /\ work /\ AuditNext /\ UNCHANGED <<agentVars, drillVars>>

MCNext ==
    /\ UNCHANGED slice
    /\ \/ BoxesNext /\ UNCHANGED <<storeVars, botVars>>
       \/ StoresNext /\ UNCHANGED <<boxVars, botVars>>
       \/ BotNext /\ UNCHANGED <<boxVars, storeVars>>

MCSpec == MCInit /\ [][MCNext]_consoleVars
==============================================================================
