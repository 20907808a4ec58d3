------------------------------- MODULE Routers -------------------------------
(***************************************************************************)
(* The jobs of the console that change a router: wiring a node into the    *)
(* mesh (backend/meshApply.go, with the configuration mesh_config.go       *)
(* generates), config drift with its rollback (configdrift.go), onboarding *)
(* (nodes_onboard.go) and anycast drains (anycast.go).                     *)
(*                                                                         *)
(* A script runs on a router in two steps: it backs bird.conf up and edits *)
(* it, and then bird accepts the file or refuses it, upon which the script *)
(* puts the backup in place again.  The console may lose the script        *)
(* between the two (its timeout, the connection) and other scripts, or     *)
(* a person with an editor, may work on the same file.                     *)
(***************************************************************************)
EXTENDS OpFailures

CONSTANTS
    Nodes,
    Numbered,       \* nodes with a region and a number
    WgLinked,       \* nodes the requests link by WireGuard, not GRE
    Uplinks,        \* the upstream sessions a router may have
    Checkers,       \* bound: drift checks and adoptions at the same time
    NoConf,
    Vanilla         \* the distribution's bird.conf

ASSUME RoutersAssumption ==
    Numbered \cup WgLinked \subseteq Nodes /\ {"mesh-apply", "config-rollback", "onboard"} \subseteq Failures

VARIABLES
    birdConf,       \* bird.conf of each node: NoConf, Vanilla, or its blocks
    tunnels,        \* its GRE tunnels
    meshJobs,       \* fleetScraper.meshApply, with the script under way
    rollbacks,      \* the rollback script on a node
    decls,          \* driftStore.decls: the adopted bird.conf
    driftSeen,      \* driftStore.state
    warned,         \* driftStore.warned
    checks,         \* drift checks and adoptions under way
    mixed,          \* history: nodes where two hands worked on bird.conf at
                    \* the same time, since a script last had it to itself
    onboards,       \* fleetScraper.onboard
    keyed,          \* nodes that accept the fleet key
    agents,         \* nodes with a provisioned agent
    sessions,       \* upstream sessions of each router: "up", "down" or "none"
    seen,           \* the same as the last scrape cached them
    bad, posted     \* anycastWatcher: the streaks, and the nodes posted

confVars == <<birdConf, tunnels, mixed>>
driftVars == <<decls, driftSeen, warned, checks, rollbacks>>
jobVars == <<onboards, keyed, agents>>
anycastVars == <<sessions, seen, bad, posted>>
routerVars == <<confVars, meshJobs, driftVars, jobVars, anycastVars>>

Hand == "hand"                      \* what a person adds to bird.conf
Blocks == Nodes \cup {Hand}         \* an iBGP block is named by its peer
Confs == {NoConf, Vanilla} \cup SUBSET Blocks
isNcn(conf) == conf \notin {NoConf, Vanilla}   \* it has "define MY_ASN"

NoScript == [at |-> "none", node |-> {}, bak |-> NoConf, created |-> {}, conf |-> NoConf, tuns |-> {}]
NoJob == [running |-> FALSE, ok |-> FALSE, todo |-> {}, failed |-> FALSE, script |-> NoScript]
NoCheck == [at |-> "idle", node |-> {}, conf |-> NoConf, drift |-> FALSE]

RoutersInit ==
    /\ birdConf \in [Nodes -> {NoConf, Vanilla, {}}] /\ tunnels = [n \in Nodes |-> {}]
    /\ mixed = {}
    /\ meshJobs = [n \in Nodes |-> NoJob]
    /\ rollbacks = [n \in Nodes |-> NoScript]
    /\ decls = [n \in Nodes |-> NoConf] /\ driftSeen = [n \in Nodes |-> "none"]
    /\ warned = {} /\ checks = [c \in Checkers |-> NoCheck]
    /\ onboards = [n \in Nodes |-> "none"] /\ keyed = {} /\ agents = {}
    /\ sessions \in [Nodes -> [Uplinks -> {"up", "none"}]]
    /\ seen = [n \in Nodes |-> [u \in Uplinks |-> "none"]]
    /\ bad = [n \in Nodes |-> 0] /\ posted = {}

RoutersTypeOK ==
    /\ birdConf \in [Nodes -> Confs] /\ decls \in [Nodes -> Confs]
    /\ tunnels \in [Nodes -> SUBSET Nodes]
    /\ \A n \in Nodes : meshJobs[n].todo \subseteq Nodes /\ meshJobs[n].script.bak \in Confs
    /\ driftSeen \in [Nodes -> {"none", "clean", "drift"}]
    /\ onboards \in [Nodes -> {"none", "key", "provision", "verify", "ok", "fail"}]
    /\ sessions \in [Nodes -> [Uplinks -> {"up", "down", "none"}]] /\ bad \in [Nodes -> 0 .. 2]
    /\ mixed \cup warned \cup keyed \cup agents \cup posted \subseteq Nodes

------------------------------------------------------------------------------
(* The hands on a file: the scripts between their two steps.               *)
ScriptsOn(n) ==
    {id \in Nodes : meshJobs[id].script.at = "edited" /\ meshJobs[id].script.node = {n}}
Busy(n) == ScriptsOn(n) # {} \/ rollbacks[n].at = "edited"

(* What genMeshConfig gives a new node, and what a script must add: every  *)
(* peer to the node being wired, and that node to each of its targets.     *)
FullConf(id) == Nodes \ {id}
Wanted(id, t) == IF t = id THEN (Numbered \ WgLinked) \ {id} ELSE {id}

Edited(id, t) ==
    IF isNcn(birdConf[t]) THEN birdConf[t] \cup Wanted(id, t)
    ELSE IF t = id THEN FullConf(id)
    ELSE birdConf[t]

beginMeshApply(id, targets) ==
    /\ targets # {} /\ id \in Numbered /\ (targets \ {id}) \cap WgLinked = {}
    /\ ~meshJobs[id].running
    /\ meshJobs' = [meshJobs EXCEPT ![id] = [NoJob EXCEPT !.running = TRUE, !.todo = targets]]
    /\ UNCHANGED <<confVars, driftVars, jobVars, anycastVars, opVars>>

(* buildApplyScript up to birdc: the backup, the file, the tunnels.  Only  *)
(* the node being wired has a full file to write; another one without an   *)
(* NCN file ends the script at once.                                       *)
scriptEdits(id, t) ==
    /\ meshJobs[id].running /\ meshJobs[id].script.at # "edited" /\ t \in meshJobs[id].todo
    /\ IF isNcn(birdConf[t]) \/ t = id
       THEN LET new == Wanted(id, t) \ tunnels[t]
            IN  /\ birdConf' = [birdConf EXCEPT ![t] = Edited(id, t)]
                /\ tunnels' = [tunnels EXCEPT ![t] = @ \cup new]
                /\ mixed' = IF Busy(t) THEN mixed \cup {t} ELSE mixed \ {t}
                /\ meshJobs' = [meshJobs EXCEPT ![id].todo = @ \ {t}, ![id].script =
                     [at |-> "edited", node |-> {t}, bak |-> birdConf[t], created |-> new,
                      conf |-> birdConf[t], tuns |-> tunnels[t]]]
       ELSE /\ meshJobs' = [meshJobs EXCEPT ![id].todo = @ \ {t}, ![id].failed = TRUE,
                                            ![id].script = NoScript]
            /\ UNCHANGED confVars
    /\ UNCHANGED <<driftVars, jobVars, anycastVars, opVars>>

scriptUnreached(id, t) ==
    /\ meshJobs[id].running /\ meshJobs[id].script.at # "edited" /\ t \in meshJobs[id].todo
    /\ meshJobs' = [meshJobs EXCEPT ![id].todo = @ \ {t}, ![id].failed = TRUE, ![id].script = NoScript]
    /\ UNCHANGED <<confVars, driftVars, jobVars, anycastVars, opVars>>

Ended(id, how) ==
    meshJobs' = [meshJobs EXCEPT ![id].script.at = how, ![id].failed = @ \/ how # "accepted"]

(* A mutant: tunnels are left behind. *)
MutKeepTunnels(id, t) ==
    /\ meshJobs[id].script.at = "edited" /\ meshJobs[id].script.node = {t}
    /\ LET s == meshJobs[id].script
       IN  birdConf' = IF s.bak = NoConf THEN birdConf ELSE [birdConf EXCEPT ![t] = s.bak]
    /\ Ended(id, "refused")
    /\ UNCHANGED <<tunnels, mixed, driftVars, jobVars, anycastVars, opVars>>

(* birdc refuses: the backup, if there was a file, and the tunnels.  The   *)
(* console may not hear of it.                                             *)
scriptRefused(id, t) ==
    /\ meshJobs[id].script.at = "edited" /\ meshJobs[id].script.node = {t}
    /\ LET s == meshJobs[id].script
       IN  /\ birdConf' = IF s.bak = NoConf THEN birdConf ELSE [birdConf EXCEPT ![t] = s.bak]
           /\ tunnels' = [tunnels EXCEPT ![t] = @ \ s.created]
    /\ \E how \in {"refused", "lost"} : Ended(id, how)
    /\ UNCHANGED <<mixed, driftVars, jobVars, anycastVars, opVars>>

(* birdc accepts; or the console loses the script after its edit.          *)
scriptEnds(id) ==
    /\ meshJobs[id].script.at = "edited"
    /\ \E how \in {"accepted", "lost"} : Ended(id, how)
    /\ UNCHANGED <<confVars, driftVars, jobVars, anycastVars, opVars>>

meshDone(id) ==
    /\ meshJobs[id].running /\ meshJobs[id].todo = {} /\ meshJobs[id].script.at # "edited"
    /\ meshJobs' = [meshJobs EXCEPT ![id] = [NoJob EXCEPT !.ok = ~meshJobs[id].failed]]
    /\ IF meshJobs[id].failed THEN recordOpFailure("mesh-apply") ELSE noFailure
    /\ UNCHANGED <<confVars, driftVars, jobVars, anycastVars>>

(* Somebody edits bird.conf by hand.                                       *)
handEdit(n) ==
    /\ isNcn(birdConf[n])
    /\ birdConf' = [birdConf EXCEPT ![n] = @ \cup {Hand}]
    /\ mixed' = IF Busy(n) THEN mixed \cup {n} ELSE mixed
    /\ UNCHANGED <<tunnels, meshJobs, driftVars, jobVars, anycastVars, opVars>>

------------------------------------------------------------------------------
(* Drift.  fetchConfig needs a bird.conf; the file is read, and adopted    *)
(* when it has arrived: as it was then.                                    *)
Read(c, n, at) ==
    /\ checks[c].at = "idle"
    /\ checks' = [checks EXCEPT ![c] = [NoCheck EXCEPT !.at = at, !.node = {n}, !.conf = birdConf[n]]]
    /\ UNCHANGED <<confVars, meshJobs, decls, driftSeen, warned, rollbacks, jobVars, anycastVars, opVars>>

fetchConfig(c, n) == birdConf[n] # NoConf /\ Read(c, n, "fetched")

adopt(c, n) ==
    /\ checks[c].at = "fetched" /\ checks[c].node = {n}
    /\ decls' = [decls EXCEPT ![n] = checks[c].conf]
    /\ driftSeen' = [driftSeen EXCEPT ![n] = "clean"] /\ warned' = warned \ {n}
    /\ checks' = [checks EXCEPT ![c] = NoCheck]
    /\ UNCHANGED <<confVars, meshJobs, rollbacks, jobVars, anycastVars, opVars>>

(* checkNode: the hashes without the lock, the verdict under it, and the   *)
(* alert under it again.  A node out of reach keeps its verdict.           *)
hashed(c, n) == decls[n] # NoConf /\ Read(c, n, "hashed")

checkNode(c, n) ==
    /\ checks[c].at = "hashed" /\ checks[c].node = {n}
    /\ LET drift == checks[c].conf # NoConf /\ checks[c].conf # decls[n]
       IN  /\ driftSeen' = [driftSeen EXCEPT ![n] = IF drift THEN "drift" ELSE "clean"]
           /\ checks' = [checks EXCEPT ![c].at = "judged", ![c].drift = drift]
    /\ UNCHANGED <<confVars, meshJobs, decls, warned, rollbacks, jobVars, anycastVars, opVars>>

maybeAlert(c, n) ==
    /\ checks[c].at = "judged" /\ checks[c].node = {n}
    /\ warned' = IF checks[c].drift THEN warned \cup {n} ELSE warned \ {n}
    /\ checks' = [checks EXCEPT ![c] = NoCheck]
    /\ UNCHANGED <<confVars, meshJobs, decls, driftSeen, rollbacks, jobVars, anycastVars, opVars>>

(* A confirmed rollback: the file is replaced by the baseline read first.  *)
rollbackWrites(n) ==
    /\ decls[n] # NoConf /\ rollbacks[n].at # "edited"
    /\ rollbacks' = [rollbacks EXCEPT ![n] =
            [NoScript EXCEPT !.at = "edited", !.node = {n}, !.bak = birdConf[n]]]
    /\ birdConf' = [birdConf EXCEPT ![n] = decls[n]]
    /\ mixed' = IF Busy(n) THEN mixed \cup {n} ELSE mixed \ {n}
    /\ UNCHANGED <<tunnels, meshJobs, decls, driftSeen, warned, checks, jobVars, anycastVars, opVars>>

(* Accepted, and the node is checked again; refused: the backup; or lost.  *)
rollbackEnds(n) ==
    /\ rollbacks[n].at = "edited"
    /\ \E how \in {"accepted", "refused", "lost"} :
         /\ rollbacks' = [rollbacks EXCEPT ![n].at = how]
         /\ birdConf' = IF how = "refused" THEN [birdConf EXCEPT ![n] = rollbacks[n].bak] ELSE birdConf
         /\ IF how = "accepted" THEN noFailure ELSE recordOpFailure("config-rollback")
    /\ UNCHANGED <<tunnels, mixed, meshJobs, decls, driftSeen, warned, checks, jobVars, anycastVars>>

------------------------------------------------------------------------------
(* Onboarding: the key if credentials were given, the agent, the check.    *)
(* The SSH session that installs the key has no timeout once connected.    *)
startOnboard(n, withKey) ==
    /\ onboards[n] \in {"none", "ok", "fail"}
    /\ onboards' = [onboards EXCEPT ![n] = IF withKey THEN "key" ELSE "provision"]
    /\ UNCHANGED <<confVars, meshJobs, driftVars, keyed, agents, anycastVars, opVars>>

onboardFails(n) ==
    /\ onboards[n] \in {"key", "provision", "verify"}
    /\ onboards' = [onboards EXCEPT ![n] = "fail"]
    /\ recordOpFailure("onboard")
    /\ keyed' \in {keyed, keyed \cup IF onboards[n] = "key" THEN {n} ELSE {}}
    /\ agents' \in {agents, agents \cup IF onboards[n] = "provision" THEN {n} ELSE {}}
    /\ UNCHANGED <<confVars, meshJobs, driftVars, anycastVars>>

bootstrapFleetKey(n) ==
    /\ onboards[n] = "key" /\ onboards' = [onboards EXCEPT ![n] = "provision"]
    /\ keyed' = keyed \cup {n}
    /\ UNCHANGED <<confVars, meshJobs, driftVars, agents, anycastVars, opVars>>

(* execProvision over the key, and ReloadAgentKeys.                        *)
runOnboard(n) ==
    /\ onboards[n] = "provision" /\ n \in keyed
    /\ onboards' = [onboards EXCEPT ![n] = "verify"] /\ agents' = agents \cup {n}
    /\ UNCHANGED <<confVars, meshJobs, driftVars, keyed, anycastVars, opVars>>

verifyAgentHealth(n) ==
    /\ onboards[n] = "verify" /\ n \in agents /\ onboards' = [onboards EXCEPT ![n] = "ok"]
    /\ UNCHANGED <<confVars, meshJobs, driftVars, keyed, agents, anycastVars, opVars>>

------------------------------------------------------------------------------
(* Anycast: the sessions disabled or enabled are those of the last scrape, *)
(* one after the other until one fails.                                    *)
KnownSessions(n) == {u \in Uplinks : seen[n][u] # "none"}
anycastSetDrain(n, enable) ==
    /\ KnownSessions(n) # {}
    /\ \E reached \in SUBSET KnownSessions(n) :
         sessions' = [sessions EXCEPT ![n] = [u \in Uplinks |->
            IF u \in reached /\ sessions[n][u] # "none"
            THEN (IF enable THEN "up" ELSE "down") ELSE sessions[n][u]]]
    /\ UNCHANGED <<confVars, meshJobs, driftVars, jobVars, seen, bad, posted, opVars>>

scrapeSessions(n) ==
    /\ seen' = [seen EXCEPT ![n] = sessions[n]]
    /\ UNCHANGED <<confVars, meshJobs, driftVars, jobVars, sessions, bad, posted, opVars>>

sessionChanges(n, u) ==
    /\ \E st \in {"up", "down", "none"} : sessions' = [sessions EXCEPT ![n][u] = st]
    /\ UNCHANGED <<confVars, meshJobs, driftVars, jobVars, seen, bad, posted, opVars>>

(* Sessions up while the node's own probes fail: posted at the second      *)
(* check, once until it is over.                                           *)
anycastCheck(n, probesFail) ==
    LET blackhole == probesFail /\ \E u \in Uplinks : seen[n][u] = "up"
        streak == IF ~blackhole THEN 0 ELSE IF bad[n] < 2 THEN bad[n] + 1 ELSE 2
    IN  /\ bad' = [bad EXCEPT ![n] = streak]
        /\ posted' = IF streak = 2 THEN posted \cup {n} ELSE IF blackhole THEN posted ELSE posted \ {n}
        /\ UNCHANGED <<confVars, meshJobs, driftVars, jobVars, sessions, seen, opVars>>

(* ncn-api restarts: its jobs are forgotten, what they did remains.        *)
RoutersRestart ==
    /\ meshJobs' = [n \in Nodes |-> NoJob] /\ rollbacks' = [n \in Nodes |-> NoScript]
    /\ mixed' = mixed \cup {n \in Nodes : Busy(n)}
    /\ driftSeen' = [n \in Nodes |-> "none"] /\ warned' = {} /\ checks' = [c \in Checkers |-> NoCheck]
    /\ onboards' = [n \in Nodes |-> "none"] /\ seen' = [n \in Nodes |-> [u \in Uplinks |-> "none"]]
    /\ bad' = [n \in Nodes |-> 0] /\ posted' = {}
    /\ UNCHANGED <<birdConf, tunnels, decls, keyed, agents, sessions>>
    /\ OpRestart

MeshNext ==
    \/ \E id \in Nodes :
         \/ \E targets \in SUBSET Nodes : beginMeshApply(id, targets)
         \/ \E t \in Nodes : scriptEdits(id, t) \/ scriptUnreached(id, t) \/ scriptRefused(id, t)
         \/ scriptEnds(id) \/ meshDone(id) \/ handEdit(id)
DriftNext ==
    \/ \E n \in Nodes, c \in Checkers :
         hashed(c, n) \/ checkNode(c, n) \/ maybeAlert(c, n) \/ fetchConfig(c, n) \/ adopt(c, n)
    \/ \E n \in Nodes : rollbackWrites(n) \/ rollbackEnds(n)
OnboardNext ==
    \E n \in Nodes :
        \/ \E withKey \in BOOLEAN : startOnboard(n, withKey)
        \/ onboardFails(n) \/ bootstrapFleetKey(n) \/ runOnboard(n) \/ verifyAgentHealth(n)
AnycastNext ==
    \E n \in Nodes :
        \/ \E flag \in BOOLEAN : anycastSetDrain(n, flag) \/ anycastCheck(n, flag)
        \/ scrapeSessions(n) \/ \E u \in Uplinks : sessionChanges(n, u)


(* The jobs, and what becomes of their failures and of others'.            *)
RoutersNext ==
    \/ MeshNext \/ DriftNext \/ OnboardNext \/ AnycastNext \/ RoutersRestart
    \/ /\ opClock \/ \E f \in Failures : recordOpFailure(f) \/ triaged(f) \/ dismiss(f)
       /\ UNCHANGED routerVars
RoutersSpec == RoutersInit /\ OpInit /\ [][RoutersNext]_<<routerVars, opVars>>

------------------------------------------------------------------------------
EditsAdd ==
    \A id \in Nodes : meshJobs[id].script.at # "edited" /\ meshJobs'[id].script.at = "edited" =>
        \A n \in meshJobs'[id].script.node : isNcn(birdConf[n]) => birdConf[n] \subseteq birdConf'[n]
RefusalsRestore ==
    \A id \in Nodes : meshJobs[id].script.at = "edited" /\ meshJobs'[id].script.at = "refused" =>
        \A n \in meshJobs'[id].script.node \ mixed :
            LET s == meshJobs[id].script
            IN  s.conf # NoConf => birdConf'[n] = s.conf /\ tunnels'[n] = s.tuns

(* meshApply.go:5: "strictly, additively, and reversibly".  A file of ours *)
(* only grows while a mesh script edits it, and where bird refuses the     *)
(* file (and there was one, and nobody else was at it) both the file and   *)
(* the tunnels are what they were when the script began.                   *)
MeshIsReversible == [][EditsAdd /\ RefusalsRestore]_<<routerVars, opVars>>

==============================================================================
