---------------------------- MODULE NodeLifecycle ----------------------------
(***************************************************************************)
(* The nodes of the fleet: the registry (backend/noderegistry.go), kept in *)
(* memory, in a JSON file and in PostgreSQL; the live set beside it        *)
(* (backend/fleet.go); the operators' lifecycle requests that change one   *)
(* and then the other (backend/nodes_api.go, and the bots through it); and *)
(* the scrape that goes on meanwhile and caches each node's status.        *)
(*                                                                         *)
(* A step is what happens under one lock: the registry's for its change    *)
(* and its save, the fleet's for the live set, the memory and the cache.   *)
(* Probe targets and agent keys are rebuilt from the live set by the same  *)
(* steps and are left out; so are the figures of a status.                 *)
(***************************************************************************)
EXTENDS Naturals

CONSTANTS
  Node,
  Local,        \* fleetScraper.localID
  Meta,         \* what a record says of its node (address, label, ...)
  Seeded, Seed, \* the nodes of seedNodes, and what it says of them
  Patched,      \* bound: the nodes whose records are patched
  Operator,     \* those who send requests, one at a time each
  HasDb,        \* whether PostgreSQL is configured
  CanFileFail,  \* whether the registry file may refuse a write
  CanDbFail,    \* whether PostgreSQL may refuse a write or a read
  None,
  MaxRestarts   \* bound: restarts of ncn-api

ASSUME NodeAssumption ==
  /\ Local \in Seeded /\ Seeded \subseteq Node /\ Patched \subseteq Node /\ Seed \in Meta
  /\ None \notin Meta
  /\ HasDb \in BOOLEAN /\ CanFileFail \in BOOLEAN /\ CanDbFail \in BOOLEAN
  /\ MaxRestarts \in Nat

Record == [status: {"active", "decommissioned"}, meta: Meta]
Op == {"add", "update", "decommission", "delete"}
Request == [op: Op, node: Node, meta: Meta \cup {None}, stage: {"apply", "evict"}, alone: BOOLEAN]

ASSUME NoneAssumption == None \notin Record \cup Request

Registry == [Node -> Record \cup {None}]

VARIABLES
  recs,      \* nodeRegistry.recs
  file, db,  \* its two saved copies
  live,      \* fleetScraper.nodes, with what it knows of each
  mem,       \* the nodes with an entry in fleetScraper.mem
  cache,     \* fleetScraper.cache: the node as it was when scraped
  scrape,    \* the refreshAll under way: the nodes still to answer, as they were
  req,       \* each operator's request, from the save to the reply
  disputed,  \* history: nodes whose live state nothing vouches for
  dbMissed,  \* history: a save missed PostgreSQL and none reached it since
  restarts

fleetVars == <<live, mem, cache>>
regVars   == <<recs, file, db, dbMissed>>
vars      == <<regVars, fleetVars, scrape, req, disputed, restarts>>

isActive(rec) == rec # None /\ rec.status = "active"

(* activeFleetNodes: what the live set is built from.                      *)
activeFleetNodes(rs) == [n \in Node |-> IF isActive(rs[n]) THEN rs[n].meta ELSE None]


Init ==
  /\ recs = [n \in Node |-> IF n \in Seeded THEN [status |-> "active", meta |-> Seed] ELSE None]
  /\ file = recs /\ db = recs
  /\ live = activeFleetNodes(recs) /\ mem = {n \in Node : live[n] # None}
  /\ cache = [n \in Node |-> None] /\ scrape = [n \in Node |-> None]
  /\ req = [o \in Operator |-> None]
  /\ disputed = {} /\ dbMissed = FALSE /\ restarts = 0

-----------------------------------------------------------------------------
(* persistLocked: the file, whose failure is the caller's, then PostgreSQL,*)
(* whose failure is only logged.                                           *)
Outcomes ==
  (IF CanFileFail THEN {"none"} ELSE {}) \cup
  (IF ~HasDb \/ CanDbFail THEN {"file"} ELSE {}) \cup
  (IF HasDb THEN {"both"} ELSE {})

persistLocked(took) ==
  /\ file' = IF took = "none" THEN file ELSE recs'
  /\ db' = IF took = "both" THEN recs' ELSE db
  /\ dbMissed' = (HasDb /\ (took = "file" \/ (took = "none" /\ dbMissed)))

(* The registry's half of a request on n, which is refused when the file   *)
(* is not written; memory has changed all the same.                        *)
InFlight(n) == {o \in Operator : req[o] # None /\ req[o].node = n}

change(o, op, n, rec, meta) ==
  /\ req[o] = None
  /\ recs' = [recs EXCEPT ![n] = rec]
  /\ \E took \in Outcomes :
       /\ persistLocked(took)
       /\ LET others == [p \in Operator |->
                           IF p \in InFlight(n) THEN [req[p] EXCEPT !.alone = FALSE] ELSE req[p]]
              mine == [op |-> op, node |-> n, meta |-> meta, stage |-> "apply",
                       alone |-> InFlight(n) = {}]
          IN req' = IF took = "none" THEN others ELSE [others EXCEPT ![o] = mine]
       /\ disputed' = IF took = "none" \/ InFlight(n) # {} THEN disputed \cup {n} ELSE disputed
  /\ UNCHANGED <<fleetVars, scrape, restarts>>

(* handleNodeCreate.                                                       *)
create(o, n, m) ==
  /\ recs[n] = None
  /\ change(o, "add", n, [status |-> "active", meta |-> m], m)

(* handleNodePatch.                                                        *)
update(o, n, m) ==
  /\ n \in Patched /\ recs[n] # None
  /\ change(o, "update", n, [recs[n] EXCEPT !.meta = m], m)

(* decommission and recommission, through setStatus.                       *)
decommission(o, n) ==
  /\ n # Local /\ recs[n] # None
  /\ change(o, "decommission", n, [recs[n] EXCEPT !.status = "decommissioned"], None)

recommission(o, n) ==
  /\ n # Local /\ recs[n] # None
  /\ change(o, "add", n, [recs[n] EXCEPT !.status = "active"], recs[n].meta)

(* deleteNode.                                                             *)
deleteNode(o, n) ==
  /\ n # Local /\ recs[n] # None
  /\ change(o, "delete", n, None, None)

-----------------------------------------------------------------------------
(* The fleet's half, with the record the registry returned.  A request     *)
(* that had its node to itself settles whether the node is live.           *)
Apply(o, op) == req[o] # None /\ req[o].stage = "apply" /\ req[o].op = op

Settles(o) == disputed' = IF req[o].alone THEN disputed \ {req[o].node} ELSE disputed
Replies(o) == req' = [req EXCEPT ![o] = None]

applyAddNode(o) ==
  /\ Apply(o, "add")
  /\ live' = [live EXCEPT ![req[o].node] = req[o].meta]
  /\ mem' = mem \cup {req[o].node}
  /\ Replies(o) /\ Settles(o)
  /\ UNCHANGED <<regVars, cache, scrape, restarts>>

(* A mutant: a patch makes the node live.                                  *)
MutUpdateAdds(o) ==
  /\ Apply(o, "update")
  /\ live' = [live EXCEPT ![req[o].node] = req[o].meta]
  /\ mem' = mem \cup {req[o].node}
  /\ Replies(o)
  /\ UNCHANGED <<regVars, cache, scrape, disputed, restarts>>

applyUpdateNode(o) ==
  /\ Apply(o, "update")
  /\ live' = [live EXCEPT ![req[o].node] = IF @ = None THEN None ELSE req[o].meta]
  /\ Replies(o)
  /\ UNCHANGED <<regVars, mem, cache, scrape, disputed, restarts>>

(* A mutant: alerts are not evicted.                                       *)
MutNoEvict(o) ==
  /\ Apply(o, "decommission") \/ Apply(o, "delete")
  /\ live' = [live EXCEPT ![req[o].node] = None]
  /\ cache' = [cache EXCEPT ![req[o].node] = None]
  /\ mem' = IF req[o].op = "delete" THEN mem \ {req[o].node} ELSE mem
  /\ Replies(o) /\ Settles(o)
  /\ UNCHANGED <<regVars, scrape, restarts>>

applyDeactivateNode(o) ==
  /\ Apply(o, "decommission") \/ Apply(o, "delete")
  /\ live' = [live EXCEPT ![req[o].node] = None]
  /\ cache' = [cache EXCEPT ![req[o].node] = None]
  /\ mem' = IF req[o].op = "delete" THEN mem \ {req[o].node} ELSE mem
  /\ req' = [req EXCEPT ![o].stage = "evict"]
  /\ Settles(o)
  /\ UNCHANGED <<regVars, scrape, restarts>>

(* alertEngine.evictNode, called with the fleet's lock released.           *)
evict(o) ==
  /\ req[o] # None /\ req[o].stage = "evict"
  /\ Replies(o)
  /\ UNCHANGED <<regVars, fleetVars, scrape, disputed, restarts>>

-----------------------------------------------------------------------------
(* refreshAll: a goroutine for each node of a snapshot, and a wait for all.*)
(* A mutant: nodes with a cached status are not scraped again.             *)
MutOnlyUncached ==
  /\ \A n \in Node : scrape[n] = None
  /\ scrape' = [n \in Node |-> IF cache[n] # None THEN None ELSE live[n]]
  /\ UNCHANGED <<regVars, fleetVars, req, disputed, restarts>>

refreshAll ==
  /\ \A n \in Node : scrape[n] = None
  /\ scrape' = live
  /\ UNCHANGED <<regVars, fleetVars, req, disputed, restarts>>

(* The answer, or the failure, is cached unless the memory is gone.  The   *)
(* same test at the head of scrapeOne only ends a scrape sooner that ends  *)
(* so in any case, unless its node is back by then.                        *)
MutCacheAlways(n) ==
  /\ scrape[n] # None
  /\ scrape' = [scrape EXCEPT ![n] = None]
  /\ cache' = [cache EXCEPT ![n] = scrape[n]]
  /\ UNCHANGED <<regVars, live, mem, req, disputed, restarts>>

cacheStatus(n) ==
  /\ scrape[n] # None
  /\ scrape' = [scrape EXCEPT ![n] = None]
  /\ cache' = IF n \in mem THEN [cache EXCEPT ![n] = scrape[n]] ELSE cache
  /\ UNCHANGED <<regVars, live, mem, req, disputed, restarts>>

-----------------------------------------------------------------------------
(* ncn-api stops where it is; newNodeRegistry prefers PostgreSQL when it   *)
(* can be read and is not empty, else takes the file and saves it to both; *)
(* newFleetScraper starts from the active records.                         *)
newNodeRegistry ==
  \/ /\ HasDb /\ \E n \in Node : db[n] # None
     /\ recs' = db
     /\ UNCHANGED <<file, db, dbMissed>>
  \/ /\ HasDb => CanDbFail \/ \A n \in Node : db[n] = None
     /\ recs' = file
     /\ IF HasDb THEN \E took \in Outcomes \ {"none"} : persistLocked(took)
                 ELSE UNCHANGED <<file, db, dbMissed>>

Restart ==
  /\ restarts < MaxRestarts
  /\ restarts' = restarts + 1
  /\ newNodeRegistry
  /\ live' = activeFleetNodes(recs') /\ mem' = {n \in Node : live'[n] # None}
  /\ cache' = [n \in Node |-> None] /\ scrape' = [n \in Node |-> None]
  /\ req' = [o \in Operator |-> None]
  /\ disputed' = {}

Begin(o) == \E n \in Node :
  \/ decommission(o, n) \/ recommission(o, n) \/ deleteNode(o, n)
  \/ \E m \in Meta : create(o, n, m) \/ update(o, n, m)

Finish(o) == applyAddNode(o) \/ applyUpdateNode(o) \/ applyDeactivateNode(o) \/ evict(o)

Refresh == refreshAll \/ \E n \in Node : cacheStatus(n)

Next == (\E o \in Operator : Begin(o) \/ Finish(o)) \/ Refresh \/ Restart

Spec == Init /\ [][Next]_vars

(* The ticker goes on and every scrape is bounded by scrapeBudget; nothing *)
(* is assumed of requests.                                                 *)
FairSpec == Spec /\ WF_vars(Refresh)

-----------------------------------------------------------------------------
TypeOK ==
  /\ recs \in Registry /\ file \in Registry /\ db \in Registry
  /\ live \in [Node -> Meta \cup {None}]
  /\ mem \subseteq Node
  /\ cache \in [Node -> Meta \cup {None}]
  /\ scrape \in [Node -> Meta \cup {None}]
  /\ req \in [Operator -> Request \cup {None}]
  /\ disputed \subseteq Node /\ dbMissed \in BOOLEAN
  /\ restarts \in 0 .. MaxRestarts

(* The live set follows the registry: a node with no request under way is  *)
(* live exactly when its record is active, and as the record says, unless  *)
(* requests on it overlapped or a save failed and no request that had the  *)
(* node to itself has come since.                                          *)
LiveFollowsRegistry ==
  \A n \in Node \ disputed : InFlight(n) = {} => live[n] = activeFleetNodes(recs)[n]

(* Every live node has its memory, without which it would not be scraped,  *)
(* and the console's own node is live.  A deleted node leaves nothing: no  *)
(* status is cached without memory, however late its scrape ends.          *)
NothingLeftOver ==
  /\ \A n \in Node : live[n] # None \/ cache[n] # None => n \in mem
  /\ live[Local] # None

(* Saved means kept: when no save has missed PostgreSQL, a restart finds   *)
(* every undisputed record as it was, whichever copy it reads.             *)
RestartKeepsRecords ==
  [][Restart /\ ~dbMissed => \A n \in Node \ disputed : recs'[n] = recs[n]]_vars

(* A node that stays live as it is gets a status that says so, whatever    *)
(* older scrape was under way when it changed.                             *)
StatusCatchesUp ==
  \A n \in Node : <>[][FALSE]_(live[n]) => <>[](live[n] # None => cache[n] = live[n])

(* AlertEngine's environment: to the engine a node goes only by a          *)
(* departure, which its eviction follows, whoever races with whom.         *)
View == INSTANCE FleetView WITH
  fleet    <- {n \in Node : live[n] # None /\ cache[n] # None},
  evicting <- {n \in Node : \E o \in InFlight(n) : req[o].stage = "evict"}

ShowsFleetView == View!Spec

-----------------------------------------------------------------------------
(* The comment in refreshAll: "Only cache if the node is still live".      *)
CachedIsLive == \A n \in Node : cache[n] # None => live[n] # None
=============================================================================
