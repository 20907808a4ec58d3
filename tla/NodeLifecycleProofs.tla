------------------------- MODULE NodeLifecycleProofs -------------------------
(***************************************************************************)
(* Proofs about the node lifecycle for every fleet, any number of          *)
(* operators, and any failing of the file and of PostgreSQL.               *)
(***************************************************************************)
EXTENDS NodeLifecycle, TLAPS

-----------------------------------------------------------------------------
(* The types in parts, for actions that disturb a few of them.             *)
RegistryOK == /\ recs \in Registry /\ file \in Registry /\ db \in Registry
              /\ dbMissed \in BOOLEAN /\ (dbMissed => HasDb)
LiveOK     == live \in [Node -> Meta \cup {None}] /\ mem \subseteq Node
CacheOK    == cache \in [Node -> Meta \cup {None}] /\ scrape \in [Node -> Meta \cup {None}]
ReqOK      == req \in [Operator -> Request \cup {None}] /\ disputed \subseteq Node

(* A request that makes a node live, or patches it, says what it then is,  *)
(* and none takes the console's own node out.                              *)
ReqSound ==
  \A o \in Operator : req[o] # None =>
    /\ req[o].op \in {"add", "update"} => req[o].meta \in Meta
    /\ req[o].op \in {"decommission", "delete"} => req[o].node # Local

(* Every copy of the registry has the console's own node active.           *)
LocalActive == isActive(recs[Local]) /\ isActive(file[Local]) /\ isActive(db[Local])

IInv == RegistryOK /\ LiveOK /\ CacheOK /\ ReqOK /\ restarts \in 0 .. MaxRestarts
          /\ ReqSound /\ LocalActive /\ NothingLeftOver

(* A request marked alone is the only one on its node, and those on a node *)
(* that is not disputed are marked so.                                     *)
AloneIsAlone ==
  /\ \A o, p \in Operator :
       req[o] # None /\ req[p] # None /\ req[o].node = req[p].node /\ req[o].alone => o = p
  /\ \A o \in Operator : req[o] # None /\ req[o].node \notin disputed => req[o].alone

(* What a request that is alone has still to do agrees with the record.    *)
ApplyAgrees ==
  \A o \in Operator : req[o] # None /\ req[o].alone /\ req[o].stage = "apply" =>
    LET n == req[o].node IN
    /\ req[o].op = "add" => isActive(recs[n]) /\ recs[n].meta = req[o].meta
    /\ req[o].op \in {"decommission", "delete"} => ~isActive(recs[n])
    /\ req[o].op = "update" =>
         /\ recs[n] # None /\ recs[n].meta = req[o].meta
         /\ n \notin disputed => (live[n] # None <=> isActive(recs[n]))

(* With nothing left to apply, an undisputed node is as its record says.   *)
AppliedAgrees ==
  \A n \in Node \ disputed :
    (\A o \in InFlight(n) : req[o].stage = "evict") => live[n] = activeFleetNodes(recs)[n]

AgreeInv == AloneIsAlone /\ ApplyAgrees /\ AppliedAgrees

(* While no save has missed PostgreSQL the copies are one, and they have   *)
(* every undisputed record and that of every request that is alone.        *)
CopiesAgree ==
  ~dbMissed =>
    /\ HasDb => file = db
    /\ \A n \in Node \ disputed : file[n] = recs[n]
    /\ \A o \in Operator : req[o] # None /\ req[o].alone =>
         file[req[o].node] = recs[req[o].node]

-----------------------------------------------------------------------------
(* What the registry's half of any request does.                           *)
Sound(op, n, rec, meta) ==
  \/ /\ op = "add" /\ meta \in Meta
     /\ rec \in Record /\ isActive(rec) /\ rec.meta = meta
  \/ /\ op = "update" /\ meta \in Meta /\ recs[n] # None
     /\ rec \in Record /\ rec.meta = meta /\ (isActive(rec) <=> isActive(recs[n]))
  \/ /\ op \in {"decommission", "delete"} /\ meta = None /\ n # Local
     /\ rec \in Record \cup {None} /\ ~isActive(rec)

LEMMA BeginCases ==
  ASSUME RegistryOK, NEW o \in Operator, Begin(o)
  PROVE  \E n \in Node, op \in Op, rec \in Record \cup {None}, meta \in Meta \cup {None} :
           Sound(op, n, rec, meta) /\ change(o, op, n, rec, meta)
<1>1. PICK n \in Node :
        \/ decommission(o, n) \/ recommission(o, n) \/ deleteNode(o, n)
        \/ \E m \in Meta : create(o, n, m) \/ update(o, n, m)
  BY DEF Begin
<1>2. recs[n] # None => recs[n] \in Record /\ recs[n].status \in {"active", "decommissioned"}
                          /\ recs[n].meta \in Meta
  BY DEF RegistryOK, Registry, Record
<1>3. CASE decommission(o, n)
  <2> DEFINE rec == [recs[n] EXCEPT !.status = "decommissioned"]
  <2>1. rec \in Record /\ ~isActive(rec)
    BY <1>2, <1>3 DEF decommission, Record, isActive
  <2>2. Sound("decommission", n, rec, None) /\ change(o, "decommission", n, rec, None)
    BY <1>3, <2>1 DEF decommission, Sound
  <2> QED BY <2>1, <2>2 DEF Op
<1>4. CASE recommission(o, n)
  <2> DEFINE rec == [recs[n] EXCEPT !.status = "active"]
  <2>1. rec \in Record /\ isActive(rec) /\ rec.meta = recs[n].meta
    BY <1>2, <1>4, NoneAssumption DEF recommission, Record, isActive
  <2>2. Sound("add", n, rec, recs[n].meta) /\ change(o, "add", n, rec, recs[n].meta)
    BY <1>2, <1>4, <2>1 DEF recommission, Sound
  <2> QED BY <1>2, <1>4, <2>1, <2>2 DEF Op, recommission
<1>5. CASE deleteNode(o, n)
  <2>1. Sound("delete", n, None, None) /\ change(o, "delete", n, None, None)
    BY <1>5 DEF deleteNode, Sound, isActive
  <2> QED BY <2>1 DEF Op
<1>6. ASSUME NEW m \in Meta, create(o, n, m)
      PROVE  \E op \in Op, rec \in Record \cup {None}, meta \in Meta \cup {None} :
               Sound(op, n, rec, meta) /\ change(o, op, n, rec, meta)
  <2> DEFINE rec == [status |-> "active", meta |-> m]
  <2>1. rec \in Record /\ isActive(rec) /\ rec.meta = m
    BY NoneAssumption DEF Record, isActive
  <2>2. Sound("add", n, rec, m) /\ change(o, "add", n, rec, m)
    BY <1>6, <2>1 DEF create, Sound
  <2> QED BY <2>1, <2>2 DEF Op
<1>7. ASSUME NEW m \in Meta, update(o, n, m)
      PROVE  \E op \in Op, rec \in Record \cup {None}, meta \in Meta \cup {None} :
               Sound(op, n, rec, meta) /\ change(o, op, n, rec, meta)
  <2> DEFINE rec == [recs[n] EXCEPT !.meta = m]
  <2>1. rec \in Record /\ rec.meta = m /\ rec.status = recs[n].status /\ rec # None
    BY <1>2, <1>7, NoneAssumption DEF update, Record
  <2>2. Sound("update", n, rec, m) /\ change(o, "update", n, rec, m)
    BY <1>7, <2>1 DEF update, Sound, isActive
  <2> QED BY <2>1, <2>2 DEF Op
<1> QED BY <1>1, <1>3, <1>4, <1>5, <1>6, <1>7

(* The bookkeeping of requests: the others on the node are not alone any   *)
(* more, and this one has yet to be applied, unless it was refused.        *)
LEMMA ChangeReqs ==
  ASSUME ReqOK, NEW o \in Operator, NEW op \in Op, NEW n \in Node,
         NEW rec, NEW meta \in Meta \cup {None}, change(o, op, n, rec, meta)
  PROVE  /\ ReqOK' /\ req[o] = None
         /\ \A p \in Operator \ {o} :
              /\ req'[p] = None <=> req[p] = None
              /\ req[p] # None =>
                   /\ req'[p].op = req[p].op /\ req'[p].node = req[p].node
                   /\ req'[p].meta = req[p].meta /\ req'[p].stage = req[p].stage
                   /\ req'[p].alone = (req[p].alone /\ req[p].node # n)
         /\ req'[o] # None =>
              /\ req'[o].op = op /\ req'[o].node = n /\ req'[o].meta = meta
              /\ req'[o].stage = "apply" /\ req'[o].alone = (InFlight(n) = {})
         /\ disputed \subseteq disputed' /\ disputed' \subseteq disputed \cup {n}
         /\ InFlight(n) # {} \/ req'[o] = None => n \in disputed'
<1> DEFINE others == [p \in Operator |->
                        IF p \in InFlight(n) THEN [req[p] EXCEPT !.alone = FALSE] ELSE req[p]]
           mine == [op |-> op, node |-> n, meta |-> meta, stage |-> "apply",
                    alone |-> InFlight(n) = {}]
<1>1. PICK took \in Outcomes :
        /\ req' = IF took = "none" THEN others ELSE [others EXCEPT ![o] = mine]
        /\ disputed' = IF took = "none" \/ InFlight(n) # {} THEN disputed \cup {n} ELSE disputed
  BY DEF change
<1>2. req[o] = None /\ others[o] = None
  BY DEF change, InFlight
<1>3. mine \in Request
  BY DEF Request
<1>4. ASSUME NEW p \in Operator
      PROVE  /\ others[p] \in Request \cup {None} /\ (others[p] = None <=> req[p] = None)
             /\ req[p] # None =>
                  /\ others[p].op = req[p].op /\ others[p].node = req[p].node
                  /\ others[p].meta = req[p].meta /\ others[p].stage = req[p].stage
                  /\ others[p].alone = (req[p].alone /\ req[p].node # n)
  <2>1. CASE p \in InFlight(n)
    <3>1. req[p] # None /\ req[p].node = n /\ req[p] \in Request
      BY <2>1 DEF InFlight, ReqOK
    <3>2. others[p] = [req[p] EXCEPT !.alone = FALSE] /\ others[p] \in Request
      BY <2>1, <3>1 DEF Request
    <3> QED BY <3>1, <3>2, NoneAssumption DEF Request
  <2>2. CASE p \notin InFlight(n)
    BY <2>2 DEF InFlight, ReqOK, Request
  <2> QED BY <2>1, <2>2
<1>5. req' \in [Operator -> Request \cup {None}]
  BY <1>1, <1>3, <1>4
<1>6. disputed' \subseteq Node
  BY <1>1 DEF ReqOK
<1>7. \A p \in Operator \ {o} : req'[p] = others[p]
  BY <1>1
<1>8. req'[o] = IF took = "none" THEN None ELSE mine
  BY <1>1, <1>2
<1>9. ReqOK' /\ req[o] = None
  BY <1>2, <1>5, <1>6 DEF ReqOK
<1>10. \A p \in Operator \ {o} :
         /\ req'[p] = None <=> req[p] = None
         /\ req[p] # None =>
              /\ req'[p].op = req[p].op /\ req'[p].node = req[p].node
              /\ req'[p].meta = req[p].meta /\ req'[p].stage = req[p].stage
              /\ req'[p].alone = (req[p].alone /\ req[p].node # n)
  <2> HIDE DEF others
  <2> QED BY <1>4, <1>7
<1>11. mine # None
  BY <1>3, NoneAssumption
<1>12. req'[o] # None =>
         /\ req'[o].op = op /\ req'[o].node = n /\ req'[o].meta = meta
         /\ req'[o].stage = "apply" /\ req'[o].alone = (InFlight(n) = {})
  BY <1>8
<1>13. /\ disputed \subseteq disputed' /\ disputed' \subseteq disputed \cup {n}
       /\ InFlight(n) # {} \/ req'[o] = None => n \in disputed'
  BY <1>1, <1>8, <1>11
<1> HIDE DEF others, mine
<1> QED BY <1>9, <1>10, <1>12, <1>13

(* What the rest of it does: the record changes, in memory and, as far as  *)
(* the save reached, in the copies.                                        *)
LEMMA ChangeRecs ==
  ASSUME RegistryOK, NEW o \in Operator, NEW op, NEW n \in Node,
         NEW rec \in Record \cup {None}, NEW meta, change(o, op, n, rec, meta)
  PROVE  /\ RegistryOK' /\ recs' = [recs EXCEPT ![n] = rec]
         /\ file' = file \/ file' = recs'
         /\ db' = db \/ db' = recs'
         /\ UNCHANGED <<live, mem, cache, scrape, restarts>>
<1>1. PICK took \in Outcomes : persistLocked(took)
  BY DEF change
<1>2. recs' = [recs EXCEPT ![n] = rec] /\ UNCHANGED <<live, mem, cache, scrape, restarts>>
  BY DEF change, fleetVars
<1>3. recs' \in Registry
  BY <1>2 DEF RegistryOK, Registry
<1>4. /\ file' = file \/ file' = recs'
      /\ db' = db \/ db' = recs'
      /\ dbMissed' \in BOOLEAN /\ (dbMissed' => HasDb)
  BY <1>1, NodeAssumption DEF persistLocked, RegistryOK
<1> QED BY <1>2, <1>3, <1>4 DEF RegistryOK

-----------------------------------------------------------------------------
(* IInv is inductive.                                                      *)
LEMMA InitInv == Init => IInv
<1> SUFFICES ASSUME Init PROVE IInv
  OBVIOUS
<1>1. Local \in Node /\ Seed \in Meta /\ None \notin Meta /\ MaxRestarts \in Nat
  BY NodeAssumption
<1>2. [status |-> "active", meta |-> Seed] \in Record
  BY <1>1 DEF Record
<1>3. recs \in Registry /\ file = recs /\ db = recs /\ dbMissed = FALSE
  BY <1>2 DEF Init, Registry
<1>4. \A n \in Node : isActive(recs[n]) => recs[n].meta \in Meta
  BY <1>3 DEF Registry, Record, isActive
<1>5. live \in [Node -> Meta \cup {None}]
  BY <1>4 DEF Init, activeFleetNodes
<1>6. isActive(recs[Local]) /\ recs[Local].meta = Seed
  BY <1>1, <1>2, NodeAssumption, NoneAssumption DEF Init, isActive
<1>7. live[Local] # None
  BY <1>1, <1>6 DEF Init, activeFleetNodes
<1>8. /\ mem = {n \in Node : live[n] # None} /\ cache = [n \in Node |-> None]
      /\ scrape = [n \in Node |-> None] /\ req = [o \in Operator |-> None]
      /\ disputed = {} /\ restarts = 0
  BY DEF Init
<1>9. ReqOK /\ ReqSound
  BY <1>8 DEF ReqOK, ReqSound
<1>10. CacheOK /\ LiveOK /\ NothingLeftOver
  BY <1>5, <1>7, <1>8 DEF CacheOK, LiveOK, NothingLeftOver
<1>11. RegistryOK /\ LocalActive
  BY <1>3, <1>6 DEF RegistryOK, LocalActive
<1>12. restarts \in 0 .. MaxRestarts
  BY <1>1, <1>8
<1> QED BY <1>9, <1>10, <1>11, <1>12 DEF IInv

LEMMA BeginInv ==
  ASSUME IInv, NEW o \in Operator, Begin(o)
  PROVE  IInv'
<1>1. PICK n \in Node, op \in Op, rec \in Record \cup {None}, meta \in Meta \cup {None} :
        Sound(op, n, rec, meta) /\ change(o, op, n, rec, meta)
  BY BeginCases DEF IInv
<1>2. /\ RegistryOK' /\ recs' = [recs EXCEPT ![n] = rec]
      /\ file' = file \/ file' = recs'
      /\ db' = db \/ db' = recs'
      /\ UNCHANGED <<live, mem, cache, scrape, restarts>>
  BY <1>1, ChangeRecs DEF IInv
<1>3. /\ ReqOK'
      /\ \A p \in Operator \ {o} :
           /\ req'[p] = None <=> req[p] = None
           /\ req[p] # None =>
                req'[p].op = req[p].op /\ req'[p].node = req[p].node /\ req'[p].meta = req[p].meta
      /\ req'[o] # None => req'[o].op = op /\ req'[o].node = n /\ req'[o].meta = meta
  BY <1>1, ChangeReqs DEF IInv
<1>4. isActive(recs'[Local])
  <2>1. n = Local => isActive(rec)
    BY <1>1 DEF Sound, IInv, LocalActive
  <2> QED BY <1>2, <2>1, NodeAssumption DEF IInv, LocalActive, RegistryOK, Registry
<1>5. LocalActive'
  BY <1>2, <1>4 DEF IInv, LocalActive
<1>6. ReqSound'
  <2>1. op \in {"add", "update"} => meta \in Meta
    BY <1>1 DEF Sound
  <2>2. op \in {"decommission", "delete"} => n # Local
    BY <1>1 DEF Sound
  <2> QED BY <1>3, <2>1, <2>2 DEF IInv, ReqSound
<1> QED BY <1>2, <1>3, <1>5, <1>6 DEF IInv, LiveOK, CacheOK, NothingLeftOver

LEMMA FinishInv ==
  ASSUME IInv, NEW o \in Operator, Finish(o)
  PROVE  IInv'
<1>1. req[o] # None /\ req[o] \in Request /\ req[o].node \in Node /\ UNCHANGED regVars
  BY DEF Finish, applyAddNode, applyUpdateNode, applyDeactivateNode, evict, Apply,
         IInv, ReqOK, Request
<1>2. UNCHANGED <<scrape, restarts>>
  BY DEF Finish, applyAddNode, applyUpdateNode, applyDeactivateNode, evict, fleetVars
<1>3. ReqOK' /\ ReqSound'
  <2>1. CASE Replies(o) /\ disputed' \subseteq disputed
    BY <2>1 DEF Replies, IInv, ReqOK, ReqSound
  <2>2. CASE req' = [req EXCEPT ![o].stage = "evict"] /\ disputed' \subseteq disputed
    <3>1. req'[o] = [req[o] EXCEPT !.stage = "evict"] /\ \A p \in Operator \ {o} : req'[p] = req[p]
      BY <2>2 DEF IInv, ReqOK
    <3>2. req'[o] \in Request /\ req'[o].op = req[o].op /\ req'[o].node = req[o].node
          /\ req'[o].meta = req[o].meta
      BY <1>1, <3>1 DEF Request
    <3>3. req' \in [Operator -> Request \cup {None}]
      BY <2>2, <3>1, <3>2 DEF IInv, ReqOK
    <3> QED BY <1>1, <2>2, <3>1, <3>2, <3>3 DEF IInv, ReqOK, ReqSound
  <2> QED BY <2>1, <2>2 DEF Finish, applyAddNode, applyUpdateNode, applyDeactivateNode, evict,
                             Settles
<1>4. LiveOK' /\ CacheOK' /\ NothingLeftOver'
  <2>1. CASE applyAddNode(o)
    <3>1. req[o].meta \in Meta /\ req[o].meta # None
      BY <2>1, <1>1, NodeAssumption DEF applyAddNode, Apply, IInv, ReqSound
    <3> QED BY <1>1, <1>2, <2>1, <3>1 DEF applyAddNode, IInv, LiveOK, CacheOK, NothingLeftOver
  <2>2. CASE applyUpdateNode(o)
    <3>1. req[o].meta \in Meta /\ req[o].meta # None
      BY <2>2, <1>1, NodeAssumption DEF applyUpdateNode, Apply, IInv, ReqSound
    <3>2. \A n \in Node : live'[n] = None <=> live[n] = None
      BY <2>2, <3>1 DEF applyUpdateNode, IInv, LiveOK
    <3>3. live' \in [Node -> Meta \cup {None}]
      BY <2>2, <3>1 DEF applyUpdateNode, IInv, LiveOK
    <3> QED BY <1>2, <2>2, <3>2, <3>3, NodeAssumption
            DEF applyUpdateNode, IInv, LiveOK, CacheOK, NothingLeftOver
  <2>3. CASE applyDeactivateNode(o)
    <3>1. req[o].node # Local
      BY <1>1, <2>3 DEF applyDeactivateNode, Apply, IInv, ReqSound
    <3> QED BY <1>1, <1>2, <2>3, <3>1, NodeAssumption
            DEF applyDeactivateNode, IInv, LiveOK, CacheOK, NothingLeftOver
  <2>4. CASE evict(o)
    BY <2>4 DEF evict, fleetVars, IInv, LiveOK, CacheOK, NothingLeftOver
  <2> QED BY <2>1, <2>2, <2>3, <2>4 DEF Finish
<1> QED BY <1>1, <1>2, <1>3, <1>4 DEF IInv, regVars, RegistryOK, LocalActive

LEMMA RefreshInv ==
  ASSUME IInv, Refresh
  PROVE  IInv'
<1>1. CASE refreshAll
  BY <1>1 DEF refreshAll, regVars, fleetVars, IInv, RegistryOK, LiveOK, CacheOK, ReqOK,
              ReqSound, LocalActive, NothingLeftOver
<1>2. ASSUME NEW n \in Node, cacheStatus(n) PROVE IInv'
  <2>1. CacheOK' /\ NothingLeftOver' /\ LiveOK'
    BY <1>2 DEF cacheStatus, IInv, LiveOK, CacheOK, NothingLeftOver
  <2> QED BY <1>2, <2>1 DEF cacheStatus, regVars, IInv, RegistryOK, ReqOK, ReqSound, LocalActive
<1> QED BY <1>1, <1>2 DEF Refresh

LEMMA RestartInv ==
  ASSUME IInv, Restart
  PROVE  IInv'
<1>1. RegistryOK' /\ LocalActive'
  <2>1. recs' = db \/ recs' = file
    BY DEF Restart, newNodeRegistry
  <2>2. /\ file' = file \/ file' = recs'
        /\ db' = db \/ db' = recs'
        /\ dbMissed' \in BOOLEAN /\ (dbMissed' => HasDb)
    BY NodeAssumption DEF Restart, newNodeRegistry, persistLocked, IInv, RegistryOK
  <2> QED BY <2>1, <2>2 DEF IInv, RegistryOK, LocalActive
<1>2. \A n \in Node : isActive(recs'[n]) => recs'[n].meta \in Meta
  BY <1>1 DEF RegistryOK, Registry, Record, isActive
<1>3. live' \in [Node -> Meta \cup {None}]
  BY <1>2 DEF Restart, activeFleetNodes
<1>4. live'[Local] # None
  BY <1>1, <1>2, NodeAssumption DEF Restart, activeFleetNodes, LocalActive
<1>5. /\ mem' = {n \in Node : live'[n] # None} /\ cache' = [n \in Node |-> None]
      /\ scrape' = [n \in Node |-> None] /\ req' = [o \in Operator |-> None]
      /\ disputed' = {}
  BY DEF Restart
<1>6. restarts' \in 0 .. MaxRestarts
  BY NodeAssumption DEF Restart, IInv
<1>7. LiveOK' /\ CacheOK' /\ NothingLeftOver'
  BY <1>3, <1>4, <1>5 DEF LiveOK, CacheOK, NothingLeftOver
<1>8. ReqOK' /\ ReqSound'
  BY <1>5 DEF ReqOK, ReqSound
<1> QED BY <1>1, <1>6, <1>7, <1>8 DEF IInv

LEMMA StepInv == IInv /\ [Next]_vars => IInv'
<1> SUFFICES ASSUME IInv, [Next]_vars PROVE IInv'
  OBVIOUS
<1>1. CASE UNCHANGED vars
  BY <1>1 DEF vars, regVars, fleetVars, IInv, RegistryOK, LiveOK, CacheOK, ReqOK,
              ReqSound, LocalActive, NothingLeftOver
<1> QED BY <1>1, BeginInv, FinishInv, RefreshInv, RestartInv DEF Next

LEMMA Invariance == Spec => []IInv
BY InitInv, StepInv, PTL DEF Spec

(* The state stays of its type, requests under way included, whatever      *)
(* races or fails.                                                         *)
THEOREM TypeCorrect == Spec => []TypeOK
<1>1. IInv => TypeOK
  BY DEF IInv, TypeOK, RegistryOK, LiveOK, CacheOK, ReqOK
<1> QED BY <1>1, Invariance, PTL

(* No late answer brings a deleted node back, and no request and no        *)
(* restart takes the console's own node out.                               *)
THEOREM NothingIsLeftOver == Spec => []NothingLeftOver
<1>1. IInv => NothingLeftOver
  BY DEF IInv
<1> QED BY <1>1, Invariance, PTL

-----------------------------------------------------------------------------
(* AgreeInv is inductive.                                                  *)
LEMMA AgreeInit == Init => AgreeInv
<1> SUFFICES ASSUME Init PROVE AgreeInv
  OBVIOUS
<1>1. AloneIsAlone /\ ApplyAgrees
  BY DEF Init, AloneIsAlone, ApplyAgrees
<1>2. AppliedAgrees
  BY DEF Init, AppliedAgrees
<1> QED BY <1>1, <1>2 DEF AgreeInv

LEMMA AgreeBegin ==
  ASSUME IInv, AgreeInv, NEW o \in Operator, Begin(o)
  PROVE  AgreeInv'
<1>1. PICK n \in Node, op \in Op, rec \in Record \cup {None}, meta \in Meta \cup {None} :
        Sound(op, n, rec, meta) /\ change(o, op, n, rec, meta)
  BY BeginCases DEF IInv
<1>2. /\ recs' = [recs EXCEPT ![n] = rec] /\ recs'[n] = rec
      /\ \A m \in Node \ {n} : recs'[m] = recs[m]
      /\ live' = live
  BY <1>1, ChangeRecs DEF IInv, RegistryOK, Registry
<1>3. /\ req[o] = None
      /\ \A p \in Operator \ {o} :
           /\ req'[p] = None <=> req[p] = None
           /\ req[p] # None =>
                /\ req'[p].op = req[p].op /\ req'[p].node = req[p].node
                /\ req'[p].meta = req[p].meta /\ req'[p].stage = req[p].stage
                /\ req'[p].alone = (req[p].alone /\ req[p].node # n)
      /\ req'[o] # None =>
           /\ req'[o].op = op /\ req'[o].node = n /\ req'[o].meta = meta
           /\ req'[o].stage = "apply" /\ req'[o].alone = (InFlight(n) = {})
      /\ disputed \subseteq disputed' /\ disputed' \subseteq disputed \cup {n}
      /\ InFlight(n) # {} \/ req'[o] = None => n \in disputed'
  BY <1>1, ChangeReqs DEF IInv
<1>4. \A p \in Operator : req[p] # None => req[p] \in Request /\ req[p].node \in Node
  BY DEF IInv, ReqOK, Request
<1>5. n \notin disputed' => InFlight(n) = {} /\ req'[o] # None /\ n \notin disputed
  BY <1>3
<1>6. InFlight(n) = {} <=> \A p \in Operator : req[p] # None => req[p].node # n
  BY DEF InFlight
<1>7. AloneIsAlone'
  <2>1. ASSUME NEW p \in Operator, NEW q \in Operator, req'[p] # None, req'[q] # None,
               req'[p].node = req'[q].node, req'[p].alone
        PROVE  p = q
    <3>1. CASE p = o /\ q # o
      BY <1>3, <1>6, <2>1, <3>1
    <3>2. CASE p # o /\ q = o
      BY <1>3, <2>1, <3>2
    <3>3. CASE p # o /\ q # o
      <4>1. req[p] # None /\ req[q] # None
        BY <1>3, <2>1, <3>3
      <4>2. req[p].node = req[q].node /\ req[p].alone
        BY <1>3, <2>1, <3>3, <4>1
      <4> QED BY <4>1, <4>2 DEF AgreeInv, AloneIsAlone
    <3> QED BY <3>1, <3>2, <3>3
  <2>2. ASSUME NEW p \in Operator, req'[p] # None, req'[p].node \notin disputed'
        PROVE  req'[p].alone
    <3>1. CASE p = o
      BY <1>3, <2>2, <3>1
    <3>2. CASE p # o
      <4>1. req[p] # None /\ req[p].node = req'[p].node /\ req[p].alone
        BY <1>3, <2>2, <3>2 DEF AgreeInv, AloneIsAlone
      <4>2. req[p].node # n
        BY <1>5, <1>6, <2>2, <4>1
      <4> QED BY <1>3, <3>2, <4>1, <4>2
    <3> QED BY <3>1, <3>2
  <2> QED BY <2>1, <2>2 DEF AloneIsAlone
<1>8. ApplyAgrees'
  <2> SUFFICES ASSUME NEW p \in Operator, req'[p] # None, req'[p].alone, req'[p].stage = "apply"
               PROVE  LET m == req'[p].node IN
                      /\ req'[p].op = "add" => isActive(recs'[m]) /\ recs'[m].meta = req'[p].meta
                      /\ req'[p].op \in {"decommission", "delete"} => ~isActive(recs'[m])
                      /\ req'[p].op = "update" =>
                           /\ recs'[m] # None /\ recs'[m].meta = req'[p].meta
                           /\ m \notin disputed' => (live'[m] # None <=> isActive(recs'[m]))
    BY DEF ApplyAgrees
  <2>1. CASE p = o
    <3>1. req'[p].node = n /\ req'[p].op = op /\ req'[p].meta = meta /\ recs'[n] = rec
      BY <1>2, <1>3, <2>1
    <3>2. op = "add" => isActive(rec) /\ rec.meta = meta
      BY <1>1 DEF Sound
    <3>3. op \in {"decommission", "delete"} => ~isActive(rec)
      BY <1>1 DEF Sound
    <3>4. op = "update" => rec # None /\ rec.meta = meta /\ (isActive(rec) <=> isActive(recs[n]))
      BY <1>1, NoneAssumption DEF Sound
    <3>5. n \notin disputed' => (live[n] # None <=> isActive(recs[n]))
      <4> SUFFICES ASSUME n \notin disputed' PROVE live[n] # None <=> isActive(recs[n])
        OBVIOUS
      <4>1. live[n] = activeFleetNodes(recs)[n]
        BY <1>5 DEF AgreeInv, AppliedAgrees
      <4>2. isActive(recs[n]) => recs[n].meta # None
        BY NodeAssumption DEF isActive, IInv, RegistryOK, Registry, Record
      <4> QED BY <4>1, <4>2 DEF activeFleetNodes
    <3> QED BY <1>2, <3>1, <3>2, <3>3, <3>4, <3>5
  <2>2. CASE p # o
    <3>1. /\ req[p] # None /\ req[p].alone /\ req[p].stage = "apply" /\ req[p].node # n
          /\ req'[p].op = req[p].op /\ req'[p].node = req[p].node /\ req'[p].meta = req[p].meta
      BY <1>3, <2>2
    <3>2. recs'[req[p].node] = recs[req[p].node]
      BY <1>2, <1>4, <3>1
    <3> QED BY <1>2, <1>3, <3>1, <3>2 DEF AgreeInv, ApplyAgrees
  <2> QED BY <2>1, <2>2
<1>9. AppliedAgrees'
  <2> SUFFICES ASSUME NEW m \in Node, m \notin disputed',
                      \A p \in Operator : req'[p] # None /\ req'[p].node = m => req'[p].stage = "evict"
               PROVE  live'[m] = activeFleetNodes(recs')[m]
    BY DEF AppliedAgrees, InFlight
  <2>1. m # n
    BY <1>3, <1>5
  <2>2. \A p \in Operator : req[p] # None /\ req[p].node = m => req[p].stage = "evict"
    BY <1>3
  <2>3. live[m] = activeFleetNodes(recs)[m]
    BY <1>3, <2>2 DEF AgreeInv, AppliedAgrees, InFlight
  <2>4. recs'[m] = recs[m]
    BY <1>2, <2>1
  <2> QED BY <1>2, <2>3, <2>4 DEF activeFleetNodes
<1> QED BY <1>7, <1>8, <1>9 DEF AgreeInv

LEMMA AgreeFinish ==
  ASSUME IInv, AgreeInv, NEW o \in Operator, Finish(o)
  PROVE  AgreeInv'
<1> DEFINE n == req[o].node
<1>1. req[o] # None /\ req[o] \in Request /\ n \in Node /\ UNCHANGED regVars
  BY DEF Finish, applyAddNode, applyUpdateNode, applyDeactivateNode, evict, Apply,
         IInv, ReqOK, Request
<1>2. recs' = recs
  BY <1>1 DEF regVars
<1>3. \A p \in Operator \ {o} : req'[p] = req[p]
  BY DEF Finish, applyAddNode, applyUpdateNode, applyDeactivateNode, evict, Replies, IInv, ReqOK
<1>4. \/ req'[o] = None
      \/ /\ req'[o] # None /\ req'[o].stage = "evict" /\ req'[o].node = n
         /\ req'[o].alone = req[o].alone
  <2>1. CASE Replies(o)
    BY <2>1 DEF Replies, IInv, ReqOK
  <2>2. CASE req' = [req EXCEPT ![o].stage = "evict"]
    <3>1. req'[o] = [req[o] EXCEPT !.stage = "evict"]
      BY <2>2 DEF IInv, ReqOK
    <3>2. req'[o] \in Request
      BY <1>1, <3>1 DEF Request
    <3> QED BY <1>1, <3>1, <3>2, NoneAssumption DEF Request
  <2> QED BY <2>1, <2>2 DEF Finish, applyAddNode, applyUpdateNode, applyDeactivateNode, evict
<1>5. \/ disputed' = disputed
      \/ disputed' = disputed \ {n} /\ req[o].alone
  BY DEF Finish, applyAddNode, applyUpdateNode, applyDeactivateNode, evict, Settles
<1>6. \A m \in Node \ {n} : live'[m] = live[m]
  BY DEF Finish, applyAddNode, applyUpdateNode, applyDeactivateNode, evict, fleetVars, IInv, LiveOK
<1>7. \A p \in Operator : req[p] # None => req[p].node \in Node /\ req[p].alone \in BOOLEAN
  BY DEF IInv, ReqOK, Request
<1>8. AloneIsAlone'
  <2>1. ASSUME NEW p \in Operator, NEW q \in Operator, req'[p] # None, req'[q] # None,
               req'[p].node = req'[q].node, req'[p].alone
        PROVE  p = q
    <3>1. /\ req[p] # None /\ req'[p].node = req[p].node /\ req'[p].alone = req[p].alone
          /\ req[q] # None /\ req'[q].node = req[q].node
      BY <1>1, <1>3, <1>4, <2>1
    <3> QED BY <2>1, <3>1 DEF AgreeInv, AloneIsAlone
  <2>2. ASSUME NEW p \in Operator, req'[p] # None, req'[p].node \notin disputed'
        PROVE  req'[p].alone
    <3>1. req[p] # None /\ req'[p].node = req[p].node /\ req'[p].alone = req[p].alone
      BY <1>1, <1>3, <1>4, <2>2
    <3>2. CASE req[p].node \notin disputed
      BY <3>1, <3>2 DEF AgreeInv, AloneIsAlone
    <3>3. CASE req[p].node \in disputed
      <4>1. req[p].node = n /\ req[o].alone
        BY <1>5, <2>2, <3>1, <3>3
      <4>2. p = o
        BY <1>1, <3>1, <4>1 DEF AgreeInv, AloneIsAlone
      <4> QED BY <3>1, <4>1, <4>2
    <3> QED BY <3>2, <3>3
  <2> QED BY <2>1, <2>2 DEF AloneIsAlone
<1>9. ApplyAgrees'
  <2> SUFFICES ASSUME NEW p \in Operator, req'[p] # None, req'[p].alone, req'[p].stage = "apply"
               PROVE  LET m == req'[p].node IN
                      /\ req'[p].op = "add" => isActive(recs'[m]) /\ recs'[m].meta = req'[p].meta
                      /\ req'[p].op \in {"decommission", "delete"} => ~isActive(recs'[m])
                      /\ req'[p].op = "update" =>
                           /\ recs'[m] # None /\ recs'[m].meta = req'[p].meta
                           /\ m \notin disputed' => (live'[m] # None <=> isActive(recs'[m]))
    BY DEF ApplyAgrees
  <2>1. p # o /\ req'[p] = req[p]
    BY <1>3, <1>4
  <2>2. req[p].node # n
    BY <1>1, <2>1 DEF AgreeInv, AloneIsAlone
  <2> QED BY <1>2, <1>5, <1>6, <1>7, <2>1, <2>2 DEF AgreeInv, ApplyAgrees
<1>10. AppliedAgrees'
  <2> SUFFICES ASSUME NEW m \in Node, m \notin disputed',
                      \A p \in Operator : req'[p] # None /\ req'[p].node = m => req'[p].stage = "evict"
               PROVE  live'[m] = activeFleetNodes(recs)[m]
    BY <1>2 DEF AppliedAgrees, InFlight
  <2>1. CASE m # n
    <3>1. m \notin disputed /\ \A p \in Operator : req[p] # None /\ req[p].node = m => req[p].stage = "evict"
      BY <1>3, <1>5, <2>1
    <3> QED BY <1>6, <2>1, <3>1 DEF AgreeInv, AppliedAgrees, InFlight
  <2>2. CASE m = n
    <3>1. req[o].alone
      BY <1>1, <1>5, <2>2 DEF AgreeInv, AloneIsAlone
    <3>2. \A p \in Operator : req[p] # None /\ req[p].node = n => p = o
      BY <1>1, <3>1 DEF AgreeInv, AloneIsAlone
    <3>3. CASE applyAddNode(o)
      <4>1. isActive(recs[n]) /\ recs[n].meta = req[o].meta
        BY <1>1, <3>1, <3>3 DEF applyAddNode, Apply, AgreeInv, ApplyAgrees
      <4>2. live'[n] = req[o].meta
        BY <1>1, <3>3 DEF applyAddNode, IInv, LiveOK
      <4> QED BY <1>1, <2>2, <4>1, <4>2 DEF activeFleetNodes
    <3>4. CASE applyUpdateNode(o)
      <4>1. n \notin disputed
        BY <2>2, <3>4 DEF applyUpdateNode
      <4>2. recs[n].meta = req[o].meta /\ (live[n] # None <=> isActive(recs[n]))
        BY <1>1, <3>1, <3>4, <4>1 DEF applyUpdateNode, Apply, AgreeInv, ApplyAgrees
      <4>3. live'[n] = IF live[n] = None THEN None ELSE req[o].meta
        BY <1>1, <3>4 DEF applyUpdateNode, IInv, LiveOK
      <4> QED BY <1>1, <2>2, <4>2, <4>3 DEF activeFleetNodes
    <3>5. CASE applyDeactivateNode(o)
      <4>1. ~isActive(recs[n])
        BY <1>1, <3>1, <3>5 DEF applyDeactivateNode, Apply, AgreeInv, ApplyAgrees
      <4>2. live'[n] = None
        BY <1>1, <3>5 DEF applyDeactivateNode, IInv, LiveOK
      <4> QED BY <1>1, <2>2, <4>1, <4>2 DEF activeFleetNodes
    <3>6. CASE evict(o)
      <4>1. live' = live /\ n \notin disputed /\ req[o].stage = "evict"
        BY <2>2, <3>6 DEF evict, fleetVars
      <4> QED BY <1>1, <2>2, <3>2, <4>1 DEF AgreeInv, AppliedAgrees, InFlight
    <3> QED BY <3>3, <3>4, <3>5, <3>6 DEF Finish
  <2> QED BY <2>1, <2>2
<1> QED BY <1>8, <1>9, <1>10 DEF AgreeInv

LEMMA AgreeStep == IInv /\ AgreeInv /\ [Next]_vars => AgreeInv'
<1> SUFFICES ASSUME IInv, AgreeInv, [Next]_vars PROVE AgreeInv'
  OBVIOUS
<1>1. CASE UNCHANGED <<recs, live, req, disputed>>
  BY <1>1 DEF AgreeInv, AloneIsAlone, ApplyAgrees, AppliedAgrees, InFlight
<1>2. CASE UNCHANGED vars
  BY <1>1, <1>2 DEF vars, regVars, fleetVars
<1>3. CASE Refresh
  <2>1. UNCHANGED <<recs, live, req, disputed>>
    BY <1>3 DEF Refresh, refreshAll, cacheStatus, regVars, fleetVars
  <2> QED BY <1>1, <2>1
<1>4. CASE Restart
  <2>1. /\ live' = activeFleetNodes(recs') /\ req' = [o \in Operator |-> None] /\ disputed' = {}
    BY <1>4 DEF Restart
  <2>2. AloneIsAlone' /\ ApplyAgrees'
    BY <2>1 DEF AloneIsAlone, ApplyAgrees
  <2>3. AppliedAgrees'
    BY <2>1 DEF AppliedAgrees
  <2> QED BY <2>2, <2>3 DEF AgreeInv
<1> QED BY <1>2, <1>3, <1>4, AgreeBegin, AgreeFinish DEF Next

(* Whatever else goes on in the fleet, requests that do not overlap on a   *)
(* node and are saved leave the live set and the registry in agreement.    *)
THEOREM LiveSetFollows == Spec => []LiveFollowsRegistry
<1>1. AgreeInv => LiveFollowsRegistry
  BY DEF AgreeInv, AppliedAgrees, LiveFollowsRegistry
<1> QED BY <1>1, AgreeInit, AgreeStep, Invariance, PTL DEF Spec

-----------------------------------------------------------------------------
(* CopiesAgree is inductive.                                               *)
LEMMA SaveFacts ==
  ASSUME RegistryOK, NEW took \in Outcomes, persistLocked(took), ~dbMissed'
  PROVE  \/ took = "none" /\ ~dbMissed /\ file' = file /\ db' = db
         \/ took # "none" /\ file' = recs' /\ (HasDb => db' = recs')
<1>1. took \in {"none", "file", "both"}
  BY DEF Outcomes
<1>2. CASE took = "none"
  BY <1>2 DEF persistLocked, RegistryOK
<1>3. CASE took # "none"
  BY <1>1, <1>3 DEF persistLocked
<1> QED BY <1>2, <1>3

LEMMA CopiesBegin ==
  ASSUME IInv, CopiesAgree, NEW o \in Operator, Begin(o)
  PROVE  CopiesAgree'
<1> SUFFICES ASSUME ~dbMissed' PROVE CopiesAgree'
  BY DEF CopiesAgree
<1>1. PICK n \in Node, op \in Op, rec \in Record \cup {None}, meta \in Meta \cup {None} :
        Sound(op, n, rec, meta) /\ change(o, op, n, rec, meta)
  BY BeginCases DEF IInv
<1>2. \A m \in Node \ {n} : recs'[m] = recs[m]
  BY <1>1, ChangeRecs DEF IInv, RegistryOK, Registry
<1>3. /\ \A p \in Operator \ {o} :
           /\ req'[p] = None <=> req[p] = None
           /\ req[p] # None => /\ req'[p].node = req[p].node
                               /\ req'[p].alone = (req[p].alone /\ req[p].node # n)
      /\ disputed \subseteq disputed' /\ (req'[o] = None => n \in disputed')
      /\ req[o] = None
  BY <1>1, ChangeReqs DEF IInv
<1>4. PICK took \in Outcomes :
        persistLocked(took) /\ (took = "none" => req'[o] = None)
  <2>1. PICK took \in Outcomes :
          /\ persistLocked(took)
          /\ took = "none" =>
               req' = [p \in Operator |->
                         IF p \in InFlight(n) THEN [req[p] EXCEPT !.alone = FALSE] ELSE req[p]]
    BY <1>1 DEF change
  <2>2. o \notin InFlight(n)
    BY <1>3 DEF InFlight
  <2> QED BY <1>3, <2>1, <2>2
<1>5. CASE took # "none"
  <2>1. file' = recs' /\ (HasDb => db' = recs')
    BY <1>4, <1>5, SaveFacts DEF IInv
  <2> QED BY <2>1 DEF CopiesAgree
<1>6. CASE took = "none"
  <2>1. ~dbMissed /\ file' = file /\ db' = db /\ req'[o] = None /\ n \in disputed'
    BY <1>3, <1>4, <1>6, SaveFacts DEF IInv
  <2>2. \A m \in Node \ disputed' : file'[m] = recs'[m]
    BY <1>2, <1>3, <2>1 DEF CopiesAgree
  <2>3. ASSUME NEW p \in Operator, req'[p] # None, req'[p].alone
        PROVE  file'[req'[p].node] = recs'[req'[p].node]
    <3>1. p # o /\ req[p] # None
      BY <1>3, <2>1, <2>3
    <3>2. req'[p].node = req[p].node /\ req[p].alone /\ req[p].node # n /\ req[p].node \in Node
      BY <1>3, <2>3, <3>1 DEF IInv, ReqOK, Request
    <3> QED BY <1>2, <2>1, <3>1, <3>2 DEF CopiesAgree
  <2> QED BY <2>1, <2>2, <2>3 DEF CopiesAgree
<1> QED BY <1>5, <1>6

LEMMA CopiesFinish ==
  ASSUME IInv, CopiesAgree, NEW o \in Operator, Finish(o)
  PROVE  CopiesAgree'
<1>1. req[o] # None /\ req[o] \in Request /\ UNCHANGED regVars
  BY DEF Finish, applyAddNode, applyUpdateNode, applyDeactivateNode, evict, Apply, IInv, ReqOK
<1>2. \A p \in Operator : req'[p] # None =>
        req[p] # None /\ req'[p].node = req[p].node /\ req'[p].alone = req[p].alone
  <2>1. CASE Replies(o)
    BY <2>1 DEF Replies, IInv, ReqOK
  <2>2. CASE req' = [req EXCEPT ![o].stage = "evict"]
    <3>1. req'[o] = [req[o] EXCEPT !.stage = "evict"] /\ \A p \in Operator \ {o} : req'[p] = req[p]
      BY <2>2 DEF IInv, ReqOK
    <3> QED BY <1>1, <3>1 DEF Request
  <2> QED BY <2>1, <2>2 DEF Finish, applyAddNode, applyUpdateNode, applyDeactivateNode, evict
<1>3. disputed' = disputed \/ (disputed' = disputed \ {req[o].node} /\ req[o].alone)
  BY DEF Finish, applyAddNode, applyUpdateNode, applyDeactivateNode, evict, Settles
<1> QED BY <1>1, <1>2, <1>3 DEF CopiesAgree, regVars

LEMMA CopiesStep == IInv /\ CopiesAgree /\ [Next]_vars => CopiesAgree'
<1> SUFFICES ASSUME IInv, CopiesAgree, [Next]_vars PROVE CopiesAgree'
  OBVIOUS
<1>1. CASE UNCHANGED <<regVars, req, disputed>>
  BY <1>1 DEF CopiesAgree, regVars
<1>2. CASE UNCHANGED vars
  BY <1>1, <1>2 DEF vars
<1>3. CASE Refresh
  <2>1. UNCHANGED <<regVars, req, disputed>>
    BY <1>3 DEF Refresh, refreshAll, cacheStatus
  <2> QED BY <1>1, <2>1
<1>4. CASE Restart
  <2>1. req' = [o \in Operator |-> None] /\ newNodeRegistry
    BY <1>4 DEF Restart
  <2>2. ~dbMissed' => file' = recs' /\ (HasDb => db' = recs')
    <3>1. CASE HasDb /\ recs' = db /\ UNCHANGED <<file, db, dbMissed>>
      BY <3>1 DEF CopiesAgree
    <3>2. CASE recs' = file /\ \E took \in Outcomes \ {"none"} : persistLocked(took)
      BY <3>2, SaveFacts DEF IInv
    <3>3. CASE recs' = file /\ ~HasDb /\ UNCHANGED <<file, db, dbMissed>>
      BY <3>3
    <3> QED BY <2>1, <3>1, <3>2, <3>3, NodeAssumption DEF newNodeRegistry
  <2> QED BY <2>1, <2>2 DEF CopiesAgree
<1> QED BY <1>2, <1>3, <1>4, CopiesBegin, CopiesFinish DEF Next

(* A change that was saved, in both copies where there are two, survives   *)
(* every restart, whichever copy the restart can read.                     *)
THEOREM RestartsKeepRecords == Spec => RestartKeepsRecords
<1> DEFINE Kept == Restart /\ ~dbMissed => \A n \in Node \ disputed : recs'[n] = recs[n]
<1>1. Init => CopiesAgree
  BY DEF Init, CopiesAgree
<1>2. IInv /\ CopiesAgree /\ [Next]_vars => [Kept]_vars
  <2> SUFFICES ASSUME CopiesAgree, Restart, ~dbMissed, NEW n \in Node \ disputed
               PROVE  recs'[n] = recs[n]
    OBVIOUS
  <2>1. file[n] = recs[n] /\ (HasDb => db = file)
    BY DEF CopiesAgree
  <2>2. recs' = file \/ (HasDb /\ recs' = db)
    BY DEF Restart, newNodeRegistry
  <2> QED BY <2>1, <2>2
<1> QED BY <1>1, <1>2, CopiesStep, Invariance, PTL DEF Spec, RestartKeepsRecords

-----------------------------------------------------------------------------
(* The alert engine sees no other environment than FleetView's: each step  *)
(* here is one of the view's or leaves it as it is.                        *)
THEOREM ImplementsView == Spec => ShowsFleetView
<1> DEFINE seen == {n \in Node : live[n] # None /\ cache[n] # None}
           leaving == {n \in Node : \E o \in InFlight(n) : req[o].stage = "evict"}
<1>1. Init => View!Init
  BY DEF Init, View!Init, InFlight
<1>2. IInv /\ [Next]_vars => [View!Next]_<<seen, leaving>>
  <2> SUFFICES ASSUME IInv, [Next]_vars PROVE [View!Next]_<<seen, leaving>>
    OBVIOUS
  <2>1. CASE UNCHANGED <<live, cache, req>>
    BY <2>1 DEF InFlight
  <2>2. ASSUME NEW o \in Operator, Begin(o) PROVE UNCHANGED <<seen, leaving>>
    <3>1. PICK n \in Node, op \in Op, rec \in Record \cup {None}, meta \in Meta \cup {None} :
            Sound(op, n, rec, meta) /\ change(o, op, n, rec, meta)
      BY <2>2, BeginCases DEF IInv
    <3>2. UNCHANGED <<live, cache>>
      BY <3>1, ChangeRecs DEF IInv
    <3>3. \A p \in Operator :
            (req'[p] # None /\ req'[p].stage = "evict") =>
               req[p] # None /\ req[p].stage = "evict" /\ req'[p].node = req[p].node
      BY <3>1, ChangeReqs DEF IInv
    <3>4. \A p \in Operator :
            (req[p] # None /\ req[p].stage = "evict") =>
               req'[p] # None /\ req'[p].stage = "evict" /\ req'[p].node = req[p].node
      BY <3>1, ChangeReqs DEF IInv
    <3>5. leaving' = leaving
      BY <3>3, <3>4 DEF InFlight
    <3> QED BY <3>2, <3>5
  <2>3. ASSUME NEW o \in Operator, Finish(o) PROVE [View!Next]_<<seen, leaving>>
    <3> DEFINE n == req[o].node
    <3>1. req[o] # None /\ req[o] \in Request /\ n \in Node
      BY <2>3 DEF Finish, applyAddNode, applyUpdateNode, applyDeactivateNode, evict, Apply,
             IInv, ReqOK, Request
    <3>2. ASSUME Replies(o)
          PROVE  /\ leaving' \in {leaving, leaving \ {n}}
                 /\ req[o].stage = "apply" => leaving' = leaving
      <4>1. req'[o] = None /\ \A p \in Operator \ {o} : req'[p] = req[p]
        BY <3>2 DEF Replies, IInv, ReqOK
      <4>2. \A m \in Node \ {n} : m \in leaving' <=> m \in leaving
        BY <4>1 DEF InFlight
      <4>3. n \in leaving' => n \in leaving
        BY <4>1 DEF InFlight
      <4>4. req[o].stage = "apply" => (n \in leaving => n \in leaving')
        BY <4>1 DEF InFlight
      <4> QED BY <4>2, <4>3, <4>4
    <3>3. CASE applyAddNode(o)
      <4>1. leaving' = leaving
        BY <3>2, <3>3 DEF applyAddNode, Apply
      <4>2. req[o].meta # None
        BY <3>1, <3>3, NodeAssumption DEF applyAddNode, Apply, IInv, ReqSound
      <4>3. seen' = IF cache[n] # None THEN seen \cup {n} ELSE seen
        BY <3>1, <3>3, <4>2 DEF applyAddNode, IInv, LiveOK
      <4> QED BY <3>1, <4>1, <4>3 DEF View!Next, View!Scraped
    <3>4. CASE applyUpdateNode(o)
      <4>1. leaving' = leaving
        BY <3>2, <3>4 DEF applyUpdateNode, Apply
      <4>2. req[o].meta # None
        BY <3>1, <3>4, NodeAssumption DEF applyUpdateNode, Apply, IInv, ReqSound
      <4>3. seen' = seen
        BY <3>1, <3>4, <4>2 DEF applyUpdateNode, IInv, LiveOK
      <4> QED BY <4>1, <4>3
    <3>5. CASE applyDeactivateNode(o)
      <4>1. req'[o] = [req[o] EXCEPT !.stage = "evict"] /\ \A p \in Operator \ {o} : req'[p] = req[p]
        BY <3>5 DEF applyDeactivateNode, IInv, ReqOK
      <4>2. req'[o] # None /\ req'[o].stage = "evict" /\ req'[o].node = n
        <5>1. req'[o] \in Request
          BY <3>1, <4>1 DEF Request
        <5> QED BY <3>1, <4>1, <5>1, NoneAssumption DEF Request
      <4>3. leaving' = leaving \cup {n}
        <5>1. n \in leaving'
          BY <3>1, <4>2 DEF InFlight
        <5>2. \A m \in Node \ {n} : m \in leaving' <=> m \in leaving
          BY <4>1, <4>2 DEF InFlight
        <5>3. leaving' \subseteq Node /\ leaving \subseteq Node
          OBVIOUS
        <5> HIDE DEF leaving
        <5> QED BY <3>1, <5>1, <5>2, <5>3
      <4>4. seen' = seen \ {n}
        BY <3>1, <3>5 DEF applyDeactivateNode, IInv, LiveOK
      <4> QED BY <3>1, <4>3, <4>4 DEF View!Next, View!Leaves
    <3>6. CASE evict(o)
      <4>1. seen' = seen /\ leaving' \in {leaving, leaving \ {n}}
        BY <3>2, <3>6 DEF evict, fleetVars
      <4>2. n \in leaving
        BY <3>1, <3>6 DEF evict, InFlight
      <4> QED BY <3>1, <4>1, <4>2 DEF View!Next, View!Evicted
    <3> QED BY <2>3, <3>3, <3>4, <3>5, <3>6 DEF Finish
  <2>4. ASSUME NEW n \in Node, cacheStatus(n) PROVE [View!Next]_<<seen, leaving>>
    <3>1. leaving' = leaving
      BY <2>4 DEF cacheStatus, InFlight
    <3>2. seen' = seen \/ seen' = seen \cup {n}
      BY <2>4 DEF cacheStatus, IInv, CacheOK
    <3> QED BY <3>1, <3>2 DEF View!Next, View!Scraped
  <2>5. CASE Restart
    <3>1. seen' = {} /\ leaving' = {}
      BY <2>5 DEF Restart, InFlight
    <3> QED BY <3>1 DEF View!Next, View!Restart
  <2>6. CASE refreshAll \/ UNCHANGED vars
    BY <2>1, <2>6 DEF refreshAll, vars, fleetVars
  <2> QED BY <2>2, <2>3, <2>4, <2>5, <2>6 DEF Next, Refresh
<1> QED BY <1>1, <1>2, Invariance, PTL DEF Spec, ShowsFleetView, View!Spec
=============================================================================
