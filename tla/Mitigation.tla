------------------------------ MODULE Mitigation ------------------------------
(***************************************************************************)
(* The DDoS rules of the console (backend/ddos.go, ddosApply.go) and the   *)
(* nft tables of the nodes.  A rule is drafted, applied to nodes by a      *)
(* confirmed request, and revoked or expired; each of these saves the      *)
(* rules and then syncs the nodes concerned one after the other: the whole *)
(* table of a node is generated under the lock and loaded over SSH, up to  *)
(* 45 seconds later, without it.  Requests and the expiry loop may sync    *)
(* the same node at the same time.                                         *)
(***************************************************************************)
EXTENDS OpFailures

CONSTANTS
    Rules, Pops,
    SyncTasks,      \* bound: requests and expiry passes at the same time
    ApplyFailed     \* the failure a request to apply records

ASSUME MitigationAssumption == ApplyFailed \in Failures

VARIABLES
    flowspec,       \* ddosStore.rules
    flowspecSaved,  \* flowspec_rules.json and its row
    tables,         \* the rules in the kernel of each node
    syncs,          \* each request or expiry pass, with the nodes it still syncs
    unsynced        \* history: nodes with a sync that failed, was cut off,
                    \* overlapped another, or that nobody started

mitVars == <<flowspec, flowspecSaved, tables, syncs, unsynced>>

Rule == [status : {"none", "draft", "active", "revoked", "expired"}, pops : SUBSET Pops, due : BOOLEAN]
NoRule == [status |-> "none", pops |-> {}, due |-> FALSE]
NoSync == [by |-> "nobody", todo |-> {}, pop |-> {}, table |-> {}, alone |-> TRUE, failed |-> FALSE]

MitTypeOK ==
    /\ flowspec \in [Rules -> Rule] /\ flowspecSaved \in [Rules -> Rule]
    /\ tables \in [Pops -> SUBSET Rules] /\ unsynced \subseteq Pops
    /\ syncs \in [SyncTasks -> [by : {"nobody", "apply", "revoke", "expire"}, todo : SUBSET Pops,
                                pop : SUBSET Pops, table : SUBSET Rules, alone : BOOLEAN, failed : BOOLEAN]]

MitInit ==
    /\ flowspec \in [Rules -> {NoRule, [NoRule EXCEPT !.status = "draft"]}]
    /\ flowspecSaved = flowspec
    /\ tables = [p \in Pops |-> {}] /\ unsynced = {}
    /\ syncs = [s \in SyncTasks |-> NoSync]

ActiveOn(p) == {r \in Rules : flowspec[r].status = "active" /\ p \in flowspec[r].pops}
activeForNodeLocked(p) == {r \in ActiveOn(p) : ~flowspec[r].due}

(* The rules are changed and saved; a save that fails is only logged.      *)
persistLocked(rules) == flowspec' = rules /\ flowspecSaved' \in {rules, flowspecSaved}
Started(by, pops) == [NoSync EXCEPT !.by = by, !.todo = pops]
Begin(s, by, pops) == syncs[s] = NoSync /\ syncs' = [syncs EXCEPT ![s] = Started(by, pops)]

(* Syncs under way of a node that is not to be synced again.               *)
Abandoned(pops) ==
    [t \in SyncTasks |-> IF syncs[t].pop \cap pops # {} THEN [syncs[t] EXCEPT !.alone = FALSE] ELSE syncs[t]]

------------------------------------------------------------------------------
handleDDoSCreate(r) ==
    /\ flowspec[r] = NoRule
    /\ persistLocked([flowspec EXCEPT ![r].status = "draft"])
    /\ UNCHANGED <<tables, syncs, unsynced, opVars>>

(* Whatever the rule's status.  The nodes of an earlier apply that are not *)
(* among the new ones are not synced.                                      *)
handleDDoSApply(s, r, pops) ==
    /\ flowspec[r].status # "none" /\ pops # {}
    /\ LET left == IF flowspec[r].status = "active" THEN flowspec[r].pops \ pops ELSE {}
       IN  /\ persistLocked([flowspec EXCEPT ![r] = [status |-> "active", pops |-> pops, due |-> FALSE]])
           /\ unsynced' = unsynced \cup left
           /\ syncs[s] = NoSync
           /\ syncs' = [Abandoned(left) EXCEPT ![s] = Started("apply", pops)]
    /\ UNCHANGED <<tables, opVars>>

handleDDoSRevoke(s, r) ==
    /\ flowspec[r].status # "none"
    /\ persistLocked([flowspec EXCEPT ![r].status = "revoked"])
    /\ Begin(s, "revoke", flowspec[r].pops)
    /\ UNCHANGED <<tables, unsynced, opVars>>

ruleDue(r) ==
    /\ flowspec[r].status = "active" /\ ~flowspec[r].due
    /\ flowspec' = [flowspec EXCEPT ![r].due = TRUE]
    /\ flowspecSaved' = IF flowspecSaved[r].status = "active"
                        THEN [flowspecSaved EXCEPT ![r].due = TRUE] ELSE flowspecSaved
    /\ UNCHANGED <<tables, syncs, unsynced, opVars>>

Due == {r \in Rules : flowspec[r].status = "active" /\ flowspec[r].due}
Expired(rules) == [r \in Rules |-> IF r \in rules THEN [flowspec[r] EXCEPT !.status = "expired"] ELSE flowspec[r]]

(* A mutant: the rules expire, the routers are not told. *)
MutExpireOnly(s) ==
    /\ Due # {} /\ persistLocked(Expired(Due)) /\ Begin(s, "expire", {})
    /\ UNCHANGED <<tables, unsynced, opVars>>

(* One pass of the expiry loop at a time.                                  *)
expire(s) ==
    /\ Due # {} /\ \A t \in SyncTasks : syncs[t].by # "expire"
    /\ persistLocked(Expired(Due))
    /\ Begin(s, "expire", UNION {flowspec[r].pops : r \in Due})
    /\ UNCHANGED <<tables, unsynced, opVars>>

------------------------------------------------------------------------------
(* syncNode: the table as it is now ...                                    *)
genNftFile(s, p) ==
    /\ syncs[s].pop = {} /\ p \in syncs[s].todo
    /\ LET others == {t \in SyncTasks : syncs[t].pop = {p}}
       IN  syncs' = [t \in SyncTasks |->
              CASE t = s -> [syncs[s] EXCEPT !.todo = @ \ {p}, !.pop = {p},
                                !.table = activeForNodeLocked(p), !.alone = others = {}]
                [] t \in others -> [syncs[t] EXCEPT !.alone = FALSE]
                [] OTHER -> syncs[t]]
    /\ UNCHANGED <<flowspec, flowspecSaved, tables, unsynced, opVars>>

(* ... is loaded, or the node is unknown, out of reach or without nft, or  *)
(* the client went away.  A load may succeed and be taken for a failure.   *)
syncNode(s, p) ==
    /\ syncs[s].pop = {p}
    /\ \E loaded, ok \in BOOLEAN :
         /\ ok => loaded
         /\ tables' = IF loaded THEN [tables EXCEPT ![p] = syncs[s].table] ELSE tables
         /\ unsynced' = IF ok /\ syncs[s].alone THEN unsynced \ {p} ELSE unsynced \cup {p}
         /\ syncs' = [syncs EXCEPT ![s].pop = {}, ![s].table = {}, ![s].alone = TRUE,
                                   ![s].failed = @ \/ ~ok]
    /\ UNCHANGED <<flowspec, flowspecSaved, opVars>>

(* The reply.  Only a request to apply reports what failed.                *)
syncsDone(s) ==
    /\ syncs[s].by # "nobody" /\ syncs[s].todo = {} /\ syncs[s].pop = {}
    /\ syncs' = [syncs EXCEPT ![s] = NoSync]
    /\ IF syncs[s].by = "apply" /\ syncs[s].failed THEN recordOpFailure(ApplyFailed) ELSE noFailure
    /\ UNCHANGED <<flowspec, flowspecSaved, tables, unsynced>>

(* Nodes whose syncs a restart cuts off, and those of rules it takes back. *)
CutOff == UNION {syncs[s].todo \cup syncs[s].pop : s \in SyncTasks}
Undone ==
    UNION {flowspec[r].pops \cup flowspecSaved[r].pops :
             r \in {x \in Rules : flowspec[x] # flowspecSaved[x]}}

MitRestart ==
    /\ flowspec' = flowspecSaved /\ UNCHANGED <<flowspecSaved, tables>>
    /\ syncs' = [s \in SyncTasks |-> NoSync]
    /\ unsynced' = unsynced \cup CutOff \cup Undone
    /\ OpRestart

MitNext ==
    \/ \E r \in Rules : handleDDoSCreate(r) \/ ruleDue(r)
    \/ \E s \in SyncTasks :
         \/ \E r \in Rules : handleDDoSRevoke(s, r) \/ \E pops \in SUBSET Pops : handleDDoSApply(s, r, pops)
         \/ expire(s)
         \/ \E p \in Pops : genNftFile(s, p) \/ syncNode(s, p)
         \/ syncsDone(s)
    \/ MitRestart

MitSpec == MitInit /\ OpInit /\ [][MitNext]_<<mitVars, opVars>>

------------------------------------------------------------------------------
(* A node that no sync concerns any more, and that missed none, drops what *)
(* the active rules say it drops: an expired or revoked rule is lifted.    *)
Concerned(p) == \E s \in SyncTasks : p \in syncs[s].todo \cup syncs[s].pop
TablesFollowRules ==
    \A p \in Pops \ unsynced :
        ~Concerned(p) => /\ tables[p] \subseteq ActiveOn(p)
                         /\ \A r \in ActiveOn(p) \ tables[p] : flowspec[r].due

==============================================================================
