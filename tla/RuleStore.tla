------------------------------ MODULE RuleStore ------------------------------
(***************************************************************************)
(* The alert rules and groups an administrator edits (backend/             *)
(* alertrules.go, alertrules_api.go).  A request changes the store under   *)
(* its lock and saves it; if the save succeeded the engine then compiles   *)
(* the rules: it takes a snapshot of the store under the store's lock and  *)
(* swaps it in under its own, later.                                       *)
(*                                                                         *)
(* A rule and a group are their last edit, a number.  What the next start  *)
(* loads is ruleDoc (ConfigDoc says why that is the file).                 *)
(***************************************************************************)
EXTENDS Naturals

CONSTANTS
    RuleIds, GroupIds,
    Builtins,               \* the rules seedAlertRules makes
    AllNodes,               \* allNodesGroupID
    Reloads,                \* bound: requests answered after their reload
    MaxEdit                 \* bound: edits of one rule or group

ASSUME RuleStoreAssumption ==
    /\ AllNodes \in GroupIds /\ Builtins \subseteq RuleIds
    /\ MaxEdit \in Nat \ {0}

VARIABLES
    rules, groups,          \* alertRuleStore
    ruleDoc,                \* alert_rules.json or its row
    compiled,               \* alertEngine.rules, by id
    reloads,                \* what each request has still to load
    unloaded                \* history: the store and the engine may differ: a
                            \* save failed, or two reloads were under way

ruleVars == <<rules, groups, ruleDoc, compiled, reloads, unloaded>>

NoRuleDef == [group |-> AllNodes, edit |-> 0]
NoGroup == 0
Empty == [rules |-> [r \in RuleIds |-> NoRuleDef], groups |-> [g \in GroupIds |-> NoGroup]]
Snapshot == [rules |-> rules, groups |-> groups]
Stored ==
    [rules : [RuleIds -> [group : GroupIds, edit : 0 .. MaxEdit]],
     groups : [GroupIds -> 0 .. MaxEdit]]
Idle == [at |-> "idle", store |-> Empty]

RuleStoreTypeOK ==
    /\ Snapshot \in Stored /\ ruleDoc \in Stored
    /\ compiled \in [RuleIds -> [rule : Nat, group : Nat]]
    /\ reloads \in [Reloads -> [at : {"idle", "saved", "read"}, store : Stored]]
    /\ unloaded \in BOOLEAN

(* A rule whose group is unknown is not compiled.                          *)
Compile(s) ==
    [r \in RuleIds |->
        IF s.rules[r].edit = 0 \/ s.groups[s.rules[r].group] = NoGroup
        THEN [rule |-> 0, group |-> 0]
        ELSE [rule |-> s.rules[r].edit, group |-> s.groups[s.rules[r].group]]]

(* seedAlertRules: every rule is the default group's.                      *)
seedAlertRules ==
    [rules |-> [r \in RuleIds |-> IF r \in Builtins THEN [group |-> AllNodes, edit |-> 1] ELSE NoRuleDef],
     groups |-> [g \in GroupIds |-> IF g = AllNodes THEN 1 ELSE NoGroup]]

RuleStoreInit ==
    /\ ruleDoc = seedAlertRules /\ rules = ruleDoc.rules /\ groups = ruleDoc.groups
    /\ compiled = Compile(ruleDoc)
    /\ reloads = [t \in Reloads |-> Idle] /\ unloaded = FALSE

Alone(t) == \A u \in Reloads \ {t} : reloads[u] = Idle

(* The change is made; the file takes it, and the reply waits for the      *)
(* reload; or it does not, the change stays in memory only and nobody      *)
(* reloads.                                                                *)
persistRules(t, newRules, newGroups) ==
    /\ reloads[t] = Idle
    /\ rules' = newRules /\ groups' = newGroups
    /\ \/ /\ ruleDoc' = [rules |-> newRules, groups |-> newGroups]
          /\ reloads' = [reloads EXCEPT ![t].at = "saved"]
          /\ unloaded' = (unloaded \/ ~Alone(t))
       \/ ruleDoc' = ruleDoc /\ unloaded' = TRUE /\ UNCHANGED reloads
    /\ UNCHANGED compiled

(* reloadRules: the snapshot, and the swap.  A lone reload brings the two  *)
(* together again.                                                         *)
snapshot(t) ==
    /\ reloads[t].at = "saved"
    /\ reloads' = [reloads EXCEPT ![t] = [at |-> "read", store |-> Snapshot]]
    /\ UNCHANGED <<rules, groups, ruleDoc, compiled, unloaded>>

reloadRules(t) ==
    /\ reloads[t].at = "read"
    /\ compiled' = Compile(reloads[t].store)
    /\ reloads' = [reloads EXCEPT ![t] = Idle]
    /\ unloaded' = IF Alone(t) THEN reloads[t].store # Snapshot ELSE TRUE
    /\ UNCHANGED <<rules, groups, ruleDoc>>

------------------------------------------------------------------------------
Edit(e) == IF e < MaxEdit THEN e + 1 ELSE 1
Known(g) == groups[g] # NoGroup

addRule(t, r, g) ==
    /\ rules[r] = NoRuleDef /\ Known(g)
    /\ persistRules(t, [rules EXCEPT ![r] = [group |-> g, edit |-> 1]], groups)

updateRule(t, r, g) ==
    /\ rules[r] # NoRuleDef /\ Known(g)
    /\ persistRules(t, [rules EXCEPT ![r] = [group |-> g, edit |-> Edit(rules[r].edit)]], groups)

removeRule(t, r) ==
    /\ rules[r] # NoRuleDef /\ r \notin Builtins
    /\ persistRules(t, [rules EXCEPT ![r] = NoRuleDef], groups)

addGroup(t, g) == ~Known(g) /\ persistRules(t, rules, [groups EXCEPT ![g] = 1])

updateGroup(t, g) == Known(g) /\ persistRules(t, rules, [groups EXCEPT ![g] = Edit(groups[g])])

(* A mutant: a group goes with rules still in it. *)
MutRemoveAnyway(t, g) ==
    g # AllNodes /\ Known(g) /\ persistRules(t, rules, [groups EXCEPT ![g] = NoGroup])

removeGroup(t, g) ==
    /\ g # AllNodes /\ Known(g)
    /\ \A r \in RuleIds : rules[r] # NoRuleDef => rules[r].group # g
    /\ persistRules(t, rules, [groups EXCEPT ![g] = NoGroup])

(* newAlertRuleStore: the document, with the default group in any case;    *)
(* the engine compiles it before it evaluates anything.                    *)
newAlertRuleStore ==
    /\ rules' = ruleDoc.rules
    /\ groups' = [ruleDoc.groups EXCEPT ![AllNodes] = IF @ = NoGroup THEN 1 ELSE @]
    /\ ruleDoc' = [rules |-> rules', groups |-> groups']
    /\ compiled' = Compile(ruleDoc')
    /\ reloads' = [t \in Reloads |-> Idle] /\ unloaded' = FALSE

RuleStoreNext ==
    \/ \E t \in Reloads :
         \/ \E r \in RuleIds : removeRule(t, r) \/ \E g \in GroupIds : addRule(t, r, g) \/ updateRule(t, r, g)
         \/ \E g \in GroupIds : addGroup(t, g) \/ updateGroup(t, g) \/ removeGroup(t, g)
         \/ snapshot(t) \/ reloadRules(t)
    \/ newAlertRuleStore

RuleStoreSpec == RuleStoreInit /\ [][RuleStoreNext]_ruleVars

------------------------------------------------------------------------------
(* Once its requests are answered the engine evaluates every rule of the   *)
(* store, as it was last edited and with the group it is in, whatever was  *)
(* moved or removed: unless a save failed or two reloads overlapped, which *)
(* lasts until the next lone edit.                                         *)
EveryRuleIsEvaluated ==
    (~unloaded /\ \A t \in Reloads : reloads[t] = Idle) =>
        \A r \in RuleIds :
            /\ compiled[r].rule = rules[r].edit
            /\ rules[r] # NoRuleDef => compiled[r].group = groups[rules[r].group]
==============================================================================
