---------------------------- MODULE ConsoleProofs ----------------------------
(* What the console takes in, keeps and tells.  For any number of          *)
(* operators, admins, taps and goroutines: a write of an operator who is   *)
(* no admin is executed at most as often as admins approved a card of that *)
(* very call.  For any rules, groups and requests: a rule of the store is  *)
(* in a group of the store, in memory and in the document the next start   *)
(* loads, and the engine evaluates every one of them as soon as its        *)
(* requests are answered.  For any days, pages and saves: no sample, text  *)
(* or interval is lost.  For any alerts, people, plans and prefixes: what  *)
(* is marked as told was told, or is about to be.  For any events and page *)
(* size: a reader of the audit log gets all of it, and none twice.         *)
EXTENDS RuleStore, BotAgent, Console, AuditLog, FiniteSetTheorems, SequenceTheorems,
        FunctionTheorems, WellFoundedInduction, TLAPS

------------------------------------------------------------------------------
(* The agent of the Telegram bot.                                          *)


NotAdmins == AgentKeys \ AgentAdmins

(* Approvals accepted and not yet carried out: each may execute the call   *)
(* once more.                                                              *)
Outstanding(k, c) ==
    {t \in Taps : /\ taps[t].at \in {"started", "copied"}
                  /\ taps[t].key = k /\ taps[t].call = c /\ taps[t].approve = TRUE}

Covered == \A k \in NotAdmins, c \in Calls : ran[<<k, c>>] + Cardinality(Outstanding(k, c)) <= granted[<<k, c>>]

(* A tap at work has its fields, and is an admin's if the operator is none.*)
TapFields == {"at", "key", "call", "who", "approve", "msgs"}
TapAtWork(tap) ==
    /\ DOMAIN tap = TapFields
    /\ tap.approve \in BOOLEAN
    /\ tap.key \notin AgentAdmins => tap.who = "admin"

TapsAreAdmins ==
    /\ DOMAIN taps = Taps /\ taps = [t \in Taps |-> taps[t]]
    /\ \A t \in Taps : taps[t] = Dormant \/ TapAtWork(taps[t])

CardsAreAdmins == \A card \in selfCards : card.key \in AgentAdmins

Counters ==
    ran \in [AgentKeys \X Calls -> Nat] /\ granted \in [AgentKeys \X Calls -> Nat]

AgentInv == Counters /\ CardsAreAdmins /\ TapsAreAdmins /\ Covered

USE BotAgentAssumption

------------------------------------------------------------------------------
LEMMA OutstandingFinite ==
  ASSUME NEW k, NEW c
  PROVE  IsFiniteSet(Outstanding(k, c)) /\ Cardinality(Outstanding(k, c)) \in Nat
<1>1. Outstanding(k, c) \subseteq Taps
  BY DEF Outstanding
<1> QED BY <1>1, FS_Subset, FS_CardinalityType

LEMMA CountType ==
  ASSUME NEW f \in [AgentKeys \X Calls -> Nat], NEW x, NEW b \in BOOLEAN
  PROVE  [f EXCEPT ![x] = IF b THEN @ + 1 ELSE @] \in [AgentKeys \X Calls -> Nat]
<1>1. ASSUME NEW y \in AgentKeys \X Calls PROVE f[y] \in Nat /\ f[y] + 1 \in Nat
  OBVIOUS
<1> QED BY <1>1

LEMMA AgentInitInv == AgentInit => AgentInv
<1> SUFFICES ASSUME AgentInit PROVE AgentInv
  OBVIOUS
<1>1. ASSUME NEW k \in NotAdmins, NEW c \in Calls
      PROVE  ran[<<k, c>>] = 0 /\ granted[<<k, c>>] = 0 /\ Cardinality(Outstanding(k, c)) = 0
  <2>1. Outstanding(k, c) = {}
    BY DEF Outstanding, AgentInit, Dormant
  <2>2. ran[<<k, c>>] = 0 /\ granted[<<k, c>>] = 0
    BY DEF AgentInit, NotAdmins
  <2> QED BY <2>1, <2>2, FS_EmptySet
<1>2. Covered
  <2> SUFFICES ASSUME NEW k \in NotAdmins, NEW c \in Calls
               PROVE  ran[<<k, c>>] + Cardinality(Outstanding(k, c)) <= granted[<<k, c>>]
    BY DEF Covered
  <2> QED BY <1>1
<1> QED BY <1>2 DEF AgentInit, AgentInv, Counters, CardsAreAdmins, TapsAreAdmins

(* A tap that moves on without adding to what is outstanding, while        *)
(* nothing is executed or approved.                                        *)
LEMMA FewerOutstanding ==
  ASSUME AgentInv, UNCHANGED <<ran, granted>>,
         \A k \in NotAdmins, c \in Calls : Outstanding(k, c)' \subseteq Outstanding(k, c)
  PROVE  Covered'
<1> SUFFICES ASSUME NEW k \in NotAdmins, NEW c \in Calls
             PROVE  ran'[<<k, c>>] + Cardinality(Outstanding(k, c)') <= granted'[<<k, c>>]
  BY DEF Covered
<1>1. /\ IsFiniteSet(Outstanding(k, c)) /\ Cardinality(Outstanding(k, c)) \in Nat
      /\ Outstanding(k, c)' \subseteq Outstanding(k, c)
  BY OutstandingFinite
<1>2. /\ Cardinality(Outstanding(k, c)') \in Nat
      /\ Cardinality(Outstanding(k, c)') <= Cardinality(Outstanding(k, c))
  BY <1>1, FS_Subset, FS_CardinalityType
<1>3. ran[<<k, c>>] \in Nat /\ granted[<<k, c>>] \in Nat
  BY DEF AgentInv, Counters, NotAdmins
<1>4. ran[<<k, c>>] + Cardinality(Outstanding(k, c)) <= granted[<<k, c>>]
  BY DEF AgentInv, Covered
<1> QED BY <1>1, <1>2, <1>3, <1>4

(* The result of a step shows a self-approval card to admins only.         *)
LEMMA RenderKeepsCards ==
  ASSUME CardsAreAdmins, NEW k, NEW res, agentRenderSession(k, res)
  PROVE  CardsAreAdmins'
  BY DEF CardsAreAdmins, agentRenderSession

(* Steps that leave the taps alone.                                        *)
LEMMA StepKeepsInv ==
  ASSUME AgentInv, NEW s \in Steps,
         (\E k \in AgentKeys : replyAgent(k, s)) \/ agentStepReads(s) \/ agentStep(s)
  PROVE  AgentInv'
<1>1. UNCHANGED <<taps, ran, granted>>
  BY DEF replyAgent, agentStepReads, agentStep
<1>2. CardsAreAdmins'
  <2>1. CASE UNCHANGED selfCards
    BY <2>1 DEF AgentInv, CardsAreAdmins
  <2>2. CASE \E k, res : agentRenderSession(k, res)
    BY <2>2, RenderKeepsCards DEF AgentInv
  <2> QED BY <2>1, <2>2 DEF replyAgent, agentStepReads, agentStep, finish
<1> QED BY <1>1, <1>2 DEF AgentInv, Counters, TapsAreAdmins, Covered, Outstanding

------------------------------------------------------------------------------
(* An accepted tap: one more approval granted, one more outstanding.       *)
LEMMA StartKeepsInv ==
  ASSUME AgentInv, NEW t \in Taps, NEW key, NEW call, NEW who, NEW approve \in BOOLEAN,
         startTap(t, key, call, who, approve), key \notin AgentAdmins => who = "admin",
         UNCHANGED <<ran, selfCards>>
  PROVE  AgentInv'
<1> DEFINE tap == [at |-> "started", key |-> key, call |-> call, who |-> who,
                   approve |-> approve, msgs |-> NewTask]
<1>1. taps' = [taps EXCEPT ![t] = tap] /\ taps[t] = Dormant
  BY DEF startTap
<1>2. TapAtWork(tap)
  BY DEF TapAtWork, TapFields
<1>3. TapsAreAdmins'
  BY <1>1, <1>2 DEF AgentInv, TapsAreAdmins
<1>4. granted' = [granted EXCEPT ![<<key, call>>] = IF approve THEN @ + 1 ELSE @]
  BY DEF startTap
<1>5. Counters'
  BY <1>4, CountType DEF AgentInv, Counters
<1>6. ASSUME NEW k \in NotAdmins, NEW c \in Calls
      PROVE  ran'[<<k, c>>] + Cardinality(Outstanding(k, c)') <= granted'[<<k, c>>]
  <2>1. /\ ran[<<k, c>>] \in Nat /\ granted[<<k, c>>] \in Nat
        /\ ran[<<k, c>>] + Cardinality(Outstanding(k, c)) <= granted[<<k, c>>]
        /\ Cardinality(Outstanding(k, c)) \in Nat /\ IsFiniteSet(Outstanding(k, c))
    BY OutstandingFinite DEF AgentInv, Counters, Covered, NotAdmins
  <2>2. CASE key = k /\ call = c /\ approve
    <3>1. Outstanding(k, c)' = Outstanding(k, c) \cup {t}
      BY <1>1, <2>2 DEF Outstanding, AgentInv, TapsAreAdmins
    <3>2. Cardinality(Outstanding(k, c)') \in {Cardinality(Outstanding(k, c)),
                                               Cardinality(Outstanding(k, c)) + 1}
      BY <2>1, <3>1, FS_AddElement
    <3>3. granted'[<<k, c>>] = granted[<<k, c>>] + 1
      BY <1>4, <2>2 DEF AgentInv, Counters, NotAdmins
    <3> QED BY <2>1, <3>2, <3>3
  <2>3. CASE ~(key = k /\ call = c /\ approve)
    <3>1. Outstanding(k, c)' = Outstanding(k, c)
      BY <1>1, <2>3 DEF Outstanding, AgentInv, TapsAreAdmins, Dormant
    <3>2. granted'[<<k, c>>] = granted[<<k, c>>]
      BY <1>4, <2>3 DEF AgentInv, Counters, NotAdmins
    <3> QED BY <2>1, <3>1, <3>2
  <2> QED BY <2>2, <2>3
<1>7. CardsAreAdmins'
  BY DEF AgentInv, CardsAreAdmins
<1> QED BY <1>3, <1>5, <1>6, <1>7 DEF AgentInv, Covered

LEMMA TapKeepsInv ==
  ASSUME AgentInv, NEW t \in Taps, NEW approve \in BOOLEAN,
         \/ \E card \in selfCards : handleSelfApproval(t, card, approve)
         \/ \E appr \in adminApprovals : handleAdminApproval(t, appr, approve)
  PROVE  AgentInv'
<1>1. CASE \E card \in selfCards : handleSelfApproval(t, card, approve)
  <2>1. PICK card \in selfCards : handleSelfApproval(t, card, approve)
    BY <1>1
  <2>2. card.key \in AgentAdmins
    BY DEF AgentInv, CardsAreAdmins
  <2> QED BY <2>1, <2>2, StartKeepsInv DEF handleSelfApproval
<1>2. CASE \E appr \in adminApprovals : handleAdminApproval(t, appr, approve)
  BY <1>2, StartKeepsInv DEF handleAdminApproval
<1> QED BY <1>1, <1>2

------------------------------------------------------------------------------
(* A tap that only ends.                                                   *)
LEMMA AgentEndKeepsInv ==
  ASSUME AgentInv, NEW t \in Taps, taps' = [taps EXCEPT ![t] = Dormant],
         UNCHANGED <<ran, granted>>, CardsAreAdmins'
  PROVE  AgentInv'
<1>1. TapsAreAdmins'
  BY DEF AgentInv, TapsAreAdmins
<1>2. \A k \in NotAdmins, c \in Calls : Outstanding(k, c)' \subseteq Outstanding(k, c)
  BY DEF AgentInv, TapsAreAdmins, Outstanding, Dormant
<1>3. Covered'
  BY <1>2, FewerOutstanding
<1> QED BY <1>1, <1>3 DEF AgentInv, Counters

(* The goroutine takes the messages; an admin's tap keeps its own call.    *)
LEMMA ReadKeepsInv ==
  ASSUME AgentInv, NEW t \in Taps, tapReads(t)
  PROVE  AgentInv'
<1>1. CardsAreAdmins' /\ UNCHANGED <<ran, granted>>
  BY DEF tapReads, AgentInv, CardsAreAdmins
<1>2. CASE taps' = [taps EXCEPT ![t] = Dormant]
  BY <1>1, <1>2, AgentEndKeepsInv
<1>3. ASSUME NEW msgs,
             taps' = [taps EXCEPT ![t].at = "copied", ![t].call = CallOf(t), ![t].msgs = msgs]
      PROVE  AgentInv'
  <2>1. taps[t].at = "started" /\ TapAtWork(taps[t])
    BY DEF tapReads, AgentInv, TapsAreAdmins, Dormant
  <2>2. /\ taps'[t].at = "copied" /\ taps'[t].call = CallOf(t)
        /\ taps'[t].key = taps[t].key /\ taps'[t].who = taps[t].who
        /\ taps'[t].approve = taps[t].approve /\ DOMAIN taps'[t] = TapFields
        /\ \A u \in Taps \ {t} : taps'[u] = taps[u]
        /\ DOMAIN taps' = Taps /\ taps' = [u \in Taps |-> taps'[u]]
    BY <1>3, <2>1 DEF TapAtWork, TapFields, AgentInv, TapsAreAdmins
  <2>3. TapsAreAdmins'
    BY <2>1, <2>2 DEF TapAtWork, AgentInv, TapsAreAdmins
  <2>4. ASSUME NEW k \in NotAdmins, NEW c \in Calls, NEW u \in Outstanding(k, c)'
        PROVE  u \in Outstanding(k, c)
    <3>1. CASE u = t
      <4>1. taps[t].key = k /\ taps[t].who = "admin"
        BY <2>1, <2>2, <2>4, <3>1 DEF Outstanding, TapAtWork, NotAdmins
      <4>2. taps[t].call = c
        BY <2>2, <2>4, <3>1, <4>1 DEF Outstanding, CallOf
      <4> QED BY <2>1, <2>2, <2>4, <3>1, <4>1, <4>2 DEF Outstanding
    <3>2. CASE u # t
      BY <2>2, <2>4, <3>2 DEF Outstanding
    <3> QED BY <3>1, <3>2
  <2>5. Covered'
    BY <1>1, <2>4, FewerOutstanding
  <2> QED BY <1>1, <2>3, <2>5 DEF AgentInv, Counters
<1> QED BY <1>2, <1>3 DEF tapReads

(* The call is executed: one approval fewer is outstanding.                *)
LEMMA ExecuteKeepsInv ==
  ASSUME AgentInv, NEW t \in Taps, agentExecuteApproved(t)
  PROVE  AgentInv'
<1>1. CardsAreAdmins' /\ UNCHANGED granted
  BY DEF agentExecuteApproved, AgentInv, CardsAreAdmins
<1>2. CASE taps' = [taps EXCEPT ![t] = Dormant] /\ UNCHANGED ran
  BY <1>1, <1>2, AgentEndKeepsInv
<1>3. ASSUME NEW answered,
             taps' = [taps EXCEPT ![t].at = "executed", ![t].msgs.answered = answered],
             ran' = [ran EXCEPT ![<<taps[t].key, taps[t].call>>] = IF taps[t].approve THEN @ + 1 ELSE @]
      PROVE  AgentInv'
  <2>1. taps[t].at = "copied" /\ TapAtWork(taps[t])
    BY DEF agentExecuteApproved, AgentInv, TapsAreAdmins, Dormant
  <2>2. /\ taps'[t].at = "executed"
        /\ taps'[t].key = taps[t].key /\ taps'[t].who = taps[t].who
        /\ taps'[t].approve = taps[t].approve /\ DOMAIN taps'[t] = TapFields
        /\ \A u \in Taps \ {t} : taps'[u] = taps[u]
        /\ DOMAIN taps' = Taps /\ taps' = [u \in Taps |-> taps'[u]]
    BY <1>3, <2>1 DEF TapAtWork, TapFields, AgentInv, TapsAreAdmins
  <2>3. TapsAreAdmins'
    BY <2>1, <2>2 DEF TapAtWork, AgentInv, TapsAreAdmins
  <2>4. Counters'
    BY <1>1, <1>3, <2>1, CountType DEF AgentInv, Counters, TapAtWork
  <2>5. ASSUME NEW k \in NotAdmins, NEW c \in Calls
        PROVE  ran'[<<k, c>>] + Cardinality(Outstanding(k, c)') <= granted'[<<k, c>>]
    <3>1. /\ ran[<<k, c>>] \in Nat /\ granted[<<k, c>>] \in Nat
          /\ ran[<<k, c>>] + Cardinality(Outstanding(k, c)) <= granted[<<k, c>>]
          /\ Cardinality(Outstanding(k, c)) \in Nat /\ IsFiniteSet(Outstanding(k, c))
      BY OutstandingFinite DEF AgentInv, Counters, Covered, NotAdmins
    <3>2. Outstanding(k, c)' = Outstanding(k, c) \ {t}
      BY <2>2 DEF Outstanding
    <3>3. /\ t \in Outstanding(k, c) => Cardinality(Outstanding(k, c)') = Cardinality(Outstanding(k, c)) - 1
          /\ t \notin Outstanding(k, c) => Cardinality(Outstanding(k, c)') = Cardinality(Outstanding(k, c))
      BY <3>1, <3>2, FS_RemoveElement
    <3>4. CASE t \in Outstanding(k, c)
      <4>1. ran'[<<k, c>>] = ran[<<k, c>>] + 1
        BY <1>3, <3>4 DEF Outstanding, AgentInv, Counters, NotAdmins
      <4> QED BY <1>1, <3>1, <3>3, <3>4, <4>1
    <3>5. CASE t \notin Outstanding(k, c)
      <4>1. ~(taps[t].key = k /\ taps[t].call = c /\ taps[t].approve)
        BY <2>1, <3>5 DEF Outstanding, TapAtWork
      <4>2. ran'[<<k, c>>] = ran[<<k, c>>]
        BY <1>3, <4>1 DEF AgentInv, Counters, NotAdmins
      <4> QED BY <1>1, <3>1, <3>3, <3>5, <4>2
    <3> QED BY <3>4, <3>5
  <2> QED BY <1>1, <2>3, <2>4, <2>5 DEF AgentInv, Covered
<1> QED BY <1>2, <1>3 DEF agentExecuteApproved

LEMMA TapEndKeepsInv ==
  ASSUME AgentInv, NEW t \in Taps, tapEnds(t)
  PROVE  AgentInv'
<1>1. CardsAreAdmins'
  <2>1. CASE UNCHANGED selfCards
    BY <2>1 DEF AgentInv, CardsAreAdmins
  <2>2. CASE \E k, res : agentRenderSession(k, res)
    BY <2>2, RenderKeepsCards DEF AgentInv
  <2> QED BY <2>1, <2>2 DEF tapEnds, finish
<1> QED BY <1>1, AgentEndKeepsInv DEF tapEnds

LEMMA AgentRestartKeepsInv == AgentInv /\ AgentRestart => AgentInv'
<1> SUFFICES ASSUME AgentInv, AgentRestart PROVE AgentInv'
  OBVIOUS
<1>1. TapsAreAdmins' /\ Counters' /\ CardsAreAdmins'
  BY DEF AgentRestart, AgentInv, TapsAreAdmins, Counters, CardsAreAdmins
<1>2. \A k \in NotAdmins, c \in Calls : Outstanding(k, c)' \subseteq Outstanding(k, c)
  BY DEF AgentRestart, Outstanding, Dormant
<1>3. Covered'
  BY <1>2, FewerOutstanding DEF AgentRestart
<1> QED BY <1>1, <1>3 DEF AgentInv

LEMMA AgentStepInv == AgentInv /\ [AgentNext]_agentVars => AgentInv'
<1> SUFFICES ASSUME AgentInv, [AgentNext]_agentVars PROVE AgentInv'
  OBVIOUS
<1>1. CASE AgentEvents
  BY <1>1, StepKeepsInv, TapKeepsInv, AgentRestartKeepsInv DEF AgentEvents
<1>2. CASE AgentWork
  BY <1>2, StepKeepsInv, ReadKeepsInv, ExecuteKeepsInv, TapEndKeepsInv DEF AgentWork
<1>3. CASE UNCHANGED agentVars
  BY <1>3 DEF agentVars, AgentInv, Counters, CardsAreAdmins, TapsAreAdmins, Covered, Outstanding
<1> QED BY <1>1, <1>2, <1>3 DEF AgentNext

(* However the taps of several admins, a new /agent, restarts and the      *)
(* model's next turn are interleaved, nobody's write runs more often than  *)
(* admins approved it.                                                     *)
THEOREM WritesNeedAdmins == AgentSpec => []AdminsApproveWrites
<1>1. AgentInv => AdminsApproveWrites
  <2> SUFFICES ASSUME AgentInv, NEW k \in NotAdmins, NEW c \in Calls
               PROVE  ran[<<k, c>>] <= granted[<<k, c>>]
    BY DEF AdminsApproveWrites, ExecutedAsApproved, NotAdmins
  <2>1. ran[<<k, c>>] \in Nat /\ granted[<<k, c>>] \in Nat /\ Cardinality(Outstanding(k, c)) \in Nat
    BY OutstandingFinite DEF AgentInv, Counters, NotAdmins
  <2> QED BY <2>1 DEF AgentInv, Covered
<1> QED BY <1>1, AgentInitInv, AgentStepInv, PTL DEF AgentSpec

HIDE BotAgentAssumption

------------------------------------------------------------------------------
(* The alert rules' store.                                                 *)


(* A rule is in a group that exists, and no rule is the one record no      *)
(* rule.                                                                   *)
WellGrouped(s) ==
    \A r \in RuleIds :
        /\ s.rules[r].edit = 0 => s.rules[r] = NoRuleDef
        /\ s.rules[r].edit # 0 => s.groups[s.rules[r].group] # NoGroup

(* Where nothing is under way and nothing went wrong, the engine has what  *)
(* the store has.                                                          *)
RulesAreLoaded ==
    (~unloaded /\ \A t \in Reloads : reloads[t] = Idle) => compiled = Compile(Snapshot)

RuleStoreInv ==
    /\ RuleStoreTypeOK
    /\ WellGrouped(Snapshot) /\ WellGrouped(ruleDoc)
    /\ RulesAreLoaded

USE RuleStoreAssumption DEF NoGroup

------------------------------------------------------------------------------
LEMMA EmptyStored == Empty \in Stored /\ Idle \in [at : {"idle", "saved", "read"}, store : Stored]
  BY DEF Empty, Stored, Idle, NoRuleDef

LEMMA SeedStored == seedAlertRules \in Stored /\ WellGrouped(seedAlertRules)
  BY DEF seedAlertRules, Stored, WellGrouped, NoRuleDef

LEMMA CompileType == ASSUME NEW s \in Stored
                     PROVE  Compile(s) \in [RuleIds -> [rule : Nat, group : Nat]]
  BY DEF Compile, Stored

LEMMA EditType == ASSUME NEW e \in 0 .. MaxEdit PROVE Edit(e) \in 1 .. MaxEdit
  BY DEF Edit

(* What a request makes of the store keeps every rule in a known group.    *)
LEMMA SaveStep ==
  ASSUME RuleStoreInv, NEW t \in Reloads, NEW newRules, NEW newGroups,
         [rules |-> newRules, groups |-> newGroups] \in Stored,
         WellGrouped([rules |-> newRules, groups |-> newGroups]),
         persistRules(t, newRules, newGroups)
  PROVE  RuleStoreInv'
<1>1. Snapshot' \in Stored /\ WellGrouped(Snapshot')
  BY DEF persistRules, Snapshot
<1>2. ruleDoc' \in Stored /\ WellGrouped(ruleDoc')
  BY DEF persistRules, RuleStoreInv, RuleStoreTypeOK
<1>3. reloads' \in [Reloads -> [at : {"idle", "saved", "read"}, store : Stored]]
  <2>1. reloads \in [Reloads -> [at : {"idle", "saved", "read"}, store : Stored]]
    BY DEF RuleStoreInv, RuleStoreTypeOK
  <2>2. reloads' = reloads \/ reloads' = [reloads EXCEPT ![t].at = "saved"]
    BY DEF persistRules
  <2> QED BY <2>1, <2>2
<1>4. unloaded' \in BOOLEAN
  BY DEF persistRules, RuleStoreInv, RuleStoreTypeOK
<1>5. compiled' \in [RuleIds -> [rule : Nat, group : Nat]]
  BY DEF persistRules, RuleStoreInv, RuleStoreTypeOK
<1>6. unloaded' \/ reloads'[t] # Idle
  <2>1. CASE reloads' = [reloads EXCEPT ![t].at = "saved"]
    BY <2>1 DEF RuleStoreInv, RuleStoreTypeOK, Idle
  <2>2. CASE unloaded' = TRUE
    BY <2>2
  <2> QED BY <2>1, <2>2 DEF persistRules
<1>7. RulesAreLoaded'
  BY <1>4, <1>6 DEF RulesAreLoaded
<1> QED BY <1>1, <1>2, <1>3, <1>4, <1>5, <1>7 DEF RuleStoreInv, RuleStoreTypeOK

LEMMA RuleStoreInitInv == RuleStoreInit => RuleStoreInv
<1> SUFFICES ASSUME RuleStoreInit PROVE RuleStoreInv
  OBVIOUS
<1>1. Snapshot = seedAlertRules
  BY DEF RuleStoreInit, Snapshot, seedAlertRules
<1>2. RuleStoreTypeOK
  BY <1>1, SeedStored, EmptyStored, CompileType DEF RuleStoreInit, RuleStoreTypeOK
<1> QED BY <1>1, <1>2, SeedStored DEF RuleStoreInit, RuleStoreInv, RulesAreLoaded

------------------------------------------------------------------------------
LEMMA AddRuleStep ==
  ASSUME RuleStoreInv, NEW t \in Reloads, NEW r \in RuleIds, NEW g \in GroupIds, addRule(t, r, g)
  PROVE  RuleStoreInv'
<1> DEFINE new == [rules EXCEPT ![r] = [group |-> g, edit |-> 1]]
<1>1. [rules |-> new, groups |-> groups] \in Stored
  BY DEF RuleStoreInv, RuleStoreTypeOK, Snapshot, Stored
<1>2. WellGrouped([rules |-> new, groups |-> groups])
  BY DEF RuleStoreInv, RuleStoreTypeOK, Snapshot, Stored, WellGrouped, addRule, Known
<1> QED BY <1>1, <1>2, SaveStep DEF addRule

LEMMA UpdateRuleStep ==
  ASSUME RuleStoreInv, NEW t \in Reloads, NEW r \in RuleIds, NEW g \in GroupIds, updateRule(t, r, g)
  PROVE  RuleStoreInv'
<1> DEFINE new == [rules EXCEPT ![r] = [group |-> g, edit |-> Edit(rules[r].edit)]]
<1>0. Edit(rules[r].edit) \in 1 .. MaxEdit
  BY EditType DEF RuleStoreInv, RuleStoreTypeOK, Snapshot, Stored
<1>1. [rules |-> new, groups |-> groups] \in Stored
  BY <1>0 DEF RuleStoreInv, RuleStoreTypeOK, Snapshot, Stored
<1>2. WellGrouped([rules |-> new, groups |-> groups])
  BY <1>0 DEF RuleStoreInv, RuleStoreTypeOK, Snapshot, Stored, WellGrouped, updateRule, Known
<1> QED BY <1>1, <1>2, SaveStep DEF updateRule

LEMMA RemoveRuleStep ==
  ASSUME RuleStoreInv, NEW t \in Reloads, NEW r \in RuleIds, removeRule(t, r)
  PROVE  RuleStoreInv'
<1> DEFINE new == [rules EXCEPT ![r] = NoRuleDef]
<1>1. [rules |-> new, groups |-> groups] \in Stored
  BY DEF RuleStoreInv, RuleStoreTypeOK, Snapshot, Stored, NoRuleDef
<1>2. WellGrouped([rules |-> new, groups |-> groups])
  BY DEF RuleStoreInv, RuleStoreTypeOK, Snapshot, Stored, WellGrouped, NoRuleDef
<1> QED BY <1>1, <1>2, SaveStep DEF removeRule

(* A group that is added or edited exists afterwards.                      *)
LEMMA GroupStep ==
  ASSUME RuleStoreInv, NEW t \in Reloads, NEW g \in GroupIds, addGroup(t, g) \/ updateGroup(t, g)
  PROVE  RuleStoreInv'
<1>1. PICK e \in 1 .. MaxEdit : persistRules(t, rules, [groups EXCEPT ![g] = e])
  <2>1. Edit(groups[g]) \in 1 .. MaxEdit /\ 1 \in 1 .. MaxEdit
    BY EditType DEF RuleStoreInv, RuleStoreTypeOK, Snapshot, Stored
  <2> QED BY <2>1 DEF addGroup, updateGroup
<1> DEFINE new == [groups EXCEPT ![g] = e]
<1>2. [rules |-> rules, groups |-> new] \in Stored
  BY DEF RuleStoreInv, RuleStoreTypeOK, Snapshot, Stored
<1>3. WellGrouped([rules |-> rules, groups |-> new])
  <2> SUFFICES ASSUME NEW r \in RuleIds
               PROVE  /\ rules[r].edit = 0 => rules[r] = NoRuleDef
                      /\ rules[r].edit # 0 => new[rules[r].group] # NoGroup
    BY DEF WellGrouped
  <2>1. /\ rules[r].edit = 0 => rules[r] = NoRuleDef
        /\ rules[r].edit # 0 => groups[rules[r].group] # NoGroup
    BY DEF RuleStoreInv, Snapshot, WellGrouped
  <2>2. rules[r].group \in GroupIds /\ groups \in [GroupIds -> 0 .. MaxEdit]
    BY DEF RuleStoreInv, RuleStoreTypeOK, Snapshot, Stored
  <2> QED BY <2>1, <2>2
<1> QED BY <1>1, <1>2, <1>3, SaveStep

LEMMA RemoveGroupStep ==
  ASSUME RuleStoreInv, NEW t \in Reloads, NEW g \in GroupIds, removeGroup(t, g)
  PROVE  RuleStoreInv'
<1> DEFINE new == [groups EXCEPT ![g] = NoGroup]
<1>1. [rules |-> rules, groups |-> new] \in Stored
  BY DEF RuleStoreInv, RuleStoreTypeOK, Snapshot, Stored
<1>2. WellGrouped([rules |-> rules, groups |-> new])
  <2> SUFFICES ASSUME NEW r \in RuleIds
               PROVE  /\ rules[r].edit = 0 => rules[r] = NoRuleDef
                      /\ rules[r].edit # 0 => new[rules[r].group] # NoGroup
    BY DEF WellGrouped
  <2>1. /\ rules[r].edit = 0 => rules[r] = NoRuleDef
        /\ rules[r].edit # 0 => groups[rules[r].group] # NoGroup
    BY DEF RuleStoreInv, Snapshot, WellGrouped
  <2>2. rules[r].group \in GroupIds /\ groups \in [GroupIds -> 0 .. MaxEdit]
    BY DEF RuleStoreInv, RuleStoreTypeOK, Snapshot, Stored
  <2>3. rules[r].edit # 0 => rules[r].group # g
    BY DEF removeGroup, NoRuleDef
  <2> QED BY <2>1, <2>2, <2>3
<1> QED BY <1>1, <1>2, SaveStep DEF removeGroup

LEMMA ReloadStep ==
  ASSUME RuleStoreInv, NEW t \in Reloads, snapshot(t) \/ reloadRules(t)
  PROVE  RuleStoreInv'
<1>1. Snapshot' = Snapshot /\ ruleDoc' = ruleDoc
  BY DEF snapshot, reloadRules, Snapshot
<1>2. reloads' \in [Reloads -> [at : {"idle", "saved", "read"}, store : Stored]]
  <2>1. Snapshot \in Stored /\ reloads \in [Reloads -> [at : {"idle", "saved", "read"}, store : Stored]]
    BY DEF RuleStoreInv, RuleStoreTypeOK
  <2>2. \E new \in [at : {"idle", "saved", "read"}, store : Stored] : reloads' = [reloads EXCEPT ![t] = new]
    BY <2>1, EmptyStored DEF snapshot, reloadRules
  <2> QED BY <2>1, <2>2
<1>3. CASE snapshot(t)
  <2>1. reloads'[t] # Idle
    BY <1>3 DEF snapshot, RuleStoreInv, RuleStoreTypeOK, Idle
  <2>2. RulesAreLoaded'
    BY <2>1 DEF RulesAreLoaded
  <2> QED BY <1>1, <1>2, <1>3, <2>2 DEF snapshot, RuleStoreInv, RuleStoreTypeOK
<1>4. CASE reloadRules(t)
  <2>1. reloads[t].store \in Stored
    BY DEF RuleStoreInv, RuleStoreTypeOK
  <2>2. compiled' \in [RuleIds -> [rule : Nat, group : Nat]]
    BY <1>4, <2>1, CompileType DEF reloadRules
  <2>3. unloaded' \in BOOLEAN
    BY <1>4 DEF reloadRules
  <2>4. ~unloaded' => compiled' = Compile(Snapshot')
    BY <1>1, <1>4 DEF reloadRules
  <2> QED BY <1>1, <1>2, <2>2, <2>3, <2>4 DEF RuleStoreInv, RuleStoreTypeOK, RulesAreLoaded
<1> QED BY <1>3, <1>4

LEMMA StartStep == ASSUME RuleStoreInv, newAlertRuleStore PROVE RuleStoreInv'
<1>1. Snapshot' = ruleDoc'
  BY DEF newAlertRuleStore, Snapshot
<1>2. ruleDoc' \in Stored
  BY DEF newAlertRuleStore, RuleStoreInv, RuleStoreTypeOK, Stored
<1>3. WellGrouped(ruleDoc')
  BY DEF newAlertRuleStore, RuleStoreInv, RuleStoreTypeOK, Stored, WellGrouped
<1>4. compiled' = Compile(Snapshot') /\ compiled' \in [RuleIds -> [rule : Nat, group : Nat]]
  BY <1>1, <1>2, CompileType DEF newAlertRuleStore
<1>5. reloads' \in [Reloads -> [at : {"idle", "saved", "read"}, store : Stored]] /\ unloaded' \in BOOLEAN
  BY EmptyStored DEF newAlertRuleStore
<1> QED BY <1>1, <1>2, <1>3, <1>4, <1>5 DEF RuleStoreInv, RuleStoreTypeOK, RulesAreLoaded

LEMMA RuleStoreStepInv == RuleStoreInv /\ [RuleStoreNext]_ruleVars => RuleStoreInv'
<1> SUFFICES ASSUME RuleStoreInv, [RuleStoreNext]_ruleVars PROVE RuleStoreInv'
  OBVIOUS
<1>1. CASE newAlertRuleStore
  BY <1>1, StartStep
<1>2. ASSUME NEW t \in Reloads, NEW r \in RuleIds, removeRule(t, r) PROVE RuleStoreInv'
  BY <1>2, RemoveRuleStep
<1>3. ASSUME NEW t \in Reloads, NEW r \in RuleIds, NEW g \in GroupIds, addRule(t, r, g) PROVE RuleStoreInv'
  BY <1>3, AddRuleStep
<1>4. ASSUME NEW t \in Reloads, NEW r \in RuleIds, NEW g \in GroupIds, updateRule(t, r, g) PROVE RuleStoreInv'
  BY <1>4, UpdateRuleStep
<1>5. ASSUME NEW t \in Reloads, NEW g \in GroupIds, addGroup(t, g) \/ updateGroup(t, g) PROVE RuleStoreInv'
  BY <1>5, GroupStep
<1>6. ASSUME NEW t \in Reloads, NEW g \in GroupIds, removeGroup(t, g) PROVE RuleStoreInv'
  BY <1>6, RemoveGroupStep
<1>7. ASSUME NEW t \in Reloads, snapshot(t) \/ reloadRules(t) PROVE RuleStoreInv'
  BY <1>7, ReloadStep
<1>8. CASE UNCHANGED ruleVars
  BY <1>8 DEF ruleVars, RuleStoreInv, RuleStoreTypeOK, RulesAreLoaded, Snapshot
<1> QED BY <1>1, <1>2, <1>3, <1>4, <1>5, <1>6, <1>7, <1>8 DEF RuleStoreNext

------------------------------------------------------------------------------
(* What the store, its document, the engine and the requests hold.         *)
THEOREM RuleStoreTypeCorrect == RuleStoreSpec => []RuleStoreTypeOK
<1>1. RuleStoreInv => RuleStoreTypeOK
  BY DEF RuleStoreInv
<1> QED BY RuleStoreInitInv, RuleStoreStepInv, <1>1, PTL DEF RuleStoreSpec

(* The engine evaluates every rule of the store, as last edited, once the  *)
(* requests are answered (alerts.go:324 skips one whose group is unknown). *)
THEOREM RulesAreEvaluated == RuleStoreSpec => []EveryRuleIsEvaluated
<1>1. RuleStoreInv => EveryRuleIsEvaluated
  <2> SUFFICES ASSUME RuleStoreInv, ~unloaded, \A t \in Reloads : reloads[t] = Idle, NEW r \in RuleIds
               PROVE  /\ compiled[r].rule = rules[r].edit
                      /\ rules[r] # NoRuleDef => compiled[r].group = groups[rules[r].group]
    BY DEF EveryRuleIsEvaluated
  <2>1. compiled = Compile(Snapshot)
    BY DEF RuleStoreInv, RulesAreLoaded
  <2>2. WellGrouped(Snapshot)
    BY DEF RuleStoreInv
  <2> QED BY <2>1, <2>2 DEF Compile, Snapshot, WellGrouped
<1> QED BY RuleStoreInitInv, RuleStoreStepInv, <1>1, PTL DEF RuleStoreSpec

HIDE RuleStoreAssumption DEF NoGroup

------------------------------------------------------------------------------
(* Samples and days.  The row of the current day, if its samples do not    *)
(* count yet, is empty; what comes after the day is still to be measured.  *)
CapIsWhole ==
    /\ capRows = [d \in Days |-> capRows[d]] /\ capAcc.samples \in Nat /\ capDay \in 1 .. today
    /\ \A d \in Days : Recent(d) /\ <<"cap", d>> \notin cut =>
        /\ d < capDay => capRows[d].samples = taken["cap"][d]
        /\ d = capDay => capAcc.samples = taken["cap"][d] /\ (capAcc.samples = 0 => capRows[d].samples = 0)
        /\ d > capDay => capRows[d].samples = 0 /\ taken["cap"][d] = 0
SlaIsWhole ==
    /\ slaRows = [d \in Days |-> slaRows[d]] /\ slaAcc.samples \in Nat /\ slaDay \in 1 .. today
    /\ \A d \in Days : Recent(d) /\ <<"sla", d>> \notin cut =>
        /\ d < slaDay => slaRows[d].samples = taken["sla"][d]
        /\ d = slaDay => slaAcc.samples = taken["sla"][d] /\ (slaAcc.samples = 0 => slaRows[d].samples = 0)
        /\ d > slaDay => slaRows[d].samples = 0 /\ taken["sla"][d] = 0
HeartbeatsAreWhole ==
    /\ hbDays \in [Days -> [up : Nat, down : Nat]] /\ hbSaved \in [Days -> [up : Nat, down : Nat]]
    /\ \A d \in Days : Recent(d) /\ <<"hb", d>> \notin cut => hbDays[d].up + hbDays[d].down = taken["hb"][d]

DaysInv ==
    /\ today \in Days /\ taken \in [Stores -> [Days -> Nat]]
    /\ CapIsWhole /\ SlaIsWhole /\ HeartbeatsAreWhole

LEMMA DaysInitInv == MeasureInit => DaysInv
<1> SUFFICES ASSUME MeasureInit PROVE DaysInv
  OBVIOUS
<1> USE MeasureAssumption DEF MeasureInit
<1>1. today \in Days /\ taken \in [Stores -> [Days -> Nat]] /\ \A k \in Stores, d \in Days : taken[k][d] = 0
  BY DEF Days
<1>2. CapIsWhole
  BY <1>1 DEF CapIsWhole, NoCapDay, Days, Stores
<1>3. SlaIsWhole
  BY <1>1 DEF SlaIsWhole, NoSlaDay, Days, Stores
<1>4. HeartbeatsAreWhole
  BY <1>1 DEF HeartbeatsAreWhole, Days, Stores
<1> QED BY <1>1, <1>2, <1>3, <1>4 DEF DaysInv

(* A sample counts for its store and for today.                            *)
LEMMA TookCounts ==
  ASSUME DaysInv, NEW k \in Stores, Took(k)
  PROVE  /\ taken' \in [Stores -> [Days -> Nat]] /\ taken'[k][today] = taken[k][today] + 1
         /\ \A j \in Stores, d \in Days : j # k \/ d # today => taken'[j][d] = taken[j][d]
BY DEF DaysInv, Took

(* A store whose variables and samples are left alone, while days pass.    *)
LEMMA CapAlone ==
  ASSUME CapIsWhole, today \in Nat, today' \in Nat, today' >= today, KeepDays \in Nat, cut \subseteq cut',
         UNCHANGED <<capRows, capAcc, capDay>>, \A d \in Days : taken'["cap"][d] = taken["cap"][d]
  PROVE  CapIsWhole'
BY DEF CapIsWhole, Recent, Days

LEMMA SlaAlone ==
  ASSUME SlaIsWhole, today \in Nat, today' \in Nat, today' >= today, KeepDays \in Nat, cut \subseteq cut',
         UNCHANGED <<slaRows, slaAcc, slaDay>>, \A d \in Days : taken'["sla"][d] = taken["sla"][d]
  PROVE  SlaIsWhole'
BY DEF SlaIsWhole, Recent, Days

LEMMA HeartbeatsAlone ==
  ASSUME HeartbeatsAreWhole, today \in Nat, today' \in Nat, today' >= today, KeepDays \in Nat, cut \subseteq cut',
         UNCHANGED hbDays, hbSaved' \in {hbSaved, hbDays}, \A d \in Days : taken'["hb"][d] = taken["hb"][d]
  PROVE  HeartbeatsAreWhole'
BY DEF HeartbeatsAreWhole, Recent, Days

(* The day's samples, made the day's row: nothing else changes.            *)
LEMMA CapFlushed ==
  ASSUME DaysInv
  PROVE  /\ capFlushed = [d \in Days |-> capFlushed[d]]
         /\ \A d \in Days : Recent(d) /\ <<"cap", d>> \notin cut =>
              /\ d <= capDay => capFlushed[d].samples = taken["cap"][d]
              /\ d > capDay => capFlushed[d].samples = 0 /\ taken["cap"][d] = 0
<1>1. capDay \in Days
  BY MeasureAssumption DEF DaysInv, CapIsWhole, Days
<1>2. capRows = [d \in Days |-> capRows[d]] /\ capAcc.samples \in Nat
  BY DEF DaysInv, CapIsWhole
<1>3. /\ capFlushed = [d \in Days |-> capFlushed[d]]
      /\ \A d \in Days : capFlushed[d] = IF d = capDay /\ capAcc.samples # 0 THEN capAcc ELSE capRows[d]
  <2>1. CASE capAcc.samples = 0
    BY <1>2, <2>1 DEF capFlushed
  <2>2. CASE capAcc.samples # 0
    BY <1>1, <1>2, <2>2 DEF capFlushed
  <2> QED BY <2>1, <2>2
<1>4. \A d \in Days : d \in Nat
  BY DEF Days
<1>5. ASSUME NEW d \in Days, Recent(d), <<"cap", d>> \notin cut
      PROVE  /\ d <= capDay => capFlushed[d].samples = taken["cap"][d]
             /\ d > capDay => capFlushed[d].samples = 0 /\ taken["cap"][d] = 0
  <2>1. /\ d < capDay => capRows[d].samples = taken["cap"][d]
        /\ d = capDay => capAcc.samples = taken["cap"][d] /\ (capAcc.samples = 0 => capRows[d].samples = 0)
        /\ d > capDay => capRows[d].samples = 0 /\ taken["cap"][d] = 0
    BY <1>5 DEF DaysInv, CapIsWhole
  <2>2. d \in Nat /\ capDay \in Nat
    BY <1>1, <1>4
  <2>3. CASE d = capDay
    <3>1. capFlushed[d].samples = capAcc.samples
      BY <1>3, <2>1, <2>3
    <3> QED BY <2>1, <2>2, <2>3, <3>1
  <2>4. CASE d # capDay
    <3>1. capFlushed[d] = capRows[d]
      BY <1>3, <2>4
    <3> QED BY <2>1, <2>2, <2>4, <3>1
  <2> QED BY <2>3, <2>4
<1> QED BY <1>3, <1>5

LEMMA SlaFlushed ==
  ASSUME DaysInv
  PROVE  /\ slaFlushed = [d \in Days |-> slaFlushed[d]]
         /\ \A d \in Days : Recent(d) /\ <<"sla", d>> \notin cut =>
              /\ d <= slaDay => slaFlushed[d].samples = taken["sla"][d]
              /\ d > slaDay => slaFlushed[d].samples = 0 /\ taken["sla"][d] = 0
<1>1. slaDay \in Days
  BY MeasureAssumption DEF DaysInv, SlaIsWhole, Days
<1>2. slaRows = [d \in Days |-> slaRows[d]] /\ slaAcc.samples \in Nat
  BY DEF DaysInv, SlaIsWhole
<1>3. /\ slaFlushed = [d \in Days |-> slaFlushed[d]]
      /\ \A d \in Days : slaFlushed[d] = IF d = slaDay /\ slaAcc.samples # 0 THEN slaAcc ELSE slaRows[d]
  <2>1. CASE slaAcc.samples = 0
    BY <1>2, <2>1 DEF slaFlushed
  <2>2. CASE slaAcc.samples # 0
    BY <1>1, <1>2, <2>2 DEF slaFlushed
  <2> QED BY <2>1, <2>2
<1>4. \A d \in Days : d \in Nat
  BY DEF Days
<1>5. ASSUME NEW d \in Days, Recent(d), <<"sla", d>> \notin cut
      PROVE  /\ d <= slaDay => slaFlushed[d].samples = taken["sla"][d]
             /\ d > slaDay => slaFlushed[d].samples = 0 /\ taken["sla"][d] = 0
  <2>1. /\ d < slaDay => slaRows[d].samples = taken["sla"][d]
        /\ d = slaDay => slaAcc.samples = taken["sla"][d] /\ (slaAcc.samples = 0 => slaRows[d].samples = 0)
        /\ d > slaDay => slaRows[d].samples = 0 /\ taken["sla"][d] = 0
    BY <1>5 DEF DaysInv, SlaIsWhole
  <2>2. d \in Nat /\ slaDay \in Nat
    BY <1>1, <1>4
  <2>3. CASE d = slaDay
    <3>1. slaFlushed[d].samples = slaAcc.samples
      BY <1>3, <2>1, <2>3
    <3> QED BY <2>1, <2>2, <2>3, <3>1
  <2>4. CASE d # slaDay
    <3>1. slaFlushed[d] = slaRows[d]
      BY <1>3, <2>4
    <3> QED BY <2>1, <2>2, <2>4, <3>1
  <2> QED BY <2>3, <2>4
<1> QED BY <1>3, <1>5

LEMMA FlushKeepsDays ==
  ASSUME DaysInv, flushTodayCap \/ flushTodaySla
  PROVE  DaysInv'
<1>0. today \in Nat /\ KeepDays \in Nat
  BY MeasureAssumption DEF DaysInv, Days
<1>1. CASE flushTodayCap
  <2>1. /\ capRows' = capFlushed /\ UNCHANGED <<today, capAcc, capDay, taken, cut, hbDays, hbSaved>>
        /\ UNCHANGED <<slaRows, slaAcc, slaDay>>
    BY <1>1 DEF flushTodayCap, slaVars, hbVars
  <2>2. CapIsWhole'
    <3>1. capRows' = [d \in Days |-> capRows'[d]]
      BY <2>1, CapFlushed
    <3>2. capAcc.samples = 0 => capFlushed = capRows
      BY DEF capFlushed
    <3> QED BY <2>1, <3>1, <3>2, CapFlushed DEF DaysInv, CapIsWhole, Recent, Days
  <2> QED BY <1>0, <2>1, <2>2, SlaAlone, HeartbeatsAlone DEF DaysInv
<1>2. CASE flushTodaySla
  <2>1. /\ slaRows' = slaFlushed /\ UNCHANGED <<today, slaAcc, slaDay, taken, cut, hbDays, hbSaved>>
        /\ UNCHANGED <<capRows, capAcc, capDay>>
    BY <1>2 DEF flushTodaySla, capVars, hbVars
  <2>2. SlaIsWhole'
    <3>1. slaRows' = [d \in Days |-> slaRows'[d]]
      BY <2>1, SlaFlushed
    <3>2. slaAcc.samples = 0 => slaFlushed = slaRows
      BY DEF slaFlushed
    <3> QED BY <2>1, <3>1, <3>2, SlaFlushed DEF DaysInv, SlaIsWhole, Recent, Days
  <2> QED BY <1>0, <2>1, <2>2, CapAlone, HeartbeatsAlone DEF DaysInv
<1> QED BY <1>1, <1>2

LEMMA SampleCapKeepsDays ==
  ASSUME DaysInv, NEW load, sampleCap(load)
  PROVE  DaysInv'
<1>0. today \in Nat /\ KeepDays \in Nat /\ today \in Days /\ capDay \in 1 .. today
  BY MeasureAssumption DEF DaysInv, CapIsWhole, Days
<1>1. /\ Took("cap") /\ UNCHANGED <<today, cut, hbDays, hbSaved, slaRows, slaAcc, slaDay>>
  BY DEF sampleCap, slaVars, hbVars
<1>2. /\ taken' \in [Stores -> [Days -> Nat]] /\ taken'["cap"][today] = taken["cap"][today] + 1
      /\ \A d \in Days : /\ d # today => taken'["cap"][d] = taken["cap"][d]
                         /\ taken'["sla"][d] = taken["sla"][d] /\ taken'["hb"][d] = taken["hb"][d]
  BY <1>1, TookCounts DEF Stores
<1>3. SlaIsWhole' /\ HeartbeatsAreWhole'
  BY <1>0, <1>1, <1>2, SlaAlone, HeartbeatsAlone DEF DaysInv
<1>4. CASE today = capDay
  <2>1. capAcc' = capWith(capAcc, load) /\ UNCHANGED <<capRows, capDay>>
    BY <1>4 DEF sampleCap
  <2>2. capAcc'.samples = capAcc.samples + 1
    BY <2>1 DEF capWith
  <2>3. capAcc.samples \in Nat /\ capRows = [d \in Days |-> capRows[d]]
    BY DEF DaysInv, CapIsWhole
  <2>4. \A d \in Days : d \in Nat
    BY DEF Days
  <2>5. ASSUME NEW d \in Days, Recent(d), <<"cap", d>> \notin cut
        PROVE  /\ d < capDay => capRows[d].samples = taken'["cap"][d]
               /\ d = capDay => capAcc'.samples = taken'["cap"][d] /\ (capAcc'.samples = 0 => capRows[d].samples = 0)
               /\ d > capDay => capRows[d].samples = 0 /\ taken'["cap"][d] = 0
    <3>1. /\ d < capDay => capRows[d].samples = taken["cap"][d]
          /\ d = capDay => capAcc.samples = taken["cap"][d]
          /\ d > capDay => capRows[d].samples = 0 /\ taken["cap"][d] = 0
      BY <2>5 DEF DaysInv, CapIsWhole
    <3> QED BY <1>0, <1>2, <1>4, <2>2, <2>3, <2>4, <3>1
  <2>6. CapIsWhole'
    BY <1>0, <1>1, <2>1, <2>2, <2>3, <2>5 DEF CapIsWhole, Recent
  <2> QED BY <1>0, <1>1, <1>2, <1>3, <2>6 DEF DaysInv
<1>5. CASE today # capDay
  <2>1. capRows' = pruneCap(capFlushed) /\ capDay' = today /\ capAcc' = capWith(NoCapDay, load)
    BY <1>5 DEF sampleCap
  <2>2. capAcc'.samples = 1
    BY <2>1 DEF capWith, NoCapDay
  <2>3. capRows' = [d \in Days |-> capRows'[d]] /\ \A d \in Days : Recent(d) => capRows'[d] = capFlushed[d]
    BY <2>1 DEF pruneCap
  <2>4. capDay < today /\ \A d \in Days : d \in Nat
    BY <1>0, <1>5 DEF Days
  <2>5. ASSUME NEW d \in Days, Recent(d), <<"cap", d>> \notin cut
        PROVE  /\ d < today => capRows'[d].samples = taken'["cap"][d]
               /\ d = today => capAcc'.samples = taken'["cap"][d] /\ (capAcc'.samples = 0 => capRows'[d].samples = 0)
               /\ d > today => capRows'[d].samples = 0 /\ taken'["cap"][d] = 0
    <3>1. /\ capRows'[d] = capFlushed[d]
          /\ d <= capDay => capFlushed[d].samples = taken["cap"][d]
          /\ d > capDay => capFlushed[d].samples = 0 /\ taken["cap"][d] = 0
      BY <2>3, <2>5, CapFlushed
    <3>2. CASE d = today
      BY <1>0, <1>2, <2>2, <2>4, <3>1, <3>2
    <3>3. CASE d # today
      BY <1>0, <1>2, <2>4, <3>1, <3>3
    <3> QED BY <3>2, <3>3
  <2>6. capAcc'.samples \in Nat /\ capDay' \in 1 .. today'
    BY <1>0, <1>1, <2>1, <2>2 DEF Days
  <2>7. CapIsWhole'
    BY <1>1, <2>1, <2>3, <2>5, <2>6 DEF CapIsWhole, Recent
  <2> QED BY <1>0, <1>1, <1>2, <1>3, <2>7 DEF DaysInv
<1> QED BY <1>4, <1>5

LEMMA SampleSlaKeepsDays ==
  ASSUME DaysInv, sampleSla
  PROVE  DaysInv'
<1>0. /\ today \in Nat /\ KeepDays \in Nat /\ today \in Days /\ slaDay \in 1 .. today
      /\ taken \in [Stores -> [Days -> Nat]] /\ "sla" \in Stores
  BY MeasureAssumption DEF DaysInv, SlaIsWhole, Days, Stores
<1> DEFINE n == IF probe = "none" THEN 0 ELSE 1
<1>1. UNCHANGED <<today, cut, hbDays, hbSaved, capRows, capAcc, capDay>>
  BY DEF sampleSla, capVars, hbVars
<1>2. /\ taken' \in [Stores -> [Days -> Nat]] /\ taken'["sla"][today] = taken["sla"][today] + n
      /\ \A d \in Days : /\ d # today => taken'["sla"][d] = taken["sla"][d]
                         /\ taken'["cap"][d] = taken["cap"][d] /\ taken'["hb"][d] = taken["hb"][d]
  <2>1. CASE probe = "none"
    BY <1>0, <2>1 DEF sampleSla, Stores
  <2>2. CASE probe # "none"
    BY <2>2, TookCounts DEF sampleSla, Stores
  <2> QED BY <2>1, <2>2
<1>3. CapIsWhole' /\ HeartbeatsAreWhole'
  BY <1>0, <1>1, <1>2, CapAlone, HeartbeatsAlone DEF DaysInv
<1>4. \A a : slaWith(a).samples = IF probe = "none" THEN a.samples ELSE a.samples + 1
  BY DEF slaWith
<1>5. CASE today = slaDay
  <2>1. slaAcc' = slaWith(slaAcc) /\ UNCHANGED <<slaRows, slaDay>>
    BY <1>5 DEF sampleSla
  <2>2. slaAcc'.samples = slaAcc.samples + n
    BY <1>4, <2>1 DEF DaysInv, SlaIsWhole
  <2> QED BY <1>0, <1>1, <1>2, <1>3, <1>5, <2>1, <2>2 DEF DaysInv, SlaIsWhole, Recent, Days
<1>6. CASE today # slaDay
  <2>1. slaRows' = pruneSla(slaFlushed) /\ slaDay' = today /\ slaAcc' = slaWith(NoSlaDay)
    BY <1>6 DEF sampleSla
  <2>2. slaAcc'.samples = n
    BY <1>4, <2>1 DEF NoSlaDay
  <2>3. slaRows' = [d \in Days |-> slaRows'[d]] /\ \A d \in Days : Recent(d) => slaRows'[d] = slaFlushed[d]
    BY <2>1 DEF pruneSla
  <2>4. slaDay < today /\ \A d \in Days : d \in Nat
    BY <1>0, <1>6 DEF Days
  <2>5. ASSUME NEW d \in Days, Recent(d), <<"sla", d>> \notin cut
        PROVE  /\ d < today => slaRows'[d].samples = taken'["sla"][d]
               /\ d = today => slaAcc'.samples = taken'["sla"][d] /\ (slaAcc'.samples = 0 => slaRows'[d].samples = 0)
               /\ d > today => slaRows'[d].samples = 0 /\ taken'["sla"][d] = 0
    <3>1. /\ slaRows'[d] = slaFlushed[d]
          /\ d <= slaDay => slaFlushed[d].samples = taken["sla"][d]
          /\ d > slaDay => slaFlushed[d].samples = 0 /\ taken["sla"][d] = 0
      BY <2>3, <2>5, SlaFlushed
    <3> QED BY <1>0, <1>2, <2>2, <2>4, <3>1
  <2>6. slaAcc'.samples \in Nat /\ slaDay' \in 1 .. today'
    BY <1>0, <1>1, <2>1, <2>2 DEF Days
  <2>7. SlaIsWhole'
    BY <1>1, <2>1, <2>3, <2>5, <2>6 DEF SlaIsWhole, Recent
  <2> QED BY <1>0, <1>1, <1>2, <1>3, <2>7 DEF DaysInv
<1> QED BY <1>5, <1>6

LEMMA HeartbeatsKeepDays ==
  ASSUME DaysInv, persistHeartbeats \/ \E up \in BOOLEAN : record(up)
  PROVE  DaysInv'
<1>0. today \in Nat /\ KeepDays \in Nat /\ today \in Days
  BY MeasureAssumption DEF DaysInv, Days
<1>1. CASE persistHeartbeats
  <2>1. UNCHANGED <<today, taken, cut, hbDays, capRows, capAcc, capDay, slaRows, slaAcc, slaDay>> /\ hbSaved' = hbDays
    BY <1>1 DEF persistHeartbeats, capVars, slaVars
  <2> QED BY <1>0, <2>1, CapAlone, SlaAlone, HeartbeatsAlone DEF DaysInv
<1>2. ASSUME NEW up \in BOOLEAN, record(up) PROVE DaysInv'
  <2>1. UNCHANGED <<today, cut, hbSaved, capRows, capAcc, capDay, slaRows, slaAcc, slaDay>>
    BY <1>2 DEF record, capVars, slaVars
  <2>2. /\ taken' \in [Stores -> [Days -> Nat]] /\ taken'["hb"][today] = taken["hb"][today] + 1
        /\ \A d \in Days : /\ d # today => taken'["hb"][d] = taken["hb"][d]
                           /\ taken'["cap"][d] = taken["cap"][d] /\ taken'["sla"][d] = taken["sla"][d]
    BY <1>2, TookCounts DEF record, Stores
  <2>3. CapIsWhole' /\ SlaIsWhole'
    BY <1>0, <2>1, <2>2, CapAlone, SlaAlone DEF DaysInv
  <2>4. ASSUME NEW d \in Days
        PROVE  /\ hbDays'[d] \in [up : Nat, down : Nat]
               /\ d = today => hbDays'[d].up + hbDays'[d].down = hbDays[d].up + hbDays[d].down + 1
               /\ d # today /\ Recent(d) => hbDays'[d] = hbDays[d]
    <3>1. hbDays[d] \in [up : Nat, down : Nat]
      BY DEF DaysInv, HeartbeatsAreWhole
    <3>2. CASE d = today /\ up
      BY <1>2, <3>1, <3>2 DEF record
    <3>3. CASE d = today /\ ~up
      BY <1>2, <3>1, <3>3 DEF record
    <3>4. CASE d # today
      BY <1>2, <3>1, <3>4 DEF record
    <3> QED BY <3>2, <3>3, <3>4
  <2>5. hbDays' = [d \in Days |-> hbDays'[d]]
    BY <1>2 DEF record
  <2>6. HeartbeatsAreWhole'
    <3>1. hbDays' \in [Days -> [up : Nat, down : Nat]]
      BY <2>4, <2>5
    <3>2. ASSUME NEW d \in Days, Recent(d), <<"hb", d>> \notin cut
          PROVE  hbDays'[d].up + hbDays'[d].down = taken'["hb"][d]
      BY <2>2, <2>4, <3>2 DEF DaysInv, HeartbeatsAreWhole
    <3> QED BY <2>1, <3>1, <3>2 DEF DaysInv, HeartbeatsAreWhole, Recent
  <2> QED BY <2>1, <2>2, <2>3, <2>6 DEF DaysInv
<1> QED BY <1>1, <1>2

(* A restart: what a day had and no longer has makes it one that was cut.  *)
LEMMA MeasureRestartKeepsDays ==
  ASSUME DaysInv, MeasureRestart
  PROVE  DaysInv'
<1>0. /\ today \in Nat /\ today \in Days /\ today' = today /\ taken' = taken /\ cut \subseteq cut'
      /\ capDay \in 1 .. today /\ slaDay \in 1 .. today /\ today \in 1 .. today
  BY MeasureAssumption DEF DaysInv, CapIsWhole, SlaIsWhole, Days, MeasureRestart
<1>1. /\ \A d \in Days : <<"cap", d>> \notin cut' => d # today /\ capRows'[d] = capFlushed[d]
      /\ \A d \in Days : <<"sla", d>> \notin cut' => d # today /\ slaRows'[d] = slaFlushed[d]
      /\ \A d \in Days : <<"hb", d>> \notin cut' => hbDays'[d] = hbDays[d]
  <2>1. cut' = cut \cup {<<"cap", d>> : d \in {d \in Days : d = today \/ capRows'[d] # capFlushed[d]}}
                   \cup {<<"sla", d>> : d \in {d \in Days : d = today \/ slaRows'[d] # slaFlushed[d]}}
                   \cup {<<"hb", d>> : d \in {d \in Days : hbDays'[d] # hbDays[d]}}
    BY DEF MeasureRestart
  <2> QED BY <2>1
<1>2. \A d \in Days : d \in Nat
  BY DEF Days
<1>3. CapIsWhole'
  <2>1. capRows' = [d \in Days |-> capRows'[d]]
    BY DEF MeasureRestart, pruneCap
  <2>2. capAcc'.samples = 0 /\ capDay' = today
    BY DEF MeasureRestart, NoCapDay
  <2>3. ASSUME NEW d \in Days, Recent(d), <<"cap", d>> \notin cut'
        PROVE  /\ d < today => capRows'[d].samples = taken["cap"][d]
               /\ d # today /\ (d > today => capRows'[d].samples = 0 /\ taken["cap"][d] = 0)
    <3>1. d # today /\ capRows'[d] = capFlushed[d] /\ <<"cap", d>> \notin cut
      BY <1>0, <1>1, <2>3
    <3>2. /\ d <= capDay => capFlushed[d].samples = taken["cap"][d]
          /\ d > capDay => capFlushed[d].samples = 0 /\ taken["cap"][d] = 0
      BY <2>3, <3>1, CapFlushed
    <3>3. d \in Nat /\ today \in Nat /\ capDay \in Nat /\ capDay <= today
      BY <1>0, <1>2
    <3>4. CASE d <= capDay
      BY <3>1, <3>2, <3>3, <3>4
    <3>5. CASE d > capDay
      BY <3>1, <3>2, <3>3, <3>5
    <3> QED BY <3>3, <3>4, <3>5
  <2> QED BY <1>0, <2>1, <2>2, <2>3 DEF CapIsWhole, Recent
<1>4. SlaIsWhole'
  <2>1. slaRows' = [d \in Days |-> slaRows'[d]]
    BY DEF MeasureRestart, pruneSla
  <2>2. slaAcc'.samples = 0 /\ slaDay' = today
    BY DEF MeasureRestart, NoSlaDay
  <2>3. ASSUME NEW d \in Days, Recent(d), <<"sla", d>> \notin cut'
        PROVE  /\ d < today => slaRows'[d].samples = taken["sla"][d]
               /\ d # today /\ (d > today => slaRows'[d].samples = 0 /\ taken["sla"][d] = 0)
    <3>1. d # today /\ slaRows'[d] = slaFlushed[d] /\ <<"sla", d>> \notin cut
      BY <1>0, <1>1, <2>3
    <3>2. /\ d <= slaDay => slaFlushed[d].samples = taken["sla"][d]
          /\ d > slaDay => slaFlushed[d].samples = 0 /\ taken["sla"][d] = 0
      BY <2>3, <3>1, SlaFlushed
    <3>3. d \in Nat /\ today \in Nat /\ slaDay \in Nat /\ slaDay <= today
      BY <1>0, <1>2
    <3>4. CASE d <= slaDay
      BY <3>1, <3>2, <3>3, <3>4
    <3>5. CASE d > slaDay
      BY <3>1, <3>2, <3>3, <3>5
    <3> QED BY <3>3, <3>4, <3>5
  <2> QED BY <1>0, <2>1, <2>2, <2>3 DEF SlaIsWhole, Recent
<1>5. HeartbeatsAreWhole'
  <2>1. hbDays' \in [Days -> [up : Nat, down : Nat]] /\ hbSaved' \in [Days -> [up : Nat, down : Nat]]
    BY DEF MeasureRestart, DaysInv, HeartbeatsAreWhole
  <2>2. ASSUME NEW d \in Days, Recent(d), <<"hb", d>> \notin cut'
        PROVE  hbDays'[d].up + hbDays'[d].down = taken["hb"][d]
    BY <1>0, <1>1, <2>2 DEF DaysInv, HeartbeatsAreWhole
  <2> QED BY <1>0, <2>1, <2>2 DEF HeartbeatsAreWhole, Recent
<1> QED BY <1>0, <1>3, <1>4, <1>5 DEF DaysInv

LEMMA DaysStepInv == DaysInv /\ [Measuring \/ MeasureRestart]_measureVars => DaysInv'
<1> SUFFICES ASSUME DaysInv, [Measuring \/ MeasureRestart]_measureVars PROVE DaysInv'
  OBVIOUS
<1>0. today \in Nat /\ KeepDays \in Nat /\ today \in Days
  BY MeasureAssumption DEF DaysInv, Days
<1>1. ASSUME UNCHANGED <<capRows, capAcc, capDay, slaRows, slaAcc, slaDay, hbVars, taken, cut>>,
             today' \in Days, today' >= today
      PROVE  DaysInv'
  <2>1. today' \in Nat /\ UNCHANGED <<hbDays, hbSaved>>
    BY <1>1 DEF Days, hbVars
  <2> QED BY <1>0, <1>1, <2>1, CapAlone, SlaAlone, HeartbeatsAlone DEF DaysInv
<1>2. CASE nextDay
  <2>1. UNCHANGED <<capRows, capAcc, capDay, slaRows, slaAcc, slaDay, hbVars, taken, cut>>
    BY <1>2 DEF nextDay, capVars, slaVars
  <2>2. today' \in Days /\ today' >= today
    BY <1>0, <1>2, MeasureAssumption DEF nextDay, Days
  <2> QED BY <1>1, <2>1, <2>2
<1>3. CASE \/ probeReports \/ handleSLATargetsSet \/ recomputeForecast \/ UNCHANGED measureVars
           \/ \E link \in 0 .. MaxLoad : handleCapacitySetLink(link)
  <2>1. UNCHANGED <<today, capRows, capAcc, capDay, slaRows, slaAcc, slaDay, hbVars, taken, cut>>
    BY <1>3 DEF probeReports, handleSLATargetsSet, recomputeForecast, handleCapacitySetLink, measureVars,
                capVars, slaVars
  <2>2. today' \in Days /\ today' >= today
    BY <1>0, <2>1
  <2> QED BY <1>1, <2>1, <2>2
<1> QED BY <1>2, <1>3, FlushKeepsDays, SampleCapKeepsDays, SampleSlaKeepsDays, HeartbeatsKeepDays,
           MeasureRestartKeepsDays DEF Measuring, MeasureSamples, MeasureWork

LEMMA DaysAreWhole == DaysInv => FinishedDaysAreWhole
BY DEF DaysInv, CapIsWhole, SlaIsWhole, HeartbeatsAreWhole, FinishedDaysAreWhole, Days

------------------------------------------------------------------------------
(* The wiki.                                                               *)
Page == [version : Nat, content : SUBSET Contents, public : BOOLEAN]
Save == [at : {"idle", "read", "revert"}, path : SUBSET Paths, new : Page, prev : Page]

(* What a save is about to write is one text, and every text that was      *)
(* written is kept.                                                        *)
WikiInv ==
    /\ pages \in [Paths -> Page] /\ wikiTx \in [WikiTxs -> Save]
    /\ versions \subseteq [path : Paths, content : Contents, version : Nat]
    /\ written \subseteq [path : Paths, content : Contents]
    /\ \A t \in WikiTxs : wikiTx[t] # NoTx =>
         \E p \in Paths, c \in Contents : wikiTx[t].path = {p} /\ wikiTx[t].new.content = {c}
    /\ EditsAreKept

LEMMA NothingSaved == NoPage \in Page /\ NoTx \in Save
BY DEF NoPage, NoTx, Page, Save

LEMMA WikiInitInv == DocumentsInit => WikiInv
BY NothingSaved DEF DocumentsInit, WikiInv, EditsAreKept

(* A save that begins, or that reads the page it reverts.                  *)
LEMMA SaveKeepsWiki ==
  ASSUME WikiInv, NEW t \in WikiTxs, NEW k \in Save, wikiTx' = [wikiTx EXCEPT ![t] = k],
         k # NoTx => \E p \in Paths, c \in Contents : k.path = {p} /\ k.new.content = {c},
         UNCHANGED <<pages, versions, written, lost>>
  PROVE  WikiInv'
<1>1. wikiTx' \in [WikiTxs -> Save]
  BY DEF WikiInv
<1>2. \A s \in WikiTxs : wikiTx'[s] # NoTx =>
        \E p \in Paths, c \in Contents : wikiTx'[s].path = {p} /\ wikiTx'[s].new.content = {c}
  BY DEF WikiInv
<1> QED BY <1>1, <1>2 DEF WikiInv, EditsAreKept

LEMMA UpsertReadsKeepsWiki ==
  ASSUME WikiInv, NEW t \in WikiTxs, NEW p \in Paths, NEW c \in Contents, NEW public \in BOOLEAN,
         upsertReads(t, p, c, public)
  PROVE  WikiInv'
<1> DEFINE new == [version |-> pages[p].version + 1, content |-> {c}, public |-> public]
           k == [at |-> "read", path |-> {p}, prev |-> pages[p], new |-> new]
<1>1. pages[p] \in Page
  BY DEF WikiInv
<1>2. new \in Page
  BY <1>1 DEF Page
<1>3. k \in Save /\ k.path = {p} /\ k.new.content = {c}
  BY <1>1, <1>2 DEF Save
<1>4. wikiTx' = [wikiTx EXCEPT ![t] = k] /\ UNCHANGED <<pages, versions, written, lost>>
  BY DEF upsertReads
<1> HIDE DEF k
<1> QED BY <1>3, <1>4, SaveKeepsWiki

LEMMA RevertKeepsWiki ==
  ASSUME WikiInv, NEW t \in WikiTxs, NEW v \in versions, revert(t, v)
  PROVE  WikiInv'
<1> DEFINE new == [version |-> 0, content |-> {v.content}, public |-> pages[v.path].public]
           k == [at |-> "revert", path |-> {v.path}, prev |-> NoPage, new |-> new]
<1>1. v.path \in Paths /\ v.content \in Contents
  BY DEF WikiInv
<1>2. pages[v.path] \in Page
  BY <1>1 DEF WikiInv
<1>3. new \in Page
  BY <1>1, <1>2 DEF Page
<1>4. k \in Save /\ k.path = {v.path} /\ k.new.content = {v.content}
  BY <1>1, <1>3, NothingSaved DEF Save
<1>5. wikiTx' = [wikiTx EXCEPT ![t] = k] /\ UNCHANGED <<pages, versions, written, lost>>
  BY DEF revert
<1> HIDE DEF k
<1> QED BY <1>1, <1>4, <1>5, SaveKeepsWiki

LEMMA RevertReadsKeepsWiki ==
  ASSUME WikiInv, NEW t \in WikiTxs, NEW p \in Paths, revertReads(t, p)
  PROVE  WikiInv'
<1> DEFINE new == [wikiTx[t].new EXCEPT !.version = pages[p].version + 1]
           k == [wikiTx[t] EXCEPT !.at = "read", !.prev = pages[p], !.new = new]
<1>1. wikiTx[t] \in Save /\ pages[p] \in Page /\ wikiTx[t].at = "revert" /\ wikiTx[t].path = {p}
  BY DEF WikiInv, revertReads
<1>2. PICK c \in Contents : wikiTx[t].new.content = {c}
  BY <1>1 DEF WikiInv, NoTx
<1>3. new \in Page /\ new.content = {c}
  BY <1>1, <1>2 DEF Save, Page
<1>4. UNCHANGED <<pages, versions, written, lost>> /\ wikiTx' = [wikiTx EXCEPT ![t] = k]
  <2>1. wikiTx' = [wikiTx EXCEPT ![t].at = "read", ![t].prev = pages[p], ![t].new.version = pages[p].version + 1]
    BY DEF revertReads
  <2>2. k = [[[wikiTx[t] EXCEPT !.at = "read"] EXCEPT !.prev = pages[p]] EXCEPT !.new = new]
    OBVIOUS
  <2> QED BY <1>1, <2>1, <2>2 DEF revertReads, WikiInv, Save, Page
<1> HIDE DEF new
<1>5. k \in Save /\ k.path = {p} /\ k.new = new
  BY <1>1, <1>3 DEF Save
<1> HIDE DEF k
<1> QED BY <1>3, <1>4, <1>5, SaveKeepsWiki

(* What a save writes over is in the history, unless somebody else was     *)
(* there since it was read.                                                *)
LEMMA UpsertKeepsWiki ==
  ASSUME WikiInv, NEW t \in WikiTxs, NEW p \in Paths, upsert(t, p)
  PROVE  WikiInv'
<1> DEFINE prev == wikiTx[t].prev
           new == wikiTx[t].new
           insert == prev = NoPage
           refused == insert /\ pages[p] # NoPage
           gone == ~insert /\ pages[p] = NoPage
<1>1. /\ versions' = IF insert THEN versions ELSE versions \cup Snapshotted(p, prev)
      /\ pages' = IF refused \/ gone THEN pages ELSE [pages EXCEPT ![p] = new]
      /\ written' = IF refused \/ gone THEN written
                    ELSE written \cup {[path |-> p, content |-> c] : c \in new.content}
      /\ lost' = IF ~insert /\ pages[p] # prev THEN lost \cup {p} ELSE lost
      /\ wikiTx' = [wikiTx EXCEPT ![t] = NoTx]
  BY DEF upsert
<1>2. PICK c \in Contents : new.content = {c}
  BY DEF WikiInv, upsert, NoTx
<1>3. wikiTx[t] \in Save /\ prev \in Page /\ new \in Page /\ pages[p] \in Page
  BY DEF WikiInv, Save
<1>4. /\ wikiTx' \in [WikiTxs -> Save]
      /\ \A s \in WikiTxs : wikiTx'[s] # NoTx =>
           \E q \in Paths, d \in Contents : wikiTx'[s].path = {q} /\ wikiTx'[s].new.content = {d}
  BY <1>1, NothingSaved DEF WikiInv
<1>5. pages' \in [Paths -> Page]
  BY <1>1, <1>3 DEF WikiInv
<1>6. versions' \subseteq [path : Paths, content : Contents, version : Nat] /\ versions \subseteq versions'
  <2>1. Snapshotted(p, prev) \subseteq [path : Paths, content : Contents, version : Nat]
    BY <1>3 DEF Snapshotted, Page
  <2> QED BY <1>1, <2>1 DEF WikiInv
<1>7. {[path |-> p, content |-> d] : d \in new.content} = {[path |-> p, content |-> c]}
  BY <1>2
<1>8. written' \subseteq [path : Paths, content : Contents]
  BY <1>1, <1>7 DEF WikiInv
<1>9. ASSUME NEW w \in written', w.path \notin lost'
      PROVE  \/ pages'[w.path].content = {w.content}
             \/ \E v \in versions' : v.path = w.path /\ v.content = w.content
  <2>1. w \in written \/ (~refused /\ ~gone /\ w = [path |-> p, content |-> c])
    BY <1>1, <1>7
  <2>2. CASE w \notin written
    <3>1. pages'[p] = new
      BY <1>1, <2>1, <2>2 DEF WikiInv
    <3> QED BY <1>2, <2>1, <2>2, <3>1
  <2>3. CASE w \in written /\ (w.path # p \/ refused \/ gone)
    <3>1. pages'[w.path] = pages[w.path] /\ w.path \notin lost
      BY <1>1, <1>9, <2>3 DEF WikiInv
    <3> QED BY <1>6, <2>3, <3>1 DEF WikiInv, EditsAreKept
  <2>4. CASE w \in written /\ w.path = p /\ ~refused /\ ~gone
    <3>1. p \notin lost /\ pages[p] = prev
      BY <1>1, <1>9, <2>4
    <3>2. \/ pages[p].content = {w.content}
          \/ \E v \in versions : v.path = p /\ v.content = w.content
      BY <2>4, <3>1 DEF WikiInv, EditsAreKept
    <3>3. CASE pages[p].content = {w.content}
      <4>1. ~insert
        BY <3>1, <3>3 DEF NoPage
      <4>2. [path |-> p, content |-> w.content, version |-> prev.version] \in versions'
        BY <1>1, <3>1, <3>3, <4>1 DEF Snapshotted
      <4> QED BY <2>4, <4>2
    <3> QED BY <1>6, <2>4, <3>2, <3>3
  <2> QED BY <2>1, <2>2, <2>3, <2>4
<1> QED BY <1>4, <1>5, <1>6, <1>8, <1>9 DEF WikiInv, EditsAreKept

LEMMA WikiStepInv == WikiInv /\ [Writing \/ DocumentsRestart]_documentVars => WikiInv'
<1> SUFFICES ASSUME WikiInv, [Writing \/ DocumentsRestart]_documentVars PROVE WikiInv'
  OBVIOUS
<1>1. ASSUME UNCHANGED wikiVars PROVE WikiInv'
  BY <1>1 DEF wikiVars, WikiInv, EditsAreKept
<1>2. CASE WikiEvents
  <2>1. ASSUME NEW p \in Paths, deletePage(p) PROVE WikiInv'
    <3>1. /\ pages' = [pages EXCEPT ![p] = NoPage] /\ lost' = lost \cup {p}
          /\ UNCHANGED <<versions, wikiTx, written>>
      BY <2>1 DEF deletePage
    <3>2. pages' \in [Paths -> Page] /\ \A q \in Paths \ {p} : pages'[q] = pages[q]
      BY <3>1, NothingSaved DEF WikiInv
    <3>3. EditsAreKept'
      BY <3>1, <3>2 DEF WikiInv, EditsAreKept
    <3> QED BY <3>1, <3>2, <3>3 DEF WikiInv
  <2> QED BY <1>2, <2>1, UpsertReadsKeepsWiki, RevertKeepsWiki DEF WikiEvents
<1>3. CASE WikiWork
  <2>1. ASSUME NEW t \in WikiTxs, upsertFails(t) PROVE WikiInv'
    BY <2>1, NothingSaved, SaveKeepsWiki DEF upsertFails
  <2> QED BY <1>3, <2>1, UpsertKeepsWiki, RevertReadsKeepsWiki DEF WikiWork
<1>4. CASE BillingEvents \/ monthPasses
  BY <1>1, <1>4 DEF BillingEvents, handleBillingCreate, handleBillingPatch, handleBillingDelete,
                    handleBillingMarkPaid, monthPasses
<1>5. CASE IncidentEvents
  BY <1>1, <1>5 DEF IncidentEvents, createIncident, addUpdate, patchIncident, deleteIncident
<1>6. CASE AIEvents
  BY <1>1, <1>6 DEF AIEvents, saveConversation, deleteConversation, addMemory, deleteMemory, refreshAvailable, setModel
<1>7. CASE DocumentsRestart
  BY <1>7, NothingSaved DEF DocumentsRestart, WikiInv, EditsAreKept
<1>8. CASE UNCHANGED documentVars
  BY <1>1, <1>8 DEF documentVars
<1> QED BY <1>2, <1>3, <1>4, <1>5, <1>6, <1>7, <1>8 DEF Writing

------------------------------------------------------------------------------
(* The poll interval: a change under way is a number of seconds.           *)
IntervalInv == setting \in [Setters -> Nat] /\ IntervalIsAdopted

LEMMA IntervalInitInv == WatchersInit => IntervalInv
BY DEF WatchersInit, IntervalInv, IntervalIsAdopted

LEMMA RefreshEndsKeepsInterval ==
  ASSUME IntervalInv, NEW p, refreshEnds(p)
  PROVE  IntervalInv'
BY DEF IntervalInv, IntervalIsAdopted, refreshEnds

LEMMA IntervalStepInv == IntervalInv /\ [Watching \/ WatchersRestart]_watcherVars => IntervalInv'
<1> SUFFICES ASSUME IntervalInv, [Watching \/ WatchersRestart]_watcherVars PROVE IntervalInv'
  OBVIOUS
<1>1. ASSUME UNCHANGED tickerVars PROVE IntervalInv'
  BY <1>1 DEF tickerVars, IntervalInv, IntervalIsAdopted
<1>2. ASSUME NEW s \in Setters, NEW d \in Int, setInterval(s, d) PROVE IntervalInv'
  <2>1. clampRefresh(d) \in Nat /\ clampRefresh(d) # 0
    BY WatchersAssumption DEF clampRefresh
  <2> QED BY <1>2, <2>1 DEF setInterval, IntervalInv, IntervalIsAdopted
<1>3. ASSUME NEW s \in Setters, persistInterval(s) PROVE IntervalInv'
  BY <1>3 DEF persistInterval, IntervalInv, IntervalIsAdopted
<1>4. CASE tickerReset
  BY <1>4 DEF tickerReset, IntervalInv, IntervalIsAdopted
<1>5. ASSUME NEW p, announced(p) \/ publish(p) \/ compareWarn(p) \/ maybeAlertRPKI(p) PROVE IntervalInv'
  BY <1>1, <1>5, RefreshEndsKeepsInterval DEF announced, publish, compareWarn, maybeAlertRPKI
<1>6. ASSUME NEW p, NEW x, validityOf(p, x) PROVE IntervalInv'
  BY <1>1, <1>6 DEF validityOf
<1>7. CASE RpkiEvents
  BY <1>1, <1>5, <1>7 DEF RpkiEvents, roaChanges
<1>8. CASE Sending \/ HijackEvents \/ HijackWork \/ UNCHANGED watcherVars
  BY <1>1, <1>8 DEF Sending, HijackEvents, HijackWork, sessionFails, sessionStarts, sessionEnds, handleMessage, flag,
                    sixHoursPass, watcherVars
<1>9. CASE RpkiWork \/ TickerWork
  BY <1>3, <1>4, <1>5, <1>6, <1>8, <1>9 DEF RpkiWork, TickerWork
<1>10. CASE TickerEvents
  <2>1. MinRefresh - 1 .. MaxRefresh + 1 \subseteq Int
    BY WatchersAssumption
  <2> QED BY <1>2, <1>10, <2>1 DEF TickerEvents
<1>11. CASE WatchersRestart
  BY <1>11 DEF WatchersRestart, IntervalInv, IntervalIsAdopted
<1> QED BY <1>7, <1>8, <1>9, <1>10, <1>11 DEF Watching

------------------------------------------------------------------------------
(* Nothing the console took in is lost, wherever the flushes, the changes  *)
(* of day, the saves, the refusals and the restarts fall.                  *)
THEOREM NothingGoesMissing == ConsoleSpec => []NothingIsLost
<1> DEFINE KeptInv == DaysInv /\ WikiInv /\ IntervalInv
<1>1. ConsoleInit => KeptInv
  BY DaysInitInv, WikiInitInv, IntervalInitInv DEF ConsoleInit
<1>2. KeptInv /\ [ConsoleNext]_<<measureVars, documentVars, noticeVars, watcherVars>> => KeptInv'
  <2> SUFFICES ASSUME KeptInv, [ConsoleNext]_<<measureVars, documentVars, noticeVars, watcherVars>> PROVE KeptInv'
    OBVIOUS
  <2>1. [Measuring \/ MeasureRestart]_measureVars
    BY DEF ConsoleNext, ConsoleRestart, otherThanDocuments, otherThanNotices
  <2>2. [Writing \/ DocumentsRestart]_documentVars
    BY DEF ConsoleNext, ConsoleRestart, otherThanMeasures, otherThanNotices
  <2>3. [Watching \/ WatchersRestart]_watcherVars
    BY DEF ConsoleNext, ConsoleRestart, otherThanMeasures, otherThanDocuments
  <2> QED BY <2>1, <2>2, <2>3, DaysStepInv, WikiStepInv, IntervalStepInv
<1>3. KeptInv => NothingIsLost
  BY DaysAreWhole DEF NothingIsLost, WikiInv, IntervalInv
<1> QED BY <1>1, <1>2, <1>3, PTL DEF ConsoleSpec
------------------------------------------------------------------------------
(* Numbers, sets and sequences: what the lists of the model hold.          *)
LEMMA LeastElement ==
  ASSUME NEW T \in SUBSET Nat, T # {}
  PROVE  \E m \in T : \A n \in T : m <= n
<1> DEFINE R == OpToRel(<, Nat)
<1>1. IsWellFoundedOn(R, Nat)
  BY NatLessThanWellFounded
<1>2. \A x, y \in Nat : x < y => <<x, y>> \in R
  BY DEF OpToRel
<1> HIDE DEF R
<1>3. PICK m \in T : \A n \in T : ~ (<<n, m>> \in R)
  BY <1>1, WFMin
<1>4. \A n \in T : ~ (n < m)
  BY <1>2, <1>3
<1> QED BY <1>4

LEMMA GreatestElement ==
  ASSUME NEW n \in Nat, NEW T \in SUBSET (1 .. n), T # {}
  PROVE  \E m \in T : \A k \in T : k <= m
<1> DEFINE D == {n - k : k \in T}
<1>0. \A k \in T : n - k \in Nat /\ k \in Int
  OBVIOUS
<1>1. D \in SUBSET Nat /\ D # {}
  BY <1>0
<1>2. PICK d \in D : \A e \in D : d <= e
  BY <1>1, LeastElement
<1>3. PICK m \in T : d = n - m
  BY <1>2
<1>4. \A k \in T : n - m <= n - k
  BY <1>2, <1>3
<1> QED BY <1>4

(* The sequence of a finite set: its members, each once.                   *)
LEMMA SequenceOfSet ==
  ASSUME NEW S, IsFiniteSet(S)
  PROVE  /\ SetToSeq(S) \in Seq(S) /\ Len(SetToSeq(S)) = Cardinality(S)
         /\ ToSet(SetToSeq(S)) = S /\ IsInjective(SetToSeq(S))
<1> DEFINE n == Cardinality(S)
           f == SetToSeq(S)
<1>1. n \in Nat /\ ExistsBijection(1 .. n, S)
  BY FS_CardinalityType
<1>2. \E g \in [1 .. n -> S] : IsInjective(g)
  BY <1>1 DEF ExistsBijection, Bijection, Injection, IsInjective
<1>3. f \in [1 .. n -> S] /\ IsInjective(f)
  BY <1>2 DEF SetToSeq
<1>4. f \in Injection(1 .. n, S)
  BY <1>3 DEF Injection, IsInjective
<1>5. Cardinality(1 .. n) = Cardinality(S) /\ IsFiniteSet(1 .. n)
  BY <1>1, FS_Interval
<1>6. f \in Surjection(1 .. n, S)
  BY <1>4, <1>5, FS_Injection
<1>7. ToSet(f) = S
  BY <1>3, <1>6 DEF Surjection, ToSet
<1> HIDE DEF f, n
<1>8. f \in Seq(S) /\ Len(f) = n
  BY <1>1, <1>3
<1> QED BY <1>3, <1>7, <1>8 DEF f, n

------------------------------------------------------------------------------
(* Messages, and who was told.                                             *)
Tellable == Alerts \cup Suspects \cup Problems
Message == [to : People \cup {Group}, about : Tellable \cup {NoAlert}, loud : BOOLEAN]
Told(t, e, q, s, about) == about \in t \cup e \/ \E m \in ToSet(q) \cup s : m.about = about

QueueTypes(q, s) == q \in Seq(Message) /\ s \subseteq Message /\ \A m, n \in s : m = n

(* A step that tells: what was known to be told still is, and no message   *)
(* of another kind is queued or sent.                                      *)
TellsOn ==
    /\ QueueTypes(queue', sending')
    /\ \A about \in Tellable :
         Told(told, excused, queue, sending, about) => Told(told', excused', queue', sending', about)

(* What does not fit is excused, and the rest is in the queue.             *)
LEMMA EnqueueTells ==
  ASSUME QueueTypes(queue, sending), NEW ms \in SUBSET Message, IsFiniteSet(ms), enqueue(ms)
  PROVE  TellsOn /\ \A m \in ms : m.about \in Tellable => Told(told', excused', queue', sending', m.about)
<1> DEFINE fit == SetToSeq(ms)
           room == QueueCap - Len(queue)
           k == IF room < Len(fit) THEN room ELSE Len(fit)
           some == SubSeq(fit, 1, k)
<1>1. fit \in Seq(ms) /\ ToSet(fit) = ms /\ fit \in Seq(Message)
  <2>1. fit \in Seq(ms) /\ ToSet(fit) = ms
    BY SequenceOfSet
  <2>2. fit \in Seq(Message)
    BY <2>1
  <2> QED BY <2>1, <2>2
<1>2. queue \in Seq(Message) /\ Len(queue) \in Nat /\ Len(fit) \in Nat /\ room \in Int /\ k \in Int /\ k <= Len(fit)
  BY <1>1, NoticesAssumption DEF QueueTypes
<1>3. /\ queue' = queue \o some /\ UNCHANGED <<sending, told>>
      /\ IF Len(fit) > room THEN excused' = excused \cup ({m.about : m \in ms} \ {NoAlert}) ELSE UNCHANGED excused
  BY DEF enqueue
<1>4. some \in Seq(Message) /\ (room >= Len(fit) => some = fit)
  <2>1. CASE k < 1
    <3>1. some = <<>>
      BY <1>1, <1>2, <2>1
    <3>2. room >= Len(fit) => fit = <<>>
      BY <1>1, <1>2, <2>1
    <3>3. <<>> \in Seq(Message)
      OBVIOUS
    <3> HIDE DEF some, fit, room
    <3> QED BY <3>1, <3>2, <3>3
  <2>2. CASE k >= 1
    <3>1. some = [i \in 1 .. k |-> fit[i]]
      BY <1>1, <1>2, <2>2
    <3>2. \A i \in 1 .. k : fit[i] \in Message
      BY <1>1, <1>2
    <3>3. some \in Seq(Message) /\ Len(some) = k /\ \A i \in 1 .. k : some[i] = fit[i]
      BY <1>2, <2>2, <3>1, <3>2
    <3>4. room >= Len(fit) => some = fit
      BY <1>1, <1>2, <3>3
    <3> QED BY <3>3, <3>4
  <2> QED BY <1>2, <2>1, <2>2
<1> HIDE DEF some, k
<1>5. queue' \in Seq(Message) /\ ToSet(queue') = ToSet(queue) \cup ToSet(some)
  <2>1. queue' \in Seq(Message)
    BY <1>2, <1>3, <1>4
  <2>2. Range(queue \o some) = Range(queue) \cup Range(some)
    BY <1>2, <1>4, RangeConcatenation
  <2> QED BY <1>3, <2>1, <2>2 DEF Range, ToSet
<1>6. NoAlert \notin Tellable
  BY NoticesAssumption, WatchersAssumption DEF Tellable
<1>7. TellsOn
  BY <1>3, <1>5 DEF TellsOn, QueueTypes, Told
<1>8. ASSUME NEW m \in ms, m.about \in Tellable PROVE Told(told', excused', queue', sending', m.about)
  <2>1. CASE Len(fit) > room
    BY <1>3, <1>6, <1>8, <2>1 DEF Told
  <2>2. CASE ~(Len(fit) > room)
    <3>1. m \in ToSet(queue')
      BY <1>1, <1>2, <1>4, <1>5, <2>2
    <3> QED BY <3>1 DEF Told
  <2> QED BY <2>1, <2>2
<1> QED BY <1>7, <1>8

LEMMA SendingTells ==
  ASSUME QueueTypes(queue, sending), runLoop \/ \E m \in sending : deliver(m)
  PROVE  TellsOn
<1>1. NoAlert \notin Tellable
  BY NoticesAssumption, WatchersAssumption DEF Tellable
<1>2. CASE runLoop
  <2>1. /\ queue # <<>> /\ sending = {} /\ sending' = {Head(queue)} /\ queue' = Tail(queue)
        /\ UNCHANGED <<told, excused>>
    BY <1>2 DEF runLoop
  <2>2. queue' \in Seq(Message) /\ Head(queue) \in Message
    BY <2>1 DEF QueueTypes
  <2>3. ToSet(queue) = {Head(queue)} \cup ToSet(queue')
    <3>1. Len(queue) \in Nat \ {0} /\ DOMAIN queue = 1 .. Len(queue) /\ Head(queue) = queue[1]
      BY <2>1 DEF QueueTypes
    <3>2. DOMAIN queue' = 1 .. Len(queue) - 1 /\ \A i \in 1 .. Len(queue) - 1 : queue'[i] = queue[i + 1]
      BY <2>1 DEF QueueTypes
    <3>3. \A i \in 1 .. Len(queue) : i = 1 \/ (i - 1 \in 1 .. Len(queue) - 1 /\ queue[i] = queue'[i - 1])
      BY <3>1, <3>2
    <3>4. \A i \in 1 .. Len(queue) - 1 : i + 1 \in 1 .. Len(queue)
      BY <3>1
    <3>5. ToSet(queue) \subseteq {Head(queue)} \cup ToSet(queue')
      BY <3>1, <3>2, <3>3 DEF ToSet
    <3>6. {Head(queue)} \cup ToSet(queue') \subseteq ToSet(queue)
      BY <3>1, <3>2, <3>4 DEF ToSet
    <3> QED BY <3>5, <3>6
  <2> QED BY <2>1, <2>2, <2>3 DEF TellsOn, QueueTypes, Told
<1>3. ASSUME NEW m \in sending, deliver(m) PROVE TellsOn
  <2>1. /\ sending' = {} /\ queue' = queue
        /\ told' \cup excused' = (told \cup excused) \cup ({m.about} \ {NoAlert})
    BY <1>3 DEF deliver, Excuse
  <2>2. \A n \in sending : n = m
    BY <1>3 DEF QueueTypes
  <2>3. ASSUME NEW about \in Tellable, Told(told, excused, queue, sending, about)
        PROVE  Told(told', excused', queue', sending', about)
    <3>1. about # NoAlert
      BY <1>1
    <3>2. CASE about \in told \cup excused
      BY <2>1, <3>2 DEF Told
    <3>3. CASE \E n \in ToSet(queue) : n.about = about
      BY <2>1, <3>3 DEF Told
    <3>4. CASE m.about = about
      BY <2>1, <3>1, <3>4 DEF Told
    <3> QED BY <2>2, <2>3, <3>2, <3>3, <3>4 DEF Told
  <2> QED BY <2>1, <2>3 DEF TellsOn, QueueTypes
<1> QED BY <1>2, <1>3

(* The last tier that is due is a tier of the plan.                        *)
Tier == [after : Nat, target : {"group", "admins", "oncall"}]

LEMMA TierIsDue ==
  ASSUME NEW tiers \in Seq(Tier), NEW minutes \in Nat,
         TierDue(tiers, minutes) # 0
  PROVE  TierDue(tiers, minutes) \in DOMAIN tiers
<1>0. \A j \in DOMAIN tiers : tiers[j] \in Tier
  OBVIOUS
<1> DEFINE due == {i \in DOMAIN tiers : tiers[i].after <= minutes}
<1>1. due \in SUBSET (1 .. Len(tiers)) /\ due # {} /\ Len(tiers) \in Nat
  BY DEF TierDue
<1>2. PICK m \in due : \A k \in due : k <= m
  BY <1>1, GreatestElement
<1>3. \A j \in DOMAIN tiers : j > m => tiers[j].after > minutes
  <2> SUFFICES ASSUME NEW j \in DOMAIN tiers, j > m, ~(tiers[j].after > minutes) PROVE FALSE
    OBVIOUS
  <2>1. tiers[j].after \in Nat
    BY <1>0 DEF Tier
  <2>2. j \in due
    BY <2>1
  <2> QED BY <1>1, <1>2, <2>2
<1>4. m \in DOMAIN tiers /\ tiers[m].after <= minutes
  BY <1>2
<1> DEFINE IsLast(i) == tiers[i].after <= minutes /\ \A j \in DOMAIN tiers : j > i => tiers[j].after > minutes
<1>5. \E i \in DOMAIN tiers : IsLast(i)
  BY <1>3, <1>4
<1>6. TierDue(tiers, minutes) = CHOOSE i \in DOMAIN tiers : IsLast(i)
  BY <1>4 DEF TierDue
<1> HIDE DEF IsLast
<1>7. (CHOOSE i \in DOMAIN tiers : IsLast(i)) \in DOMAIN tiers
  BY <1>5
<1> QED BY <1>6, <1>7

------------------------------------------------------------------------------
(* A prefix set that is shown and was not told is still being compared.    *)
NoticeTypes ==
    /\ plan \in Seq(Tier) /\ cfgSaved \in [plan : Seq(Tier), oncall : People \cup {NoAlert}]
    /\ oncall \in People \cup {NoAlert} /\ bound \subseteq People
    /\ age \in [Alerts -> Nat] /\ sent \in [Alerts -> Nat]
    /\ tickAt \in [plan : Seq(Tier), todo : SUBSET Alerts, live : SUBSET Alerts, on : BOOLEAN]

Poll == [at : {"idle", "asking", "published", "warning"}, left : SUBSET Nets, probs : Problems]

WatcherTypes ==
    /\ validity \in [Nets -> Validities] /\ polls \in [Pollers \cup {Ticker} -> Poll]
    /\ lastWarn \in Problems /\ view \in Problems \cup {Unreached}
    /\ sighted \in [Suspects -> {"never", "recent", "old"}]

IsTold(about) == Told(told, excused, queue, sending, about)

Compared(probs) == \E p \in Pollers \cup {Ticker} : polls[p].at \in {"published", "warning"} /\ polls[p].probs = probs

TiersTold == \A a \in Alerts : sent[a] > 0 => IsTold(a)
ProblemsTold ==
    /\ lastWarn # {} => IsTold(lastWarn)
    /\ view \notin {Unreached, {}} => IsTold(view) \/ Compared(view)
SuspectsTold == \A s \in Suspects : sighted[s] = "recent" => IsTold(s)

TellInv ==
    /\ QueueTypes(queue, sending) /\ NoticeTypes /\ WatcherTypes
    /\ TiersTold /\ ProblemsTold /\ SuspectsTold

LEMMA TellInvTells == TellInv => MarkedIsTold
<1> SUFFICES ASSUME TellInv PROVE MarkedIsTold
  OBVIOUS
<1>1. TiersAreTold
  BY DEF TellInv, TiersTold, IsTold, Told, TiersAreTold
<1>2. lastWarn # {} => Announced(lastWarn)
  BY DEF TellInv, ProblemsTold, IsTold, Told, Announced
<1>3. \A s \in Suspects : sighted[s] = "recent" => Announced(s)
  BY DEF TellInv, SuspectsTold, IsTold, Told, Announced
<1>4. ASSUME view \notin {Unreached, {}}, \A p \in DOMAIN polls : polls[p].at = "idle" PROVE Announced(view)
  <2>1. ~ Compared(view)
    BY <1>4 DEF TellInv, WatcherTypes, Compared
  <2> QED BY <1>4, <2>1 DEF TellInv, ProblemsTold, IsTold, Told, Announced
<1> QED BY <1>1, <1>2, <1>3, <1>4 DEF MarkedIsTold, WarningsAreTold

LEMMA TellInitInv == NoticesInit /\ WatchersInit => TellInv
<1> SUFFICES ASSUME NoticesInit, WatchersInit PROVE TellInv
  OBVIOUS
<1>1. QueueTypes(queue, sending)
  BY DEF NoticesInit, QueueTypes
<1>2. NoticeTypes
  <2>1. plan \in Seq(Tier) /\ <<>> \in Seq(Tier)
    BY NoticesAssumption DEF NoticesInit, Tier
  <2> QED BY <2>1 DEF NoticesInit, NoticeTypes, NoTick
<1>3. WatcherTypes
  BY DEF WatchersInit, WatcherTypes, NoPoll, Poll, Problems
<1>4. TiersTold /\ ProblemsTold /\ SuspectsTold
  BY DEF NoticesInit, WatchersInit, TiersTold, ProblemsTold, SuspectsTold
<1> QED BY <1>1, <1>2, <1>3, <1>4 DEF TellInv

(* Steps of others.                                                        *)
LEMMA QueueAlone ==
  ASSUME QueueTypes(queue, sending), UNCHANGED queueVars
  PROVE  TellsOn
BY DEF queueVars, TellsOn, QueueTypes, Told

LEMMA WatchersAlone ==
  ASSUME WatcherTypes, ProblemsTold, SuspectsTold, TellsOn, UNCHANGED <<rpkiVars, sighted>>
  PROVE  WatcherTypes' /\ ProblemsTold' /\ SuspectsTold'
<1>1. WatcherTypes'
  BY DEF WatcherTypes, rpkiVars
<1>2. lastWarn \in Tellable /\ (view # Unreached => view \in Tellable) /\ Suspects \subseteq Tellable
  BY DEF WatcherTypes, Tellable
<1>3. UNCHANGED <<polls, view, lastWarn, sighted>>
  BY DEF rpkiVars
<1>4. \A about \in Tellable : IsTold(about) => IsTold(about)'
  BY DEF TellsOn, IsTold
<1>5. Compared(view) => Compared(view)'
  BY <1>3 DEF Compared
<1>6. ProblemsTold'
  BY <1>2, <1>3, <1>4, <1>5 DEF ProblemsTold
<1>7. SuspectsTold'
  BY <1>2, <1>3, <1>4 DEF SuspectsTold
<1> QED BY <1>1, <1>6, <1>7

LEMMA TiersAlone ==
  ASSUME NoticeTypes, TiersTold, TellsOn, \A a \in Alerts : sent'[a] \in {sent[a], 0}
  PROVE  TiersTold'
<1>1. \A a \in Alerts : IsTold(a) => IsTold(a)'
  BY DEF TellsOn, IsTold, Tellable
<1> QED BY <1>1 DEF TiersTold

LEMMA NoticesAlone ==
  ASSUME NoticeTypes, TiersTold, UNCHANGED oncallVars, \A a \in Alerts : IsTold(a) => IsTold(a)'
  PROVE  NoticeTypes' /\ TiersTold'
BY DEF NoticeTypes, TiersTold, oncallVars

(* The page of an alert.                                                   *)
LEMMA PagesAreFew ==
  ASSUME NoticeTypes, NEW target \in {"group", "admins", "oncall"}
  PROVE  page(target) \subseteq People \cup {Group} /\ IsFiniteSet(page(target))
<1>1. IsFiniteSet(Admins \cap bound) /\ Admins \subseteq People
  BY NoticesAssumption, FS_Subset
<1>2. IsFiniteSet({Group}) /\ IsFiniteSet({oncall})
  BY FS_Singleton, Zenon
<1>3. \/ page(target) = {Group}
      \/ page(target) = Admins \cap bound
      \/ page(target) = {oncall} /\ oncall \in bound
  BY DEF page
<1>4. bound \subseteq People
  BY DEF NoticeTypes
<1> QED BY <1>1, <1>2, <1>3, <1>4

LEMMA MessagesAreFew ==
  ASSUME NEW S \in SUBSET (People \cup {Group}), IsFiniteSet(S), NEW about \in Tellable
  PROVE  /\ {[to |-> p, about |-> about, loud |-> TRUE] : p \in S} \in SUBSET Message
         /\ IsFiniteSet({[to |-> p, about |-> about, loud |-> TRUE] : p \in S})
<1> DEFINE f == [p \in S |-> [to |-> p, about |-> about, loud |-> TRUE]]
           ms == {[to |-> p, about |-> about, loud |-> TRUE] : p \in S}
<1>1. f \in Surjection(S, ms)
  BY DEF Surjection
<1>2. IsFiniteSet(ms)
  BY <1>1, FS_Surjection
<1>3. \A p \in S : [to |-> p, about |-> about, loud |-> TRUE] \in Message
  <2> SUFFICES ASSUME NEW p \in S PROVE [to |-> p, about |-> about, loud |-> TRUE] \in Message
    OBVIOUS
  <2>1. p \in People \cup {Group} /\ about \in Tellable \cup {NoAlert} /\ TRUE \in BOOLEAN
    OBVIOUS
  <2> HIDE DEF f, ms
  <2> QED BY <2>1 DEF Message
<1> QED BY <1>2, <1>3

LEMMA PageTells ==
  ASSUME TellInv, NEW a \in Alerts, pageAlert(a)
  PROVE  TellsOn /\ NoticeTypes' /\ TiersTold'
<1> DEFINE due == TierDue(tickAt.plan, age[a])
           target == tickAt.plan[due].target
           ms == {[to |-> p, about |-> a, loud |-> TRUE] : p \in page(target)}
<1>1. /\ tickAt' = [tickAt EXCEPT !.todo = @ \ {a}]
      /\ UNCHANGED <<age, plan, oncall, cfgSaved, bound>>
      /\ due > sent[a] => sent' = [sent EXCEPT ![a] = due]
      /\ ~(due > sent[a]) => UNCHANGED <<sent, queueVars>>
      /\ due > sent[a] => \/ /\ target = "admins" /\ Admins \cap bound = {}
                             /\ Excuse(a) /\ UNCHANGED <<queue, sending, told>>
                          \/ ~(target = "admins" /\ Admins \cap bound = {}) /\ enqueue(ms)
  BY DEF pageAlert
<1>2. a \in Tellable /\ QueueTypes(queue, sending) /\ NoticeTypes /\ TiersTold /\ a # NoAlert
  BY NoticesAssumption DEF TellInv, Tellable
<1>3. tickAt.plan \in Seq(Tier) /\ age[a] \in Nat /\ sent[a] \in Nat
  BY <1>2 DEF NoticeTypes
<1>4. CASE ~(due > sent[a])
  <2>1. UNCHANGED queueVars /\ sent' = sent
    BY <1>1, <1>4
  <2>2. TellsOn
    BY <1>2, <2>1, QueueAlone
  <2>3. TiersTold'
    BY <1>2, <2>1, <2>2, TiersAlone DEF NoticeTypes
  <2>4. NoticeTypes'
    BY <1>1, <1>2, <2>1 DEF NoticeTypes
  <2> QED BY <2>2, <2>3, <2>4
<1>5. CASE due > sent[a]
  <2>1. due \in DOMAIN tickAt.plan /\ due \in Nat
    <3>1. due # 0 => due \in DOMAIN tickAt.plan
      BY <1>3, TierIsDue
    <3>2. due # 0
      BY <1>3, <1>5
    <3> QED BY <1>3, <3>1, <3>2
  <2>2. target \in {"group", "admins", "oncall"}
    <3>1. tickAt.plan[due] \in Tier
      BY <1>3, <2>1
    <3> QED BY <3>1 DEF Tier
  <2>3. ms \in SUBSET Message /\ IsFiniteSet(ms)
    <3>1. page(target) \in SUBSET (People \cup {Group}) /\ IsFiniteSet(page(target))
      BY <1>2, <2>2, PagesAreFew
    <3> HIDE DEF target
    <3> QED BY <1>2, <3>1, MessagesAreFew
  <2>4. TellsOn /\ IsTold(a)'
    <3>1. CASE target = "admins" /\ Admins \cap bound = {}
      <4>1. Excuse(a) /\ UNCHANGED <<queue, sending, told>>
        BY <1>1, <1>5, <3>1
      <4> QED BY <1>2, <4>1 DEF Excuse, TellsOn, QueueTypes, IsTold, Told
    <3>2. CASE ~(target = "admins" /\ Admins \cap bound = {})
      <4>1. enqueue(ms)
        BY <1>1, <1>5, <3>2
      <4>2. PICK p : p \in page(target)
        BY <2>2, <3>2 DEF page
      <4>3. [to |-> p, about |-> a, loud |-> TRUE] \in ms
        BY <4>2
      <4>4. [to |-> p, about |-> a, loud |-> TRUE].about = a
        OBVIOUS
      <4> HIDE DEF ms
      <4>5. TellsOn /\ \A m \in ms : m.about \in Tellable => Told(told', excused', queue', sending', m.about)
        BY <1>2, <2>3, <4>1, EnqueueTells
      <4> QED BY <1>2, <4>3, <4>4, <4>5 DEF IsTold
    <3> QED BY <3>1, <3>2
  <2>5. sent' = [sent EXCEPT ![a] = due]
    BY <1>1, <1>5
  <2> HIDE DEF due, ms, target
  <2>6. NoticeTypes'
    <3>1. sent' \in [Alerts -> Nat]
      BY <1>2, <2>1, <2>5 DEF NoticeTypes
    <3>2. tickAt' \in [plan : Seq(Tier), todo : SUBSET Alerts, live : SUBSET Alerts, on : BOOLEAN]
      BY <1>1, <1>2 DEF NoticeTypes
    <3> QED BY <1>1, <1>2, <3>1, <3>2 DEF NoticeTypes
  <2>7. TiersTold'
    <3>1. \A b \in Alerts \ {a} : sent'[b] = sent[b]
      BY <1>2, <2>5 DEF NoticeTypes
    <3>2. \A b \in Alerts : IsTold(b) => IsTold(b)'
      BY <2>4 DEF TellsOn, IsTold, Tellable
    <3> QED BY <1>2, <2>4, <3>1, <3>2 DEF TiersTold
  <2> QED BY <2>4, <2>6, <2>7
<1> QED BY <1>4, <1>5

(* A post about no alert.                                                  *)
LEMMA PostTells ==
  ASSUME QueueTypes(queue, sending), NEW loud \in BOOLEAN, post(loud)
  PROVE  TellsOn
<1> DEFINE ms == {[to |-> Group, about |-> NoAlert, loud |-> loud]}
<1>1. ms \in SUBSET Message /\ IsFiniteSet(ms)
  <2>1. [to |-> Group, about |-> NoAlert, loud |-> loud] \in Message
    BY DEF Message
  <2> QED BY <2>1, FS_Singleton
<1>2. enqueue(ms)
  BY DEF post
<1> HIDE DEF ms
<1> QED BY <1>1, <1>2, EnqueueTells

LEMMA ReplTells ==
  ASSUME QueueTypes(queue, sending), checkReplication \/ checkArchiver \/ replicationChanges
  PROVE  TellsOn /\ UNCHANGED oncallVars
<1>1. post(TRUE) \/ UNCHANGED queueVars
  <2>1. CASE checkReplication
    BY <2>1 DEF checkReplication
  <2>2. CASE checkArchiver
    BY <2>2 DEF checkArchiver
  <2>3. CASE replicationChanges
    BY <2>3 DEF replicationChanges
  <2> QED BY <2>1, <2>2, <2>3
<1>2. UNCHANGED oncallVars
  BY DEF checkReplication, checkArchiver, replicationChanges
<1> QED BY <1>1, <1>2, PostTells, QueueAlone

LEMMA PagingTells ==
  ASSUME TellInv, Paging, UNCHANGED watcherVars
  PROVE  TellInv'
<1>1. QueueTypes(queue, sending) /\ NoticeTypes /\ TiersTold /\ WatcherTypes /\ ProblemsTold /\ SuspectsTold
  BY DEF TellInv
<1>2. UNCHANGED <<rpkiVars, sighted>>
  BY DEF watcherVars, hijackVars
<1>3. ASSUME TellsOn, NoticeTypes', TiersTold' PROVE TellInv'
  BY <1>1, <1>2, <1>3, WatchersAlone DEF TellsOn, TellInv
<1>4. ASSUME TellsOn, UNCHANGED oncallVars PROVE TellInv'
  <2>1. \A a \in Alerts : IsTold(a) => IsTold(a)'
    BY <1>4 DEF TellsOn, IsTold, Tellable
  <2> QED BY <1>1, <1>3, <1>4, <2>1, NoticesAlone
<1>5. ASSUME UNCHANGED <<sent, queueVars>>, NoticeTypes' PROVE TellInv'
  <2>1. TellsOn
    BY <1>1, <1>5, QueueAlone
  <2> QED BY <1>1, <1>3, <1>5, <2>1, TiersAlone
<1>6. CASE OncallEvents
  <2>1. ASSUME NEW a \in Alerts, alertFires(a) \/ alertOver(a) PROVE TellInv'
    BY <1>1, <1>5, <2>1 DEF alertFires, alertOver, NoticeTypes
  <2>2. ASSUME NEW p \in Plans, NEW who \in People \cup {NoAlert}, handleOncallSet(p, who) PROVE TellInv'
    <3>1. p \in Seq(Tier)
      BY NoticesAssumption DEF Tier
    <3>2. [plan |-> p, oncall |-> who] \in [plan : Seq(Tier), oncall : People \cup {NoAlert}]
      BY <3>1
    <3> QED BY <1>1, <1>5, <2>2, <3>1, <3>2 DEF handleOncallSet, NoticeTypes
  <2>3. ASSUME currentOncall PROVE TellInv'
    BY <1>1, <1>5, <2>3 DEF currentOncall, NoticeTypes
  <2>4. ASSUME NEW who \in People, telegramBound(who) PROVE TellInv'
    BY <1>1, <1>5, <2>4 DEF telegramBound, NoticeTypes
  <2> QED BY <1>6, <2>1, <2>2, <2>3, <2>4 DEF OncallEvents
<1>7. ASSUME runLoop \/ \E m \in sending : deliver(m) PROVE TellInv'
  BY <1>1, <1>4, <1>7, SendingTells DEF runLoop, deliver
<1>8. CASE OncallWork
  <2>1. CASE minutePasses
    <3>1. age' \in [Alerts -> Nat]
      BY <1>1, <2>1 DEF minutePasses, NoticeTypes
    <3> QED BY <1>1, <1>5, <2>1, <3>1 DEF minutePasses, NoticeTypes
  <2>2. CASE tick
    <3>1. tickAt' \in [plan : Seq(Tier), todo : SUBSET Alerts, live : SUBSET Alerts, on : BOOLEAN]
      BY <1>1, <2>2 DEF tick, NoticeTypes
    <3> QED BY <1>1, <1>5, <2>2, <3>1 DEF tick, NoticeTypes
  <2>3. CASE tickEnds
    <3>1. <<>> \in Seq(Tier)
      OBVIOUS
    <3>2. NoticeTypes'
      BY <1>1, <2>3, <3>1 DEF tickEnds, NoTick, NoticeTypes
    <3>3. TellsOn
      BY <1>1, <2>3, QueueAlone DEF tickEnds
    <3>4. \A a \in Alerts : sent'[a] \in {sent[a], 0}
      BY <2>3 DEF tickEnds
    <3> QED BY <1>1, <1>3, <3>2, <3>3, <3>4, TiersAlone
  <2>4. ASSUME NEW a \in Alerts, pageAlert(a) PROVE TellInv'
    BY <1>3, <2>4, PageTells
  <2> QED BY <1>7, <1>8, <2>1, <2>2, <2>3, <2>4 DEF OncallWork
<1>9. CASE ReplWork
  BY <1>1, <1>4, <1>7, <1>9, ReplTells DEF ReplWork
<1> QED BY <1>6, <1>8, <1>9 DEF Paging

------------------------------------------------------------------------------
(* The steps of a watcher's refresh.                                       *)
NoticesTold == QueueTypes(queue, sending) /\ NoticeTypes /\ TiersTold /\ SuspectsTold

LEMMA NoticesStayTold ==
  ASSUME TellInv, UNCHANGED <<noticeVars, sighted>>
  PROVE  NoticesTold' /\ TellsOn
<1>1. TellsOn
  BY QueueAlone DEF TellInv, noticeVars
<1>2. NoticesTold'
  BY DEF TellInv, NoticesTold, noticeVars, oncallVars, queueVars, NoticeTypes, TiersTold, SuspectsTold, IsTold
<1> QED BY <1>1, <1>2

LEMMA PollTells ==
  ASSUME TellInv, NEW p \in Pollers \cup {Ticker}, NEW k \in Poll, polls' = [polls EXCEPT ![p] = k],
         validity' = validity, lastWarn' = lastWarn, UNCHANGED <<noticeVars, sighted>>,
         \/ view' = Unreached /\ polls[p].at = "idle"
         \/ view' = view /\ polls[p].at \in {"idle", "asking"}
         \/ view' = view /\ k.probs = polls[p].probs /\ k.at \in {"published", "warning"}
         \/ view' = view /\ polls[p].probs = lastWarn
         \/ view' = k.probs /\ k.at = "published"
  PROVE  TellInv'
<1>1. NoticesTold' /\ TellsOn
  BY NoticesStayTold
<1>2. polls' \in [Pollers \cup {Ticker} -> Poll] /\ polls'[p] = k /\ \A o \in Pollers \cup {Ticker} : o # p => polls'[o] = polls[o]
  BY DEF TellInv, WatcherTypes
<1>3. view' \in Problems \cup {Unreached}
  BY DEF TellInv, WatcherTypes, Poll
<1>4. WatcherTypes'
  BY <1>2, <1>3 DEF TellInv, WatcherTypes
<1>5. \A about \in Tellable : IsTold(about) => IsTold(about)'
  BY <1>1 DEF TellsOn, IsTold
<1>6. lastWarn \in Tellable /\ (view # Unreached => view \in Tellable)
  BY DEF TellInv, WatcherTypes, Tellable
<1>7. lastWarn' # {} => IsTold(lastWarn)'
  BY <1>5, <1>6 DEF TellInv, ProblemsTold
<1>8. ASSUME view' \notin {Unreached, {}} PROVE IsTold(view)' \/ Compared(view)'
  <2>1. CASE view' = k.probs /\ k.at = "published"
    BY <1>2, <2>1 DEF Compared
  <2>2. CASE view' = view /\ IsTold(view)
    BY <1>5, <1>6, <1>8, <2>2
  <2>3. CASE view' = view /\ Compared(view)
    <3>1. PICK o \in Pollers \cup {Ticker} : polls[o].at \in {"published", "warning"} /\ polls[o].probs = view
      BY <2>3 DEF Compared
    <3>2. CASE o # p
      BY <1>2, <2>3, <3>1, <3>2 DEF Compared
    <3>3. CASE o = p /\ k.probs = polls[p].probs /\ k.at \in {"published", "warning"}
      BY <1>2, <2>3, <3>1, <3>3 DEF Compared
    <3>4. CASE o = p /\ polls[p].probs = lastWarn
      BY <1>7, <1>8, <2>3, <3>1, <3>4
    <3> QED BY <1>8, <2>3, <3>1, <3>2, <3>3, <3>4, <2>1
  <2> QED BY <1>8, <2>1, <2>2, <2>3 DEF TellInv, ProblemsTold
<1>9. ProblemsTold'
  BY <1>7, <1>8 DEF ProblemsTold
<1> QED BY <1>1, <1>4, <1>9 DEF TellInv, NoticesTold

(* Forgetting a set of problems, or a suspect, forgets nothing else.       *)
LEMMA ForgetTells ==
  ASSUME QueueTypes(queue, sending), NEW about, Forget(about), UNCHANGED <<queue, sending>>
  PROVE  /\ QueueTypes(queue', sending')
         /\ \A o : o # about => (IsTold(o) => IsTold(o)')
BY DEF Forget, QueueTypes, IsTold, Told

LEMMA WarnTells ==
  ASSUME TellInv, NEW p \in Pollers \cup {Ticker}, maybeAlertRPKI(p)
  PROVE  TellInv'
<1> DEFINE probs == polls[p].probs
           ms == {[to |-> Group, about |-> probs, loud |-> TRUE]}
<1>1. /\ polls[p].at = "warning" /\ polls' = [polls EXCEPT ![p] = NoPoll] /\ lastWarn' = probs
      /\ UNCHANGED <<validity, view, sighted, oncallVars>>
      /\ \/ probs = {} /\ view = {} /\ Forget(lastWarn) /\ UNCHANGED <<queue, sending>>
         \/ probs = {} /\ view # {} /\ UNCHANGED queueVars
         \/ probs # {} /\ enqueue(ms)
  BY DEF maybeAlertRPKI, refreshEnds, hijackVars, queueVars
<1>2. QueueTypes(queue, sending) /\ NoticeTypes /\ TiersTold /\ WatcherTypes /\ ProblemsTold /\ SuspectsTold
  BY DEF TellInv
<1>3. NoPoll \in Poll /\ polls[p] \in Poll
  BY <1>2 DEF NoPoll, Poll, Problems, WatcherTypes
<1>4. probs \in Problems
  BY <1>3 DEF Poll
<1>5. WatcherTypes'
  <2>1. polls' \in [Pollers \cup {Ticker} -> Poll]
    BY <1>1, <1>2, <1>3 DEF WatcherTypes
  <2> QED BY <1>1, <1>2, <1>4, <2>1 DEF WatcherTypes
<1>6. \A o \in Pollers \cup {Ticker} : o # p => polls'[o] = polls[o]
  BY <1>1, <1>2 DEF WatcherTypes
<1>7. CASE probs = {} /\ view = {} /\ Forget(lastWarn) /\ UNCHANGED <<queue, sending>>
  <2>1. lastWarn \notin Alerts \cup Suspects
    BY <1>2, WatchersAssumption DEF WatcherTypes
  <2>2. QueueTypes(queue', sending') /\ \A o \in Alerts \cup Suspects : IsTold(o) => IsTold(o)'
    BY <1>2, <1>7, <2>1, ForgetTells
  <2>3. NoticeTypes' /\ TiersTold'
    BY <1>1, <1>2, <2>2, NoticesAlone
  <2>4. SuspectsTold'
    BY <1>1, <1>2, <2>2 DEF SuspectsTold
  <2>5. ProblemsTold'
    BY <1>1, <1>7 DEF ProblemsTold
  <2> QED BY <1>5, <2>2, <2>3, <2>4, <2>5 DEF TellInv
<1>8. CASE (probs = {} /\ view # {} /\ UNCHANGED queueVars) \/ (probs # {} /\ enqueue(ms))
  <2>1. TellsOn /\ (probs # {} => Told(told', excused', queue', sending', probs))
    <3>1. CASE probs = {} /\ UNCHANGED queueVars
      BY <1>2, <3>1, QueueAlone
    <3>2. CASE probs # {} /\ enqueue(ms)
      <4>1. [to |-> Group, about |-> probs, loud |-> TRUE] \in Message /\ probs \in Tellable
        BY <1>4 DEF Message, Tellable
      <4>2. ms \in SUBSET Message /\ IsFiniteSet(ms) /\ [to |-> Group, about |-> probs, loud |-> TRUE] \in ms
        BY <4>1, FS_Singleton
      <4>3. [to |-> Group, about |-> probs, loud |-> TRUE].about = probs /\ enqueue(ms)
        BY <3>2
      <4> HIDE DEF ms, probs
      <4>4. TellsOn /\ \A m \in ms : m.about \in Tellable => Told(told', excused', queue', sending', m.about)
        BY <1>2, <4>2, <4>3, EnqueueTells
      <4> QED BY <4>1, <4>2, <4>3, <4>4 DEF IsTold
    <3> QED BY <1>8, <3>1, <3>2
  <2>2. \A about \in Tellable : IsTold(about) => IsTold(about)'
    BY <2>1 DEF TellsOn, IsTold
  <2>3. NoticeTypes' /\ TiersTold'
    BY <1>1, <1>2, <2>2, NoticesAlone DEF Tellable
  <2>4. SuspectsTold'
    BY <1>1, <1>2, <2>2 DEF SuspectsTold, Tellable
  <2>5. ASSUME view' \notin {Unreached, {}} PROVE IsTold(view)' \/ Compared(view)'
    <3>1. view' = view /\ view \in Tellable
      BY <1>1, <1>2, <2>5 DEF WatcherTypes, Tellable
    <3>2. CASE IsTold(view)
      BY <2>2, <3>1, <3>2
    <3>3. CASE Compared(view)
      <4>1. PICK o \in Pollers \cup {Ticker} : polls[o].at \in {"published", "warning"} /\ polls[o].probs = view
        BY <3>3 DEF Compared
      <4>2. CASE o = p
        BY <2>1, <2>5, <3>1, <4>1, <4>2 DEF IsTold
      <4>3. CASE o # p
        BY <1>6, <3>1, <4>1, <4>3 DEF Compared
      <4> QED BY <4>2, <4>3
    <3> QED BY <1>2, <2>5, <3>1, <3>2, <3>3 DEF ProblemsTold
  <2>6. ProblemsTold'
    BY <1>1, <2>1, <2>5 DEF ProblemsTold, IsTold
  <2> QED BY <1>5, <2>1, <2>3, <2>4, <2>6 DEF TellInv, TellsOn
<1> QED BY <1>1, <1>7, <1>8

LEMMA RefreshTells ==
  ASSUME TellInv, NEW p \in Pollers \cup {Ticker},
         announced(p) \/ publish(p) \/ compareWarn(p) \/ \E x \in Nets : validityOf(p, x)
  PROVE  TellInv'
<1> DEFINE k == polls[p]
<1>1. k \in Poll /\ NoPoll \in Poll
  BY DEF TellInv, WatcherTypes, NoPoll, Poll, Problems
<1>2. CASE announced(p)
  <2>1. [at |-> "asking", left |-> Nets, probs |-> {}] \in Poll
    BY DEF Poll, Problems
  <2>2. k.at = "idle" /\ UNCHANGED <<validity, lastWarn, sighted, noticeVars>>
    BY <1>2 DEF announced, hijackVars
  <2>3. \/ view' = Unreached /\ polls' = [polls EXCEPT ![p] = NoPoll]
        \/ view' = view /\ polls' = [polls EXCEPT ![p] = [at |-> "asking", left |-> Nets, probs |-> {}]]
    BY <1>2 DEF announced, refreshEnds
  <2> QED BY <1>1, <2>1, <2>2, <2>3, PollTells
<1>3. ASSUME NEW x \in Nets, validityOf(p, x) PROVE TellInv'
  <2>1. PICK v \in {validity[x], "unknown"} :
          polls' = [polls EXCEPT ![p].left = @ \ {x}, ![p].probs = IF v = "valid" THEN @ ELSE @ \cup {<<x, v>>}]
    BY <1>3 DEF validityOf
  <2>2. v \in Validities
    BY DEF TellInv, WatcherTypes, Validities
  <2> DEFINE found == IF v = "valid" THEN k.probs ELSE k.probs \cup {<<x, v>>}
             left == k.left \ {x}
             asked == [k EXCEPT !.left = left, !.probs = found]
  <2>3. found \in Problems /\ left \in SUBSET Nets
    BY <1>1, <2>2 DEF Poll, Problems
  <2>4. polls' = [polls EXCEPT ![p] = asked]
    BY <2>1
  <2> HIDE DEF found, left
  <2>5. asked \in Poll
    BY <1>1, <2>3 DEF Poll
  <2> HIDE DEF asked
  <2>6. k.at = "asking" /\ view' = view /\ UNCHANGED <<validity, lastWarn, sighted, noticeVars>>
    BY <1>3 DEF validityOf, hijackVars
  <2> QED BY <2>4, <2>5, <2>6, PollTells
<1>4. CASE publish(p)
  <2> DEFINE shown == [k EXCEPT !.at = "published"]
  <2>1. shown \in Poll /\ shown.probs = k.probs /\ shown.at = "published"
    BY <1>1 DEF Poll
  <2>2. polls' = [polls EXCEPT ![p] = shown]
    BY <1>4 DEF publish
  <2> HIDE DEF shown
  <2>3. k.at = "asking" /\ view' = shown.probs /\ UNCHANGED <<validity, lastWarn, sighted, noticeVars>>
    BY <1>4, <2>1 DEF publish, hijackVars
  <2> QED BY <2>1, <2>2, <2>3, PollTells
<1>5. CASE compareWarn(p)
  <2>1. k.at = "published" /\ view' = view /\ UNCHANGED <<validity, lastWarn, sighted, noticeVars>>
    BY <1>5 DEF compareWarn, hijackVars
  <2>2. CASE k.probs = lastWarn
    <3>1. polls' = [polls EXCEPT ![p] = NoPoll]
      BY <1>5, <2>2 DEF compareWarn, refreshEnds
    <3> QED BY <1>1, <2>1, <2>2, <3>1, PollTells
  <2>3. CASE k.probs # lastWarn
    <3> DEFINE warned == [k EXCEPT !.at = "warning"]
    <3>1. warned \in Poll /\ warned.probs = k.probs /\ warned.at = "warning"
      BY <1>1 DEF Poll
    <3>2. polls' = [polls EXCEPT ![p] = warned]
      BY <1>5, <2>3 DEF compareWarn
    <3> HIDE DEF warned
    <3> QED BY <2>1, <3>1, <3>2, PollTells
  <2> QED BY <2>2, <2>3
<1> QED BY <1>2, <1>3, <1>4, <1>5

(* The steps of the hijack monitor.                                        *)
LEMMA HijackTells ==
  ASSUME TellInv, NEW s \in Suspects, handleMessage(s) \/ sixHoursPass(s)
  PROVE  TellInv'
<1>1. QueueTypes(queue, sending) /\ NoticeTypes /\ TiersTold /\ WatcherTypes /\ ProblemsTold /\ SuspectsTold
  BY DEF TellInv
<1>2. UNCHANGED <<rpkiVars, oncallVars>>
  BY DEF handleMessage, flag, sixHoursPass
<1>3. UNCHANGED <<validity, polls, view, lastWarn>>
  BY <1>2 DEF rpkiVars
<1>4. CASE sixHoursPass(s)
  <2>1. /\ sighted' = [sighted EXCEPT ![s] = "old"] /\ Forget(s) /\ UNCHANGED <<queue, sending>>
    BY <1>4 DEF sixHoursPass
  <2>2. QueueTypes(queue', sending') /\ \A o : o # s => (IsTold(o) => IsTold(o)')
    BY <1>1, <2>1, ForgetTells
  <2>3. s \notin Alerts /\ s \notin Problems
    BY WatchersAssumption
  <2>4. sighted' \in [Suspects -> {"never", "recent", "old"}] /\ \A o \in Suspects : sighted'[o] = "recent" => o # s /\ sighted[o] = "recent"
    BY <1>1, <2>1 DEF WatcherTypes
  <2>5. WatcherTypes'
    BY <1>1, <1>3, <2>4 DEF WatcherTypes
  <2>6. NoticeTypes' /\ TiersTold'
    BY <1>1, <1>2, <2>2, <2>3, NoticesAlone
  <2>7. SuspectsTold'
    BY <1>1, <2>2, <2>4 DEF SuspectsTold
  <2>8. ProblemsTold'
    <3>1. lastWarn # s /\ (view # Unreached => view # s)
      BY <1>1, <2>3 DEF WatcherTypes
    <3>2. Compared(view) => Compared(view)'
      BY <1>3 DEF Compared
    <3>3. (IsTold(lastWarn) => IsTold(lastWarn)') /\ (view # Unreached => (IsTold(view) => IsTold(view)'))
      BY <1>3, <2>2, <3>1 DEF IsTold
    <3> QED BY <1>1, <1>3, <3>2, <3>3 DEF ProblemsTold
  <2> QED BY <2>2, <2>5, <2>6, <2>7, <2>8 DEF TellInv
<1>5. CASE flag(s)
  <2> DEFINE ms == {[to |-> Group, about |-> s, loud |-> TRUE]}
  <2>1. PICK stale \in SUBSET {o \in Suspects \ {s} : sighted[o] = "old"} :
          sighted' = [o \in Suspects |-> IF o = s THEN "recent" ELSE IF o \in stale THEN "never" ELSE sighted[o]]
    BY <1>5 DEF flag
  <2>2. \/ sighted[s] = "recent" /\ UNCHANGED queueVars
        \/ sighted[s] # "recent" /\ enqueue(ms)
    BY <1>5 DEF flag
  <2>3. sighted' \in [Suspects -> {"never", "recent", "old"}] /\ \A o \in Suspects : sighted'[o] = "recent" => o = s \/ sighted[o] = "recent"
    BY <1>1, <2>1 DEF WatcherTypes
  <2>4. s \in Tellable
    BY DEF Tellable
  <2>5. TellsOn /\ IsTold(s)'
    <3>1. CASE sighted[s] = "recent" /\ UNCHANGED queueVars
      <4>1. TellsOn /\ IsTold(s)
        BY <1>1, <3>1, QueueAlone DEF SuspectsTold
      <4> QED BY <2>4, <4>1 DEF TellsOn, IsTold
    <3>2. CASE enqueue(ms)
      <4>1. [to |-> Group, about |-> s, loud |-> TRUE] \in Message
        BY <2>4 DEF Message
      <4>2. ms \in SUBSET Message /\ IsFiniteSet(ms) /\ [to |-> Group, about |-> s, loud |-> TRUE] \in ms
        BY <4>1, FS_Singleton
      <4>3. [to |-> Group, about |-> s, loud |-> TRUE].about = s /\ enqueue(ms)
        BY <3>2
      <4> HIDE DEF ms
      <4>4. TellsOn /\ \A m \in ms : m.about \in Tellable => Told(told', excused', queue', sending', m.about)
        BY <1>1, <4>2, <4>3, EnqueueTells
      <4> QED BY <2>4, <4>2, <4>3, <4>4 DEF IsTold
    <3> QED BY <2>2, <3>1, <3>2
  <2>6. \A o \in Tellable : IsTold(o) => IsTold(o)'
    BY <2>5 DEF TellsOn, IsTold
  <2>7. WatcherTypes'
    BY <1>1, <1>3, <2>3 DEF WatcherTypes
  <2>8. NoticeTypes' /\ TiersTold'
    BY <1>1, <1>2, <2>6, NoticesAlone DEF Tellable
  <2>9. SuspectsTold'
    <3> SUFFICES ASSUME NEW o \in Suspects, sighted'[o] = "recent" PROVE IsTold(o)'
      BY DEF SuspectsTold
    <3>1. o = s \/ (sighted[o] = "recent" /\ o \in Tellable)
      BY <2>3 DEF Tellable
    <3> QED BY <1>1, <2>5, <2>6, <3>1 DEF SuspectsTold
  <2>10. ProblemsTold'
    <3>1. lastWarn \in Tellable /\ (view # Unreached => view \in Tellable)
      BY <1>1 DEF WatcherTypes, Tellable
    <3>2. Compared(view) => Compared(view)'
      BY <1>3 DEF Compared
    <3>3. (IsTold(lastWarn) => IsTold(lastWarn)') /\ (view # Unreached => (IsTold(view) => IsTold(view)'))
      BY <1>3, <2>6, <3>1
    <3> QED BY <1>1, <1>3, <3>2, <3>3 DEF ProblemsTold
  <2> QED BY <2>5, <2>7, <2>8, <2>9, <2>10 DEF TellInv, TellsOn
<1> QED BY <1>4, <1>5 DEF handleMessage

LEMMA WatchingTells ==
  ASSUME TellInv, Watching
  PROVE  TellInv'
<1>1. ASSUME UNCHANGED <<rpkiVars, sighted, noticeVars>> PROVE TellInv'
  <2>1. TellsOn /\ NoticesTold'
    BY <1>1, NoticesStayTold
  <2>2. WatcherTypes' /\ ProblemsTold'
    BY <1>1, <2>1, WatchersAlone DEF TellInv
  <2> QED BY <2>1, <2>2 DEF TellInv, NoticesTold
<1>2. CASE RpkiEvents
  <2>1. ASSUME NEW x \in Nets, NEW v \in Validities, roaChanges(x, v) PROVE TellInv'
    <3>1. TellsOn /\ NoticesTold'
      BY <2>1, NoticesStayTold DEF roaChanges, hijackVars
    <3>2. UNCHANGED <<polls, view, lastWarn, sighted>> /\ validity' \in [Nets -> Validities]
      BY <2>1 DEF roaChanges, hijackVars, TellInv, WatcherTypes
    <3>3. WatcherTypes'
      BY <3>2 DEF TellInv, WatcherTypes
    <3>4. lastWarn \in Tellable /\ (view # Unreached => view \in Tellable)
      BY DEF TellInv, WatcherTypes, Tellable
    <3>5. ProblemsTold'
      BY <3>1, <3>2, <3>4 DEF TellInv, ProblemsTold, TellsOn, IsTold, Compared
    <3> QED BY <3>1, <3>3, <3>5 DEF TellInv, NoticesTold
  <2> QED BY <1>2, <2>1, RefreshTells DEF RpkiEvents
<1>3. CASE Sending
  <2>1. (runLoop \/ \E m \in sending : deliver(m)) /\ UNCHANGED watcherVars
    BY <1>3 DEF Sending
  <2>2. OncallWork
    BY <2>1 DEF OncallWork
  <2> QED BY <2>1, <2>2, PagingTells DEF Paging
<1>4. CASE RpkiWork
  BY <1>3, <1>4, RefreshTells, WarnTells DEF RpkiWork
<1>5. ASSUME \/ tickerReset
             \/ \E s \in Setters : persistInterval(s) \/ \E d : setInterval(s, d)
      PROVE  TellInv'
  BY <1>1, <1>5 DEF tickerReset, persistInterval, setInterval, hijackVars
<1>6. CASE TickerEvents \/ TickerWork
  BY <1>5, <1>6, RefreshTells, WarnTells DEF TickerEvents, TickerWork
<1>7. CASE HijackEvents
  BY <1>1, <1>7 DEF HijackEvents, sessionFails, sessionStarts, sessionEnds
<1>8. CASE HijackWork
  BY <1>3, <1>8, HijackTells DEF HijackWork
<1> QED BY <1>2, <1>4, <1>6, <1>7, <1>8 DEF Watching

LEMMA RestartTells ==
  ASSUME TellInv, WatchersRestart
  PROVE  TellInv'
<1>1. QueueTypes(queue, sending)'
  BY DEF WatchersRestart, NoticesRestart, QueueTypes
<1>2. NoticeTypes'
  <2>1. <<>> \in Seq(Tier)
    OBVIOUS
  <2> QED BY <2>1 DEF TellInv, WatchersRestart, NoticesRestart, NoticeTypes, NoTick
<1>3. WatcherTypes'
  BY DEF TellInv, WatchersRestart, WatcherTypes, NoPoll, Poll, Problems
<1>4. TiersTold' /\ ProblemsTold' /\ SuspectsTold'
  BY DEF WatchersRestart, NoticesRestart, TiersTold, ProblemsTold, SuspectsTold
<1> QED BY <1>1, <1>2, <1>3, <1>4 DEF TellInv

(* What the console marks as told was told, or is about to be, whatever    *)
(* the operators, the routes, the queue and Telegram do, over restarts.    *)
THEOREM WarningsArrive == ConsoleSpec => []MarkedIsTold
<1>1. ConsoleInit => TellInv
  BY TellInitInv DEF ConsoleInit
<1>2. TellInv /\ [ConsoleNext]_<<measureVars, documentVars, noticeVars, watcherVars>> => TellInv'
  <2> SUFFICES ASSUME TellInv, [ConsoleNext]_<<measureVars, documentVars, noticeVars, watcherVars>> PROVE TellInv'
    OBVIOUS
  <2>1. ASSUME UNCHANGED <<noticeVars, watcherVars>> PROVE TellInv'
    <3>1. TellsOn /\ NoticesTold'
      BY <2>1, NoticesStayTold DEF watcherVars, hijackVars
    <3>2. WatcherTypes' /\ ProblemsTold'
      BY <2>1, <3>1, WatchersAlone DEF TellInv, watcherVars, hijackVars
    <3> QED BY <3>1, <3>2 DEF TellInv, NoticesTold
  <2> QED BY <2>1, PagingTells, WatchingTells, RestartTells
       DEF ConsoleNext, ConsoleRestart, otherThanMeasures, otherThanDocuments
<1> QED BY <1>1, <1>2, TellInvTells, PTL DEF ConsoleSpec
------------------------------------------------------------------------------
(* The newest first: there is such a sequence of every set of events.      *)
Descending(f) == \A i, j \in DOMAIN f : i < j => f[i] > f[j]

LEMMA EventsCanBeSorted ==
  ASSUME NEW n \in Nat, NEW evs \in SUBSET (1 .. n)
  PROVE  \E f \in [1 .. Cardinality(evs) -> evs] : Descending(f)
<1> DEFINE Sortable(S) == \E f \in [1 .. Cardinality(S) -> S] : Descending(f)
           T == {k \in Nat : \E S \in SUBSET (1 .. n) : Cardinality(S) = k /\ ~ Sortable(S)}
<1>1. \A S \in SUBSET (1 .. n) : IsFiniteSet(S) /\ Cardinality(S) \in Nat
  <2>1. IsFiniteSet(1 .. n)
    BY FS_Interval
  <2> QED BY <2>1, FS_Subset, FS_CardinalityType
<1> SUFFICES ASSUME T # {} PROVE FALSE
  BY <1>1
<1>2. PICK k \in T : \A j \in T : k <= j
  BY LeastElement
<1>3. PICK S \in SUBSET (1 .. n) : Cardinality(S) = k /\ ~ Sortable(S)
  BY <1>2
<1>4. k \in Nat /\ IsFiniteSet(S)
  BY <1>1, <1>2
<1>5. S # {}
  <2> SUFFICES ASSUME S = {} PROVE Sortable(S)
    BY <1>3
  <2>1. Cardinality(S) = 0
    BY FS_EmptySet
  <2> DEFINE f == [i \in 1 .. 0 |-> i]
  <2>2. f \in [1 .. 0 -> S] /\ Descending(f)
    BY DEF Descending
  <2> QED BY <2>1, <2>2
<1>6. PICK m \in S : \A e \in S : m <= e
  <2>1. S \in SUBSET Nat
    OBVIOUS
  <2> QED BY <1>5, <2>1, LeastElement
<1>7. Cardinality(S \ {m}) = k - 1 /\ k - 1 \in Nat
  <2>1. Cardinality(S \ {m}) = k - 1
    BY <1>3, <1>4, <1>6, FS_RemoveElement
  <2>2. S \ {m} \in SUBSET (1 .. n)
    OBVIOUS
  <2> QED BY <1>1, <2>1, <2>2
<1>8. Sortable(S \ {m})
  <2>1. k - 1 \notin T
    BY <1>2, <1>4, <1>7
  <2>2. S \ {m} \in SUBSET (1 .. n)
    OBVIOUS
  <2> QED BY <1>7, <2>1, <2>2
<1>9. PICK f \in [1 .. k - 1 -> S \ {m}] : Descending(f)
  BY <1>7, <1>8
<1> DEFINE g == [i \in 1 .. k |-> IF i = k THEN m ELSE f[i]]
<1>10. \A i \in 1 .. k : i = k \/ i \in 1 .. k - 1
  BY <1>4
<1>11. \A i \in 1 .. k - 1 : f[i] \in S /\ f[i] # m /\ f[i] > m
  <2> SUFFICES ASSUME NEW i \in 1 .. k - 1 PROVE f[i] \in S /\ f[i] # m /\ f[i] > m
    OBVIOUS
  <2>1. f[i] \in S /\ f[i] # m
    BY <1>9
  <2>2. m <= f[i] /\ m \in S
    BY <1>6, <2>1
  <2>3. S \subseteq Nat
    OBVIOUS
  <2>4. m \in Nat /\ f[i] \in Nat
    BY <2>1, <2>2, <2>3
  <2> QED BY <2>1, <2>2, <2>4
<1>12. g \in [1 .. k -> S]
  BY <1>6, <1>10, <1>11
<1>13. Descending(g)
  <2> SUFFICES ASSUME NEW i \in 1 .. k, NEW j \in 1 .. k, i < j PROVE g[i] > g[j]
    BY DEF Descending
  <2>1. i \in 1 .. k - 1 /\ g[i] = f[i]
    BY <1>4
  <2>2. CASE j = k
    BY <1>11, <2>1, <2>2
  <2>3. CASE j # k
    <3>1. j \in 1 .. k - 1 /\ g[j] = f[j]
      BY <1>10, <2>3
    <3> QED BY <1>9, <2>1, <3>1 DEF Descending
  <2> QED BY <2>2, <2>3
<1> QED BY <1>3, <1>12, <1>13

LEMMA NewestComeFirst ==
  ASSUME NEW n \in Nat, NEW evs \in SUBSET (1 .. n)
  PROVE  /\ NewestFirst(evs) \in Seq(Nat) /\ Descending(NewestFirst(evs))
         /\ Range(NewestFirst(evs)) = evs
<1> DEFINE f == NewestFirst(evs)
           k == Cardinality(evs)
<1>0. evs \subseteq Nat
  OBVIOUS
<1>1. IsFiniteSet(evs) /\ k \in Nat
  <2>1. IsFiniteSet(1 .. n)
    BY FS_Interval
  <2> QED BY <2>1, FS_Subset, FS_CardinalityType
<1>2. f \in [1 .. k -> evs] /\ Descending(f)
  <2>1. \E g \in [1 .. k -> evs] : \A i, j \in DOMAIN g : i < j => g[i] > g[j]
    BY EventsCanBeSorted DEF Descending
  <2> QED BY <2>1 DEF NewestFirst, Descending
<1> HIDE DEF f
<1>3. f \in Injection(1 .. k, evs)
  <2> SUFFICES ASSUME NEW i \in 1 .. k, NEW j \in 1 .. k, f[i] = f[j], i # j PROVE FALSE
    BY <1>2 DEF Injection, IsInjective
  <2>1. f[i] \in Nat /\ f[j] \in Nat /\ i \in DOMAIN f /\ j \in DOMAIN f
    BY <1>0, <1>2
  <2>2. i < j \/ j < i
    BY <1>1
  <2>3. f[i] > f[j] \/ f[j] > f[i]
    BY <1>2, <2>1, <2>2 DEF Descending
  <2> QED BY <2>1, <2>3
<1>4. Cardinality(1 .. k) = Cardinality(evs) /\ IsFiniteSet(1 .. k)
  BY <1>1, FS_Interval
<1>5. f \in Surjection(1 .. k, evs)
  BY <1>1, <1>3, <1>4, FS_Injection
<1>6. Range(f) = evs
  BY <1>2, <1>5 DEF Surjection, Range
<1>7. f \in Seq(Nat)
  <2>1. \A i \in 1 .. k : f[i] \in evs
    BY <1>2
  <2>2. \A i \in 1 .. k : f[i] \in Nat
    BY <1>0, <2>1
  <2>3. f \in [1 .. k -> Nat]
    BY <1>2, <2>2
  <2> HIDE DEF k
  <2> QED BY <1>1, <2>3
<1> QED BY <1>2, <1>6, <1>7 DEF f

(* A page put behind others that are all newer.                            *)
Between(all, first, last) == SubSeq(all, first + 1, last)

LEMMA PageFollows ==
  ASSUME NEW all \in Seq(Nat), Descending(all), NEW before \in Seq(Nat), Descending(before),
         NEW first \in 0 .. Len(all), NEW last \in first .. Len(all),
         \A i \in 1 .. Len(before), j \in first + 1 .. Len(all) : before[i] > all[j]
  PROVE  /\ before \o Between(all, first, last) \in Seq(Nat) /\ Descending(before \o Between(all, first, last))
         /\ Range(before \o Between(all, first, last)) = Range(before) \cup {all[j] : j \in first + 1 .. last}
         /\ last > first => Between(all, first, last)[Len(Between(all, first, last))] = all[last]
<1> DEFINE next == Between(all, first, last)
           given == before \o next
           k == last - first
<1>1. k \in Nat /\ first \in Nat /\ last \in Nat /\ last <= Len(all) /\ Len(all) \in Nat /\ Len(before) \in Nat
  OBVIOUS
<1>2. next \in Seq(Nat) /\ Len(next) = k /\ \A i \in 1 .. k : next[i] = all[first + i]
  <2>1. CASE k = 0
    <3>1. next = <<>>
      BY <1>1, <2>1 DEF Between
    <3> QED BY <2>1, <3>1
  <2>2. CASE k # 0
    BY <1>1, <2>2 DEF Between
  <2> QED BY <2>1, <2>2
<1> HIDE DEF next
<1>3. \A i \in 1 .. k : first + i \in first + 1 .. last /\ first + i \in 1 .. Len(all)
  BY <1>1
<1>4. \A j \in first + 1 .. last : j - first \in 1 .. k /\ next[j - first] = all[j]
  BY <1>1, <1>2
<1>5. given \in Seq(Nat) /\ Len(given) = Len(before) + k /\ DOMAIN given = 1 .. Len(given)
  <2>1. next \in Seq(Nat) /\ Len(next) = k
    BY <1>2
  <2> HIDE DEF k
  <2>2. given \in Seq(Nat) /\ Len(given) = Len(before) + Len(next)
    BY <2>1, ConcatProperties
  <2> HIDE DEF given
  <2> QED BY <2>1, <2>2
<1>6. \A i \in 1 .. Len(given) : \/ i \in 1 .. Len(before) /\ given[i] = before[i]
                                 \/ i - Len(before) \in 1 .. k /\ given[i] = next[i - Len(before)]
  BY <1>1, <1>2, <1>5
<1>7. Descending(given)
  <2> SUFFICES ASSUME NEW i \in 1 .. Len(given), NEW j \in 1 .. Len(given), i < j PROVE given[i] > given[j]
    BY <1>5 DEF Descending
  <2>1. CASE i \in 1 .. Len(before) /\ j \in 1 .. Len(before)
    <3>1. given[i] = before[i] /\ given[j] = before[j]
      BY <1>2, <2>1
    <3> QED BY <2>1, <3>1 DEF Descending
  <2>2. CASE i \in 1 .. Len(before) /\ j \notin 1 .. Len(before)
    <3>1. given[i] = before[i]
      BY <1>2, <2>2
    <3>2. j - Len(before) \in 1 .. k /\ given[j] = all[first + (j - Len(before))]
      BY <1>2, <1>6, <2>2
    <3>3. first + (j - Len(before)) \in first + 1 .. Len(all)
      BY <1>1, <3>2
    <3> QED BY <2>2, <3>1, <3>2, <3>3
  <2>3. CASE i \notin 1 .. Len(before)
    <3>1. i - Len(before) \in 1 .. k /\ given[i] = all[first + (i - Len(before))]
      BY <1>2, <1>6, <2>3
    <3>2. j \notin 1 .. Len(before)
      BY <1>1, <1>5, <2>3
    <3>3. j - Len(before) \in 1 .. k /\ given[j] = all[first + (j - Len(before))]
      BY <1>2, <1>6, <3>2
    <3>4. first + (i - Len(before)) < first + (j - Len(before))
      BY <1>1, <1>5
    <3>5. first + (i - Len(before)) \in 1 .. Len(all) /\ first + (j - Len(before)) \in 1 .. Len(all)
      BY <1>3, <3>1, <3>3
    <3>6. all[first + (i - Len(before))] > all[first + (j - Len(before))]
      BY <3>4, <3>5 DEF Descending
    <3> QED BY <3>1, <3>3, <3>6
  <2> QED BY <2>1, <2>2, <2>3
<1>8. Range(next) = {all[j] : j \in first + 1 .. last}
  <2>1. DOMAIN next = 1 .. k
    BY <1>2
  <2>2. Range(next) \subseteq {all[j] : j \in first + 1 .. last}
    BY <1>2, <1>3, <2>1 DEF Range
  <2>3. {all[j] : j \in first + 1 .. last} \subseteq Range(next)
    BY <1>4, <2>1 DEF Range
  <2> QED BY <2>2, <2>3
<1>9. Range(given) = Range(before) \cup Range(next)
  BY <1>2, RangeConcatenation
<1>10. last > first => next[Len(next)] = all[last]
  BY <1>1, <1>2, <1>4
<1> QED BY <1>5, <1>7, <1>8, <1>9, <1>10 DEF next

------------------------------------------------------------------------------
(* What a reader was given so far: the newest first, down to the cursor.   *)
GivenSoFar ==
    /\ walk.at \in {"reading", "done"}
    /\ walk.pages \in Seq(Nat) /\ Descending(walk.pages) /\ walk.there \subseteq match(auditDB)
    /\ walk.at = "reading" =>
         /\ walk.cursor \in match(auditDB)
         /\ \A i \in 1 .. Len(walk.pages) : walk.pages[i] >= walk.cursor
         /\ \A e \in walk.there : e >= walk.cursor => e \in Range(walk.pages)
    /\ walk.at = "done" => walk.there \subseteq Range(walk.pages)

AuditInv ==
    /\ auditDB \subseteq Events
    /\ walk = [at |-> walk.at, cursor |-> walk.cursor, pages |-> walk.pages, there |-> walk.there, dbOnly |-> walk.dbOnly]
    /\ walk.at = "none" => walk = NoWalk
    /\ walk.at # "none" /\ walk.dbOnly => GivenSoFar

LEMMA AuditInvWalks == AuditInv => WalksAreComplete
<1> SUFFICES ASSUME AuditInv, walk.at = "done", walk.dbOnly
             PROVE  walk.there \subseteq Range(walk.pages) /\ IsInjective(walk.pages)
  BY DEF WalksAreComplete
<1>1. GivenSoFar
  BY DEF AuditInv
<1>2. walk.there \subseteq Range(walk.pages) /\ walk.pages \in Seq(Nat) /\ Descending(walk.pages)
  BY <1>1 DEF GivenSoFar
<1>3. ASSUME NEW i \in DOMAIN walk.pages, NEW j \in DOMAIN walk.pages, walk.pages[i] = walk.pages[j], i # j PROVE FALSE
  <2>1. i \in Nat /\ j \in Nat /\ walk.pages[i] \in Nat /\ walk.pages[j] \in Nat
    BY <1>2
  <2>2. i < j \/ j < i
    BY <1>3, <2>1
  <2>3. walk.pages[i] > walk.pages[j] \/ walk.pages[j] > walk.pages[i]
    BY <1>2, <2>2 DEF Descending
  <2> QED BY <1>3, <2>1, <2>3
<1> QED BY <1>2, <1>3 DEF IsInjective

(* The next page: what is older than the cursor, from PostgreSQL.          *)
LEMMA NextPage ==
  ASSUME AuditInv, walk.at \in {"none", "reading"}, walk.dbOnly, auditQuery(auditDB, TRUE), UNCHANGED auditDB
  PROVE  GivenSoFar'
<1> DEFINE evs == match(auditDB)
           all == NewestFirst(evs)
           first == PageStart(all, walk.cursor)
           last == PageEnd(all, first)
           next == Between(all, first, last)
           given == walk.pages \o next
<1>1. /\ walk'.at = (IF last < Len(all) THEN "reading" ELSE "done")
      /\ walk'.cursor = (IF last < Len(all) THEN next[Len(next)] ELSE 0)
      /\ walk'.pages = given
      /\ walk'.there = (IF walk.at = "none" THEN evs ELSE walk.there)
  BY DEF auditQuery, Between
<1>2. match(auditDB)' = evs
  BY DEF match
<1>3. evs \subseteq 1 .. MaxAudited /\ evs \subseteq Nat /\ 0 \notin evs /\ MaxAudited \in Nat /\ auditLimit \in Nat \ {0}
  BY AuditLogAssumption DEF AuditInv, Events, match
<1>4. all \in Seq(Nat) /\ Descending(all) /\ Range(all) = evs
  BY <1>3, NewestComeFirst
<1>5. \/ walk.at = "none" /\ walk.cursor = 0 /\ walk.pages = <<>>
      \/ walk.at = "reading" /\ GivenSoFar
  BY DEF AuditInv, NoWalk
<1> HIDE DEF evs, all
<1>6. /\ first \in 0 .. Len(all)
      /\ walk.at = "none" => first = 0
      /\ walk.at = "reading" => first \in 1 .. Len(all) /\ all[first] = walk.cursor
  <2>1. CASE walk.at = "none"
    <3>1. first = 0
      BY <1>3, <1>4, <1>5, <2>1 DEF PageStart
    <3> QED BY <1>4, <2>1, <3>1
  <2>2. CASE walk.at = "reading"
    <3>1. walk.cursor \in Range(all)
      BY <1>4, <1>5, <2>2 DEF GivenSoFar, evs
    <3>2. first \in DOMAIN all /\ all[first] = walk.cursor
      BY <3>1 DEF PageStart, Range
    <3>3. DOMAIN all = 1 .. Len(all)
      BY <1>4
    <3> HIDE DEF first
    <3> QED BY <2>2, <3>2, <3>3
  <2> QED BY <2>1, <2>2
<1> HIDE DEF first
<1>7. last \in first .. Len(all) /\ (last < Len(all) => last > first)
  BY <1>3, <1>4, <1>6 DEF PageEnd
<1> HIDE DEF last
<1>8. walk.pages \in Seq(Nat) /\ Descending(walk.pages)
  <2>1. Descending(<<>>) /\ <<>> \in Seq(Nat)
    BY DEF Descending
  <2>2. CASE walk.pages = <<>>
    BY <2>1, <2>2
  <2>3. CASE GivenSoFar
    BY <2>3 DEF GivenSoFar
  <2> QED BY <1>5, <2>2, <2>3
<1>9. \A j \in 1 .. Len(all) : all[j] \in Nat /\ j \in DOMAIN all
  BY <1>4
<1>10. \A j \in first + 1 .. Len(all) : walk.at = "reading" => walk.cursor > all[j]
  <2> SUFFICES ASSUME NEW j \in first + 1 .. Len(all), walk.at = "reading" PROVE walk.cursor > all[j]
    OBVIOUS
  <2>1. first \in 1 .. Len(all) /\ j \in 1 .. Len(all) /\ first < j
    BY <1>4, <1>6
  <2> QED BY <1>4, <1>6, <1>9, <2>1 DEF Descending
<1>11. \A i \in 1 .. Len(walk.pages), j \in first + 1 .. Len(all) : walk.pages[i] > all[j]
  <2> SUFFICES ASSUME NEW i \in 1 .. Len(walk.pages), NEW j \in first + 1 .. Len(all) PROVE walk.pages[i] > all[j]
    OBVIOUS
  <2>1. walk.at = "reading" /\ GivenSoFar
    BY <1>5
  <2>2. walk.pages[i] >= walk.cursor /\ walk.cursor > all[j]
    BY <1>10, <2>1 DEF GivenSoFar
  <2>3. j \in 1 .. Len(all)
    BY <1>4, <1>6
  <2>4. walk.pages[i] \in Nat /\ all[j] \in Nat /\ walk.cursor \in Nat
    <3>1. walk.cursor \in evs
      BY <2>1 DEF GivenSoFar, evs
    <3>2. walk.cursor \in Nat
      BY <1>3, <3>1
    <3> QED BY <1>8, <1>9, <2>3, <3>2
  <2> QED BY <2>2, <2>4
<1>12. /\ given \in Seq(Nat) /\ Descending(given)
       /\ Range(given) = Range(walk.pages) \cup {all[j] : j \in first + 1 .. last}
       /\ last > first => next[Len(next)] = all[last]
  <2>1. first \in 0 .. Len(all) /\ last \in first .. Len(all)
    BY <1>6, <1>7
  <2> QED BY <1>4, <1>8, <1>11, <2>1, PageFollows
<1> HIDE DEF given, next
<1>13. walk'.there \subseteq evs
  BY <1>1, <1>5 DEF GivenSoFar, evs
<1>14. ASSUME NEW e \in walk'.there, e \notin Range(walk.pages)
       PROVE  \E j \in first + 1 .. Len(all) : e = all[j]
  <2>1. PICK j \in 1 .. Len(all) : e = all[j]
    BY <1>4, <1>13, <1>14 DEF Range
  <2>2. CASE walk.at = "none"
    BY <1>4, <1>6, <2>1, <2>2
  <2>3. CASE walk.at = "reading"
    <3>1. walk'.there = walk.there /\ GivenSoFar
      BY <1>1, <1>5, <2>3
    <3>2. ~(e >= walk.cursor)
      BY <1>14, <2>3, <3>1 DEF GivenSoFar
    <3>3. first \in 1 .. Len(all) /\ all[first] = walk.cursor
      BY <1>6, <2>3
    <3>4. ~(j < first) /\ j # first
      <4>1. j < first => all[j] > all[first]
        BY <1>4, <1>9, <3>3 DEF Descending
      <4> QED BY <1>9, <2>1, <3>2, <3>3, <4>1
    <3>5. j \in first + 1 .. Len(all)
      BY <1>4, <3>3, <3>4
    <3> QED BY <2>1, <3>5
  <2> QED BY <1>5, <2>2, <2>3
<1>15. CASE last < Len(all)
  <2>1. walk'.at = "reading" /\ walk'.cursor = all[last] /\ last \in 1 .. Len(all) /\ last \in first + 1 .. last
    BY <1>1, <1>4, <1>6, <1>7, <1>12, <1>15
  <2>2. walk'.cursor \in evs
    BY <1>4, <1>9, <2>1 DEF Range
  <2>3. \A i \in 1 .. Len(given) : given[i] >= walk'.cursor
    <3> SUFFICES ASSUME NEW i \in 1 .. Len(given) PROVE given[i] >= all[last]
      BY <2>1
    <3>1. given[i] \in Range(given)
      BY <1>12 DEF Range
    <3>2. CASE given[i] \in Range(walk.pages)
      <4>1. PICK k \in 1 .. Len(walk.pages) : given[i] = walk.pages[k]
        BY <1>8, <3>2 DEF Range
      <4>2. walk.pages[k] > all[last]
        BY <1>4, <1>6, <1>11, <2>1
      <4> QED BY <1>8, <1>9, <2>1, <4>1, <4>2
    <3>3. CASE given[i] \in {all[j] : j \in first + 1 .. last}
      <4>1. PICK j \in first + 1 .. last : given[i] = all[j]
        BY <3>3
      <4>2. j \in 1 .. Len(all) /\ (j = last \/ j < last)
        BY <1>4, <1>6, <1>7, <2>1
      <4>3. j < last => all[j] > all[last]
        BY <1>4, <1>9, <2>1, <4>2 DEF Descending
      <4> QED BY <1>9, <2>1, <4>1, <4>2, <4>3
    <3> QED BY <1>12, <3>1, <3>2, <3>3
  <2>4. \A e \in walk'.there : e >= walk'.cursor => e \in Range(given)
    <3> SUFFICES ASSUME NEW e \in walk'.there, e >= all[last], e \notin Range(walk.pages) PROVE e \in Range(given)
      BY <1>12, <2>1
    <3>1. PICK j \in first + 1 .. Len(all) : e = all[j]
      BY <1>14
    <3>2. j \in 1 .. Len(all)
      BY <1>4, <1>6
    <3>3. ~(last < j)
      <4>1. last < j => all[last] > all[j]
        BY <1>4, <1>9, <2>1, <3>2 DEF Descending
      <4> QED BY <1>9, <2>1, <3>1, <3>2, <4>1
    <3>4. j \in first + 1 .. last
      BY <1>4, <1>6, <2>1, <3>2, <3>3
    <3> QED BY <1>12, <3>1, <3>4
  <2> QED BY <1>1, <1>2, <1>12, <1>13, <2>1, <2>2, <2>3, <2>4 DEF GivenSoFar
<1>16. CASE ~(last < Len(all))
  <2>1. walk'.at = "done" /\ last = Len(all)
    BY <1>1, <1>4, <1>6, <1>7, <1>16
  <2>2. walk'.there \subseteq Range(given)
    BY <1>12, <1>14, <2>1
  <2> QED BY <1>1, <1>2, <1>12, <1>13, <2>1, <2>2 DEF GivenSoFar
<1> QED BY <1>15, <1>16

(* A reader whose pages all came from PostgreSQL got every matching event  *)
(* that was there when it began, none twice, whatever is written meanwhile.*)
THEOREM ReadersSeeEverything == AuditSpec => []WalksAreComplete
<1>1. AuditInit => AuditInv
  BY DEF AuditInit, AuditInv, NoWalk
<1>2. AuditInv /\ [AuditNext]_auditVars => AuditInv'
  <2> SUFFICES ASSUME AuditInv, [AuditNext]_auditVars PROVE AuditInv'
    OBVIOUS
  <2>1. ASSUME walk' = walk, auditDB \subseteq auditDB', auditDB' \subseteq Events PROVE AuditInv'
    <3>1. match(auditDB) \subseteq match(auditDB)'
      BY <2>1 DEF match
    <3>2. GivenSoFar => GivenSoFar'
      BY <2>1, <3>1 DEF GivenSoFar
    <3> QED BY <2>1, <3>2 DEF AuditInv
  <2>2. CASE stampEvent \/ logrotate \/ UNCHANGED auditVars
    BY <2>1, <2>2 DEF stampEvent, logrotate, auditVars, AuditInv
  <2>3. ASSUME NEW e \in Events, auditRecord(e) PROVE AuditInv'
    <3>1. walk' = walk /\ auditDB' \in {auditDB, auditDB \cup {e}}
      BY <2>3 DEF auditRecord
    <3> QED BY <2>1, <3>1 DEF AuditInv
  <2>4. CASE AuditRestart \/ readerLeaves
    <3>1. walk' = NoWalk /\ auditDB' = auditDB
      BY <2>4 DEF AuditRestart, readerLeaves
    <3> QED BY <3>1 DEF AuditInv, NoWalk
  <2>5. CASE handleAuditQuery
    <3>1. auditDB' = auditDB /\ walk.at \in {"none", "reading"}
      BY <2>5 DEF handleAuditQuery
    <3>2. CASE auditQuery(auditDB, TRUE)
      <4>1. walk'.at # "none" /\ (walk'.dbOnly => walk.dbOnly)
        BY <3>2 DEF auditQuery
      <4>2. walk' = [at |-> walk'.at, cursor |-> walk'.cursor, pages |-> walk'.pages, there |-> walk'.there, dbOnly |-> walk'.dbOnly]
        BY <3>2 DEF auditQuery
      <4> QED BY <3>1, <3>2, <4>1, <4>2, NextPage DEF AuditInv
    <3>3. CASE auditScanFile
      <4>1. CASE auditTorn
        <5>1. walk' = [walk EXCEPT !.at = "hung", !.dbOnly = FALSE]
          BY <3>3, <4>1 DEF auditScanFile
        <5>2. walk' = [at |-> "hung", cursor |-> walk.cursor, pages |-> walk.pages, there |-> walk.there, dbOnly |-> FALSE]
          BY <5>1 DEF AuditInv
        <5> QED BY <3>1, <5>2 DEF AuditInv
      <4>2. CASE ~auditTorn
        <5>1. auditQuery(auditFile, FALSE)
          BY <3>3, <4>2 DEF auditScanFile
        <5>2. walk'.at # "none" /\ walk'.dbOnly = FALSE
          BY <5>1 DEF auditQuery
        <5>3. walk' = [at |-> walk'.at, cursor |-> walk'.cursor, pages |-> walk'.pages, there |-> walk'.there, dbOnly |-> walk'.dbOnly]
          BY <5>1 DEF auditQuery
        <5> QED BY <3>1, <5>2, <5>3 DEF AuditInv
      <4> QED BY <4>1, <4>2
    <3> QED BY <2>5, <3>2, <3>3 DEF handleAuditQuery
  <2> QED BY <2>2, <2>3, <2>4, <2>5 DEF AuditNext
<1> QED BY <1>1, <1>2, AuditInvWalks, PTL DEF AuditSpec
==============================================================================
