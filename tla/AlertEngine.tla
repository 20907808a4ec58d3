----------------------------- MODULE AlertEngine -----------------------------
(***************************************************************************)
(* The alert engine of ncn-api (core-console/backend/alerts.go): every 30s *)
(* tickOnce evaluates each compiled rule on each node of the fleet         *)
(* snapshot, debounces the verdict both ways, keeps the active incidents   *)
(* and their history, and decides what reaches Telegram.                   *)
(*                                                                         *)
(* The engine's mutex is held for the whole evaluation, which is one       *)
(* action per (node, rule) here so that each case is an action of its own; *)
(* phase = "tick" is "e.mu is held" and disables the other lock takers.    *)
(* What runs outside the lock interleaves: the fleet snapshot, the history *)
(* flush, the triage goroutines, evictNode and the operators' requests.    *)
(*                                                                         *)
(* Metrics, messages, trails and wording are abstracted: a rule matches or *)
(* does not.  A tick is exactly 30 seconds; times saturate at LongAgo.     *)
(***************************************************************************)
EXTENDS Integers, Sequences, FiniteSets

CONSTANTS
  Node, RuleID,
  Rank,            \* the order in which a tick evaluates the keys
  Inhibits,        \* alertInhibits, as pairs <<inhibitor, suppressed>>
  Stores,          \* the contents the rule store may have
  Edits,           \* those a rule request may install
  Elsewhere,       \* a node the fleet does not have, named in scopes
  Removable,       \* nodes an operator may decommission, delete or bring back
  CanAck,          \* whether operators acknowledge
  CanRestart,      \* whether the process may be restarted
  CanSaveFail,     \* whether Postgres may refuse a save, or the load at boot
  GroupKey,        \* the GroupKeys rules may carry
  NoKey,           \* an empty GroupKey
  NoEvent,         \* no entry in alertEngine.active
  Cooldown,        \* alertTGCooldown in seconds (1800 in the code)
  StormThreshold,  \* alertStormThreshold (6 in the code)
  HistCap,         \* histCap (200 in the code)
  LongAgo,         \* bound: no duration above it is told apart
  StreakCap,       \* bound on the history variables matched and unmatched
  MaxIncidents     \* bound on lastSeq

TickSecs == 30
SustainTicks == 2        \* alertSustainTicks

Key == Node \X RuleID
Severity == {"info", "warn", "crit"}
Seconds == 0 .. LongAgo

(* ruleGroup and ruleDef, the fields the engine reads.                     *)
Group == [enabled: BOOLEAN, muted: BOOLEAN, nodes: SUBSET (Node \cup {Elsewhere}), sustain: Seconds,
          suppress: BOOLEAN, minSev: Severity \cup {""}]

RuleDef == [group: STRING, enabled: BOOLEAN, muted: BOOLEAN, anomaly: BOOLEAN,
            sev: Severity, notify: BOOLEAN, sustain: Seconds, resolve: Seconds,
            escalate: Seconds, repeat: Seconds, gkey: GroupKey]

ASSUME EngineAssumption ==
  /\ NoKey \in GroupKey
  /\ Edits \subseteq Stores
  /\ \A s \in Stores :
       /\ DOMAIN s.rules \subseteq RuleID
       /\ \A r \in DOMAIN s.rules :
            s.rules[r] \in RuleDef /\ (s.rules[r].repeat > 0 => 60 <= LongAgo)
       /\ \A g \in DOMAIN s.groups : s.groups[g] \in Group
  /\ Rank \in [Key -> Nat]
  /\ Inhibits \subseteq RuleID \X RuleID
  /\ Removable \subseteq Node
  /\ CanAck \in BOOLEAN /\ CanRestart \in BOOLEAN /\ CanSaveFail \in BOOLEAN
  /\ LongAgo \in Nat /\ Cooldown \in 0 .. LongAgo
  /\ StormThreshold \in Nat /\ HistCap \in Nat \ {0}
  /\ StreakCap \in Nat /\ MaxIncidents \in Nat

VARIABLES
  fleet,      \* nodes of fleetScraper.nodes that have a cached status
  evicting,   \* nodes taken out of the scrape set, evictNode still to run
  store,      \* what alertRuleStore.snapshot returns
  rules,      \* alertEngine.rules, by rule ID
  active,     \* alertEngine.active
  pending, clearing,                 \* the debounce counters; absent is 0
  since,      \* seconds since lastTGFire[key]; LongAgo when absent
  history, historyDirty, lastSeq,    \* alertEngine's
  saved,      \* the alert_history document in Postgres
  phase,      \* where the runLoop goroutine is
  seen,       \* the snapshot tickOnce took before locking
  todo,       \* the keys this tick has still to evaluate
  fires,      \* the first fires collected this tick
  copy,       \* flushHistory's copy of the ring
  triage,     \* triage goroutines in flight
  matched, unmatched,  \* history: consecutive ticks with that verdict
  owed,       \* history: fire cards less resolved nudges, per key
  carded,     \* history: ids of the incidents a fire card named
  answered,   \* history: <<id, severity>> that a card named or triage called EXPECTED
  cards       \* history: the cards of the tick that just ended

loop    == <<phase, seen, todo, fires, copy>>
chat    == <<triage, owed, carded, answered, cards>>
counts  == <<pending, clearing, matched, unmatched>>
ring    == <<history, historyDirty>>
world   == <<fleet, evicting, store>>
vars    == <<world, rules, active, counts, since, ring, lastSeq, saved, loop, chat>>

View == INSTANCE FleetView

-----------------------------------------------------------------------------
(* reloadRules: one compiled rule per stored rule whose group exists.      *)
sevWeight == [s \in Severity \cup {""} |->
                CASE s = "crit" -> 3 [] s = "warn" -> 2 [] s = "info" -> 1 [] OTHER -> 0]

compiled(d, g) ==
  [enabled  |-> d.enabled /\ g.enabled,
   muted    |-> d.muted \/ g.muted,
   nodes    |-> g.nodes,
   sev      |-> d.sev,
   notify   |-> d.notify,
   suppress |-> g.suppress,
   minSev   |-> g.minSev,
   sustain  |-> IF d.sustain = 0 THEN g.sustain ELSE d.sustain,
   resolve  |-> d.resolve,
   escalate |-> d.escalate,
   repeat   |-> d.repeat,
   gkey     |-> IF d.anomaly /\ d.enabled /\ g.enabled THEN d.gkey ELSE NoKey]

compile(s) ==
  [r \in {r \in DOMAIN s.rules : s.rules[r].group \in DOMAIN s.groups} |->
     compiled(s.rules[r], s.groups[s.rules[r].group])]

CompiledRule ==
  [enabled: BOOLEAN, muted: BOOLEAN, nodes: SUBSET (Node \cup {Elsewhere}), sev: Severity,
   notify: BOOLEAN, suppress: BOOLEAN, minSev: Severity \cup {""},
   sustain: Seconds, resolve: Seconds, escalate: Seconds, repeat: Seconds,
   gkey: GroupKey]

(* A mutant: a muted rule goes on evaluating.                              *)
MutMutedApplies(r, n) ==
  rules[r].enabled /\ (rules[r].nodes = {} \/ n \in rules[r].nodes)

(* alertRule.applicable; an empty group scope means every node.            *)
applicable(r, n) ==
  rules[r].enabled /\ ~rules[r].muted /\ (rules[r].nodes = {} \/ n \in rules[r].nodes)

(* Seconds to 30-second ticks, rounded up; 0 seconds is one tick.          *)
ticksFor(secs) == IF secs > 0 THEN (secs + TickSecs - 1) \div TickSecs ELSE 1

UpTo(n, cap) == IF n < cap THEN n ELSE cap

-----------------------------------------------------------------------------
(* alertEvent: the fields that steer the engine; "rule" is the compiled    *)
(* rule it was born from, whose settings it keeps across reloads.          *)
Event == [id: Nat, sev: Severity, ticks: 1 .. SustainTicks, age: Seconds,
          acked: BOOLEAN, escalated: BOOLEAN, tgFireSent: BOOLEAN,
          tgPosted: BOOLEAN, rule: CompiledRule]

ASSUME NoEventAssumption == NoEvent \notin Event

newEvent(k) ==
  [id |-> lastSeq + 1, sev |-> rules[k[2]].sev, ticks |-> 1, age |-> 0,
   acked |-> FALSE, escalated |-> FALSE, tgFireSent |-> FALSE, tgPosted |-> FALSE,
   rule |-> rules[k[2]]]

(* What an event looks like in the history ring.                           *)
Entry == [id: Nat, key: Key, sev: Severity, acked: BOOLEAN, state: {"firing", "resolved"}]

entryOf(k, ev, state) ==
  [id |-> ev.id, key |-> k, sev |-> ev.sev, acked |-> ev.acked, state |-> state]

LastN(s, n) == IF Len(s) > n THEN SubSeq(s, Len(s) - n + 1, Len(s)) ELSE s

pushHistory(e) ==
  /\ history' = LastN(Append(history, e), HistCap)
  /\ historyDirty' = TRUE

(* A mutant: only the newest entry is looked at.                           *)
MutNewestOnly(e) ==
  IF history # <<>> /\ history[Len(history)].id = e.id
  THEN history' = [history EXCEPT ![Len(history)] = e] /\ historyDirty' = TRUE
  ELSE UNCHANGED ring

(* updateHistoryByID rewrites the first entry with that id, if any.        *)
updateHistoryByID(e) ==
  LET hits == {i \in DOMAIN history : history[i].id = e.id}
  IN IF hits = {}
     THEN UNCHANGED ring
     ELSE /\ history' = [history EXCEPT ![CHOOSE i \in hits : \A j \in hits : i <= j] = e]
          /\ historyDirty' = TRUE

(* The auto-escalation of a continuing event.                              *)
escalated(ev) ==
  IF /\ ev.rule.escalate > 0 /\ ~ev.escalated /\ ~ev.acked
     /\ sevWeight[ev.sev] < sevWeight["crit"]
     /\ ev.age >= ev.rule.escalate
  THEN [ev EXCEPT !.sev = "crit", !.escalated = TRUE, !.tgFireSent = FALSE]
  ELSE ev

-----------------------------------------------------------------------------
(* A mutant: only an inhibitor already announced inhibits.                 *)
MutAnnouncedInhibits(k) ==
  \E i \in RuleID :
    /\ <<i, k[2]>> \in Inhibits /\ active[<<k[1], i>>] # NoEvent
    /\ active[<<k[1], i>>].tgFireSent

(* maybeFireTG.  The notifier is wired; a fresh event never passes the     *)
(* sustain gate, so only continuing events are asked.                      *)
inhibitedLocked(k) ==
  \E i \in RuleID : <<i, k[2]>> \in Inhibits /\ active[<<k[1], i>>] # NoEvent

floorOf(ev) == IF ev.rule.minSev = "" THEN "info" ELSE ev.rule.minSev

passesGates(k, ev) ==
  /\ ev.rule.notify /\ ~ev.rule.suppress
  /\ sevWeight[ev.sev] >= sevWeight[floorOf(ev)]
  /\ ev.ticks >= SustainTicks
  /\ ~inhibitedLocked(k)

(* A mutant: an incident is never announced twice.                         *)
MutAnnounceOnce(k, ev) ==
  passesGates(k, ev) /\ ~ev.tgFireSent /\ ~ev.tgPosted /\ since[k] >= Cooldown

firstNudge(k, ev) == passesGates(k, ev) /\ ~ev.tgFireSent /\ since[k] >= Cooldown

repeatNudge(k, ev) ==
  /\ passesGates(k, ev)
  /\ ev.tgFireSent /\ ev.tgPosted /\ ev.rule.repeat > 0 /\ ~ev.acked
  /\ since[k] >= (IF ev.rule.repeat < 60 THEN 60 ELSE ev.rule.repeat)

(* flushFires: one card per storm, else per GroupKey or rule.              *)
Fire == [key: Key, id: Nat, sev: Severity, gkey: GroupKey]

correlated(f, g) ==
  IF f.gkey = NoKey /\ g.gkey = NoKey THEN f.key[2] = g.key[2] ELSE f.gkey = g.gkey

flushFires(fs) ==
  IF Cardinality(fs) >= StormThreshold
  THEN {fs} \ {{}}
  ELSE {{g \in fs : correlated(f, g)} : f \in fs}

onlyInfo(card) == \A f \in card : f.sev = "info"
keysOf(card) == {f.key : f \in card}
idsOf(card) == {f.id : f \in card}
answersTo(card) == {<<f.id, f.sev>> : f \in card}

(* markPosted flags whatever incident is active on each key now.           *)
markedPosted(keys) ==
  [k \in Key |-> IF k \in keys /\ active[k] # NoEvent
                 THEN [active[k] EXCEPT !.tgPosted = TRUE] ELSE active[k]]

-----------------------------------------------------------------------------
Init ==
  /\ View!Init
  /\ store \in Stores /\ rules = compile(store)
  /\ active = [k \in Key |-> NoEvent]
  /\ pending = [k \in Key |-> 0] /\ clearing = [k \in Key |-> 0]
  /\ since = [k \in Key |-> LongAgo]
  /\ history = <<>> /\ historyDirty = FALSE /\ lastSeq = 0 /\ saved = <<>>
  /\ phase = "idle" /\ seen = {} /\ todo = {} /\ fires = {} /\ copy = <<>>
  /\ triage = {} /\ owed = [k \in Key |-> 0] /\ carded = {} /\ answered = {} /\ cards = {}
  /\ matched = [k \in Key |-> 0] /\ unmatched = [k \in Key |-> 0]

(* A key this tick does not evaluate: its run of verdicts is broken.       *)
Skip(keys) ==
  /\ matched'   = [k \in Key |-> IF k \in keys THEN 0 ELSE matched[k]]
  /\ unmatched' = [k \in Key |-> IF k \in keys THEN 0 ELSE unmatched[k]]

(* The 30s ticker: tickOnce up to the lock.  With nothing scraped it        *)
(* returns at once and flushHistory follows.                               *)
TickSnapshot ==
  /\ phase = "idle"
  /\ seen' = fleet
  /\ phase' = IF fleet = {} THEN "flush" ELSE "snapped"
  /\ since' = [k \in Key |-> UpTo(since[k] + TickSecs, LongAgo)]
  /\ active' = [k \in Key |-> IF active[k] = NoEvent THEN NoEvent
                 ELSE [active[k] EXCEPT !.age = UpTo(@ + TickSecs, LongAgo)]]
  /\ Skip({k \in Key : k[1] \notin fleet})
  /\ UNCHANGED <<world, rules, pending, clearing, ring, lastSeq, saved, todo, fires, copy, chat>>

(* The lock is taken.                                                      *)
TickBegin ==
  /\ phase = "snapped"
  /\ phase' = "tick"
  /\ todo' = seen \X DOMAIN rules
  /\ Skip({k \in Key : k[2] \notin DOMAIN rules})
  /\ UNCHANGED <<world, rules, active, pending, clearing, since, ring, lastSeq, saved, seen, fires,
                 copy, chat>>

(* The two loops go by node, then by rule.                                 *)
Turn(k) ==
  /\ phase = "tick" /\ k \in todo
  /\ \A j \in todo : Rank[k] <= Rank[j]
  /\ todo' = todo \ {k}

(* The rule's verdict on the node: only an applicable rule can match.  At  *)
(* the bound MaxIncidents a rule with no incident does not match.          *)
Verdict(k) ==
  IF applicable(k[2], k[1]) /\ (active[k] # NoEvent \/ lastSeq < MaxIncidents)
  THEN BOOLEAN ELSE {FALSE}

Observe(k, cond) ==
  /\ matched'   = [matched   EXCEPT ![k] = IF cond THEN UpTo(@ + 1, StreakCap) ELSE 0]
  /\ unmatched' = [unmatched EXCEPT ![k] = IF cond THEN 0 ELSE UpTo(@ + 1, StreakCap)]

reqFire(k)    == ticksFor(rules[k[2]].sustain)
reqResolve(k) == ticksFor(rules[k[2]].resolve)

(* Two mutants: neither counter starts over when the verdict flips.        *)
MutPendingKept(k, cond) ==
  IF ~cond THEN pending[k] ELSE IF pending[k] < reqFire(k) THEN pending[k] + 1 ELSE pending[k]

MutClearingKept(k, cond) == IF cond THEN clearing[k] ELSE clearing[k] + 1

pendingNext(k, cond) ==
  IF ~cond THEN 0 ELSE IF pending[k] < reqFire(k) THEN pending[k] + 1 ELSE pending[k]

clearingNext(k, cond) == IF cond THEN 0 ELSE clearing[k] + 1

(* Not active and not firing: the match counter moves.                     *)
Arm(k, cond) ==
  /\ Turn(k) /\ active[k] = NoEvent
  /\ ~(cond /\ pendingNext(k, cond) >= reqFire(k))
  /\ pending' = [pending EXCEPT ![k] = pendingNext(k, cond)]
  /\ Observe(k, cond)
  /\ UNCHANGED <<world, rules, active, clearing, since, ring, lastSeq, saved,
                 phase, seen, fires, copy, chat>>

(* A new incident; it first becomes eligible for Telegram on its next tick.*)
NewFire(k, cond) ==
  /\ Turn(k) /\ active[k] = NoEvent
  /\ cond /\ pendingNext(k, cond) >= reqFire(k)
  /\ pending' = [pending EXCEPT ![k] = pendingNext(k, cond)]
  /\ lastSeq' = lastSeq + 1
  /\ active' = [active EXCEPT ![k] = newEvent(k)]
  /\ pushHistory(entryOf(k, newEvent(k), "firing"))
  /\ Observe(k, cond)
  /\ UNCHANGED <<world, rules, clearing, since, saved, phase, seen, fires, copy, chat>>

(* Still firing, or held firing while the clear debounce runs.             *)
Continue(k, cond) ==
  /\ Turn(k) /\ active[k] # NoEvent
  /\ cond \/ clearingNext(k, cond) < reqResolve(k)
  /\ clearing' = [clearing EXCEPT ![k] = clearingNext(k, cond)]
  /\ pending' = [pending EXCEPT ![k] = 0]
  /\ LET ev == escalated([active[k] EXCEPT !.ticks = SustainTicks])
         nudge == firstNudge(k, ev)
     IN /\ active' = [active EXCEPT ![k] = IF nudge THEN [ev EXCEPT !.tgFireSent = TRUE] ELSE ev]
        /\ since' = [since EXCEPT ![k] = IF nudge \/ repeatNudge(k, ev) THEN 0 ELSE @]
        /\ fires' = fires \cup {f \in {[key |-> k, id |-> ev.id, sev |-> ev.sev,
                                        gkey |-> ev.rule.gkey]} : nudge}
        /\ updateHistoryByID(entryOf(k, ev, "firing"))
  /\ Observe(k, cond)
  /\ UNCHANGED <<world, rules, lastSeq, saved, phase, seen, copy, chat>>

(* Clear for long enough: the incident closes, and a resolved nudge goes   *)
(* out when its fire was posted.                                           *)
Resolve(k, cond) ==
  /\ Turn(k) /\ active[k] # NoEvent
  /\ ~cond /\ clearingNext(k, cond) >= reqResolve(k)
  /\ active' = [active EXCEPT ![k] = NoEvent]
  /\ clearing' = [clearing EXCEPT ![k] = 0]
  /\ pending' = [pending EXCEPT ![k] = 0]
  /\ updateHistoryByID(entryOf(k, active[k], "resolved"))
  /\ owed' = [owed EXCEPT ![k] = IF active[k].tgPosted THEN @ - 1 ELSE @]
  /\ Observe(k, cond)
  /\ UNCHANGED <<world, rules, since, lastSeq, saved, phase, seen, fires, copy,
                 triage, carded, answered, cards>>

Evaluate == \E k \in todo : \E cond \in Verdict(k) :
  Arm(k, cond) \/ NewFire(k, cond) \/ Continue(k, cond) \/ Resolve(k, cond)

(* End of the loop: flushFires.  A card with a warn or crit in it goes     *)
(* through a triage goroutine; an info card is sent and marked at once.    *)
TickEnd ==
  /\ phase = "tick" /\ todo = {}
  /\ phase' = "flush"
  /\ cards' = flushFires(fires)
  /\ triage' = triage \cup {[fires |-> c, sent |-> FALSE] : c \in {d \in cards' : ~onlyInfo(d)}}
  /\ LET now == UNION {c \in cards' : onlyInfo(c)}
     IN /\ active' = markedPosted(keysOf(now))
        /\ owed' = [k \in Key |-> IF k \in keysOf(now) THEN owed[k] + 1 ELSE owed[k]]
        /\ carded' = carded \cup idsOf(now) /\ answered' = answered \cup answersTo(now)
  /\ fires' = {} /\ seen' = {}
  /\ UNCHANGED <<world, rules, counts, since, ring, lastSeq, saved, todo, copy>>

(* flushHistory: copy under the lock, save outside it, and remember to     *)
(* retry when Postgres refuses.                                            *)
FlushCopy ==
  /\ phase = "flush"
  /\ phase' = IF historyDirty THEN "save" ELSE "idle"
  /\ copy' = IF historyDirty THEN history ELSE copy
  /\ historyDirty' = FALSE /\ cards' = {}
  /\ UNCHANGED <<world, rules, active, counts, since, history, lastSeq, saved, seen, todo, fires,
                 triage, owed, carded, answered>>

(* A mutant: a refused save is not retried.                                *)
MutNoRetry(ok) ==
  /\ phase = "save"
  /\ phase' = "idle" /\ copy' = <<>>
  /\ saved' = IF ok THEN copy ELSE saved
  /\ UNCHANGED <<world, rules, active, counts, since, ring, lastSeq, seen, todo, fires, chat>>

FlushSave(ok) ==
  /\ phase = "save"
  /\ phase' = "idle" /\ copy' = <<>>
  /\ saved' = IF ok THEN copy ELSE saved
  /\ historyDirty' = (historyDirty \/ ~ok)
  /\ UNCHANGED <<world, rules, active, counts, since, history, lastSeq, seen, todo, fires, chat>>

-----------------------------------------------------------------------------
(* A mutant: an EXPECTED verdict marks the incident posted.                *)
MutExpectedMarks(t) ==
  /\ t \in triage /\ ~t.sent /\ phase # "tick"
  /\ triage' = triage \ {t}
  /\ answered' = answered \cup answersTo(t.fires)
  /\ active' = markedPosted(keysOf(t.fires))
  /\ UNCHANGED <<world, rules, counts, since, ring, lastSeq, saved, loop, owed, carded, cards>>

(* triageAlertFire and triageAlertGroup: the agent calls the fire EXPECTED *)
(* and the goroutine ends silently, or the card is sent (also when there   *)
(* is no agent or it errs) and then, under the lock, the keys are marked.  *)
TriageExpected(t) ==
  /\ t \in triage /\ ~t.sent
  /\ triage' = triage \ {t}
  /\ answered' = answered \cup answersTo(t.fires)
  /\ UNCHANGED <<world, rules, active, counts, since, ring, lastSeq, saved, loop, owed, carded,
                 cards>>

TriageSend(t) ==
  /\ t \in triage /\ ~t.sent
  /\ triage' = (triage \ {t}) \cup {[t EXCEPT !.sent = TRUE]}
  /\ owed' = [k \in Key |-> IF k \in keysOf(t.fires) THEN owed[k] + 1 ELSE owed[k]]
  /\ carded' = carded \cup idsOf(t.fires) /\ answered' = answered \cup answersTo(t.fires)
  /\ UNCHANGED <<world, rules, active, counts, since, ring, lastSeq, saved, loop, cards>>

TriageMark(t) ==
  /\ phase # "tick"
  /\ t \in triage /\ t.sent
  /\ triage' = triage \ {t}
  /\ active' = markedPosted(keysOf(t.fires))
  /\ UNCHANGED <<world, rules, counts, since, ring, lastSeq, saved, loop, owed, carded, answered,
                 cards>>

(* handleAlertAck, by id or by node and rule.                              *)
Ack(k) ==
  /\ CanAck /\ phase # "tick"
  /\ active[k] # NoEvent
  /\ active' = [active EXCEPT ![k].acked = TRUE]
  /\ updateHistoryByID(entryOf(k, active'[k], "firing"))
  /\ UNCHANGED <<world, rules, counts, since, lastSeq, saved, loop, chat>>

(* A rule request changed the store; reloadRules recompiles and swaps.  The *)
(* snapshot and the swap are one step here and two in RuleStore.           *)
Reload(s) ==
  /\ phase # "tick"
  /\ s \in Edits \ {store}
  /\ store' = s
  /\ rules' = compile(s)
  /\ UNCHANGED <<fleet, evicting, active, counts, since, ring, lastSeq, saved, loop, chat>>

(* applyDeactivateNode leaves the scrape set, then calls evictNode; a node *)
(* is seen, or seen again, when it is live and a scrape of it is cached.   *)
NodeLeaves(n) ==
  /\ n \in Removable
  /\ View!Leaves(n)
  /\ UNCHANGED <<store, rules, active, counts, since, ring, lastSeq, saved, loop, chat>>

evictNode(n) ==
  /\ phase # "tick"
  /\ View!Evicted(n)
  /\ active' = [k \in Key |-> IF k[1] = n THEN NoEvent ELSE active[k]]
  /\ since' = [k \in Key |-> IF k[1] = n /\ active[k] # NoEvent THEN LongAgo ELSE since[k]]
  /\ UNCHANGED <<store, rules, counts, ring, lastSeq, saved, loop, chat>>

NodeScraped(n) ==
  /\ n \notin fleet
  /\ View!Scraped(n)
  /\ UNCHANGED <<store, rules, active, counts, since, ring, lastSeq, saved, loop, chat>>

(* The process dies and newAlertEngine starts over from the saved ring, or *)
(* from an empty one when it cannot be loaded.                             *)
Restart ==
  /\ CanRestart
  /\ active' = [k \in Key |-> NoEvent]
  /\ pending' = [k \in Key |-> 0] /\ clearing' = [k \in Key |-> 0]
  /\ since' = [k \in Key |-> LongAgo]
  /\ history' \in {LastN(saved, HistCap)} \cup (IF CanSaveFail THEN {<<>>} ELSE {})
  /\ historyDirty' = FALSE /\ lastSeq' = 0
  /\ rules' = compile(store)
  /\ phase' = "idle" /\ seen' = {} /\ todo' = {} /\ fires' = {} /\ copy' = <<>>
  /\ triage' = {} /\ owed' = [k \in Key |-> 0]
  /\ carded' = {} /\ answered' = {} /\ cards' = {}
  /\ matched' = [k \in Key |-> 0] /\ unmatched' = [k \in Key |-> 0]
  /\ View!Restart
  /\ UNCHANGED <<store, saved>>

Tick == TickSnapshot \/ TickBegin \/ Evaluate \/ TickEnd \/ FlushCopy
          \/ \E ok \in {TRUE, ~CanSaveFail} : FlushSave(ok)

Triage == \E t \in triage : TriageExpected(t) \/ TriageSend(t) \/ TriageMark(t)

Next ==
  \/ Tick
  \/ Triage
  \/ \E k \in Key : Ack(k)
  \/ \E s \in Edits : Reload(s)
  \/ \E n \in Node : NodeLeaves(n) \/ evictNode(n) \/ NodeScraped(n)
  \/ Restart

Spec == Init /\ [][Next]_vars

(* The loop is a ticker, evictNode a call in progress, and a triage gives  *)
(* up on the agent after 60 s (alerts.go:988); nothing is assumed of       *)
(* operators, of what the agent says or of the metrics.                    *)
Concludes(t) == TriageExpected(t) \/ TriageSend(t)

FairSpec ==
  /\ Spec
  /\ WF_vars(Tick)
  /\ \A k \in Key : WF_vars(\E t \in triage : k \in keysOf(t.fires) /\ Concludes(t))
  /\ \A n \in Node : WF_vars(evictNode(n))

-----------------------------------------------------------------------------
TypeOK ==
  /\ fleet \subseteq Node /\ evicting \subseteq Removable
  /\ store \in Stores
  /\ DOMAIN rules \subseteq RuleID /\ \A r \in DOMAIN rules : rules[r] \in CompiledRule
  /\ active \in [Key -> Event \cup {NoEvent}]
  /\ pending \in [Key -> Nat] /\ clearing \in [Key -> Nat]
  /\ since \in [Key -> Seconds]
  /\ history \in Seq(Entry) /\ Len(history) <= HistCap
  /\ historyDirty \in BOOLEAN /\ lastSeq \in Nat
  /\ saved \in Seq(Entry) /\ copy \in Seq(Entry)
  /\ phase \in {"idle", "snapped", "tick", "flush", "save"}
  /\ seen \subseteq Node /\ todo \subseteq Key /\ fires \subseteq Fire
  /\ triage \subseteq [fires: SUBSET Fire, sent: BOOLEAN]
  /\ matched \in [Key -> 0 .. StreakCap] /\ unmatched \in [Key -> 0 .. StreakCap]
  /\ owed \in [Key -> Int] /\ carded \subseteq Nat /\ answered \subseteq Nat \X Severity
  /\ cards \subseteq SUBSET Fire

(* One step of a tick, the lock being held before and after.               *)
InTick == phase = "tick" /\ phase' = "tick"

(* SustainSecs: an incident is born only on the tick that completes        *)
(* ceil(secs/30) consecutive ticks in which the rule matched on the node,  *)
(* whatever edits and flaps came in between.                               *)
DebouncedFire ==
  [][\A k \in Key : active[k] = NoEvent /\ active'[k] # NoEvent
       => matched'[k] >= UpTo(reqFire(k), StreakCap)]_vars

(* ResolveSecs: a tick closes an incident only after ceil(secs/30)         *)
(* consecutive ticks in which the rule was clear on the node.              *)
DebouncedResolve ==
  [][InTick => \A k \in Key : active[k] # NoEvent /\ active'[k] = NoEvent
       => unmatched'[k] >= UpTo(reqResolve(k), StreakCap)]_vars

(* The ring the console shows and the engine's memory agree: an active     *)
(* incident's entry is current while it is in the ring, an entry is        *)
(* "firing" only for the incident active on its key, and ids never repeat. *)
HistoryMirrorsActive ==
  /\ \A k \in Key, i \in DOMAIN history :
       active[k] # NoEvent /\ history[i].id = active[k].id
         => history[i] = entryOf(k, active[k], "firing")
  /\ \A i \in DOMAIN history : history[i].state = "firing" =>
       active[history[i].key] # NoEvent /\ active[history[i].key].id = history[i].id
  /\ \A i, j \in DOMAIN history : history[i].id = history[j].id => i = j

(* What was flushed is what the ring held: with nothing dirty and no save  *)
(* in flight, Postgres has the whole ring, failed saves notwithstanding,   *)
(* once anything is in it: after a load that failed the ring is empty and  *)
(* clean while Postgres still has the old one (alerts.go:253-256).         *)
CleanMeansSaved ==
  ~historyDirty /\ phase # "save" /\ history # <<>> => saved = history

(* A resolved nudge never outnumbers the fire cards of its node and rule,  *)
(* and an incident marked posted has one to its credit: triage marking     *)
(* late, acks, escalations and repeats included.                           *)
NudgesPair ==
  \A k \in Key :
    /\ owed[k] >= 0
    /\ active[k] # NoEvent => (active[k].tgPosted => owed[k] >= 1)

(* The incidents being tracked have distinct ids, also after a restart.    *)
IncidentsAreDistinct ==
  \A j, k \in Key : active[j] # NoEvent /\ active[k] # NoEvent =>
    active[j].id <= lastSeq /\ (active[j].id = active[k].id => j = k)

(* Each first fire of a tick is in exactly one card; a storm is one card;  *)
(* otherwise a card holds the fires of one rule, or of one GroupKey.       *)
DispatchedOnce ==
  [][phase = "tick" /\ phase' = "flush" =>
       /\ \A f \in fires : Cardinality({c \in cards' : f \in c}) = 1
       /\ UNION cards' = fires
       /\ Cardinality(fires) >= StormThreshold => Cardinality(cards') <= 1
       /\ Cardinality(fires) < StormThreshold =>
            \A c \in cards', f \in fires : \A g \in c :
              (f \in c) <=> \/ f.gkey # NoKey /\ f.gkey = g.gkey
                            \/ f.gkey = NoKey /\ g.gkey = NoKey /\ f.key[2] = g.key[2]]_vars

(* A root cause keeps its dependents quiet: no tick collects fires of an   *)
(* inhibitor and of its dependent on the same node, in whichever order the *)
(* rules are evaluated and however their cooldowns and flaps line up.      *)
RootCauseMutes ==
  \A f, g \in fires : f.key[1] = g.key[1] => <<f.key[2], g.key[2]>> \notin Inhibits

(* An escalated incident that goes on firing is not lost between the tick  *)
(* and the chat: once the cooldown of its first card is over it is put to  *)
(* triage again, and a card names it as critical or the agent calls the    *)
(* critical fire EXPECTED, on which triage stays silent.                   *)
EscalationIsAnswered ==
  \A k \in Key :
    (active[k] # NoEvent /\ active[k].escalated)
      ~> (active[k] = NoEvent \/ <<active[k].id, "crit">> \in answered)

(* No hanging alerts: when a rule or its group stays disabled or muted, or *)
(* a live node out of its scope, the rule's incident there is closed.      *)
Silenced(k) ==
  \E d \in {store.rules[r] : r \in {k[2]} \cap DOMAIN store.rules} :
    LET g == store.groups[d.group]
    IN ~d.enabled \/ ~g.enabled \/ d.muted \/ g.muted \/ (g.nodes # {} /\ k[1] \notin g.nodes)

NoHangingAlerts ==
  \A k \in Key :
    <>[](k[1] \in fleet /\ Silenced(k)) => <>[](active[k] = NoEvent)

(* evictNode's comment: without it a removed node's alerts would hang      *)
(* forever.  So a node that stays gone is left with no active alert.       *)
GoneNodesHaveNoAlerts ==
  \A n \in Node : <>[](n \notin fleet) => <>[](\A r \in RuleID : active[<<n, r>>] = NoEvent)

(* The comment on tgPosted and alertTGCooldown: a resolved nudge goes out  *)
(* only when the corresponding fire was sent.                              *)
ResolvePairsWithItsFire ==
  [][\A k \in Key : owed'[k] < owed[k] /\ InTick => active[k].id \in carded]_vars

(* The comment on historyDirty: history survives restarts.  So evaluating  *)
(* a rule, unless it pushes a new entry, rewrites none that is resolved.   *)
ClosedEntriesAreFinal ==
  [][InTick /\ lastSeq' = lastSeq =>
       \A i \in DOMAIN history :
         history[i].state = "resolved" => history'[i] = history[i]]_vars

(* The comment on historyDirty again: the page's history, once saved, is   *)
(* not lost.  A load that fails loses it, and the next flush in Postgres.  *)
HistorySurvives == saved # <<>> => history # <<>>
=============================================================================
