-------------------------- MODULE AlertEngineProofs --------------------------
(***************************************************************************)
(* Proofs about the alert engine for every fleet, rule store, history size *)
(* and timing.                                                             *)
(***************************************************************************)
EXTENDS AlertEngine, SequenceTheorems, FiniteSetTheorems, TLAPS

-----------------------------------------------------------------------------
(* The type invariant in parts, so that an action's proof names those it   *)
(* disturbs, and what a tick relies on: the rules are not swapped under    *)
(* the keys it has still to evaluate.                                      *)
WorldOK  == fleet \subseteq Node /\ evicting \subseteq Removable /\ store \in Stores
RulesOK  == DOMAIN rules \subseteq RuleID /\ \A r \in DOMAIN rules : rules[r] \in CompiledRule
ActiveOK == active \in [Key -> Event \cup {NoEvent}] /\ lastSeq \in Nat
CountsOK == /\ pending \in [Key -> Nat] /\ clearing \in [Key -> Nat]
            /\ matched \in [Key -> 0 .. StreakCap] /\ unmatched \in [Key -> 0 .. StreakCap]
SinceOK  == since \in [Key -> Seconds]
RingOK   == /\ history \in Seq(Entry) /\ Len(history) <= HistCap
            /\ historyDirty \in BOOLEAN
SavedOK  == saved \in Seq(Entry) /\ copy \in Seq(Entry)
LoopOK   == /\ phase \in {"idle", "snapped", "tick", "flush", "save"}
            /\ seen \subseteq Node /\ todo \subseteq Key
FiresOK  == fires \subseteq Fire
ChatOK   == /\ triage \subseteq [fires: SUBSET Fire, sent: BOOLEAN]
            /\ owed \in [Key -> Int] /\ carded \subseteq Nat /\ cards \subseteq SUBSET Fire
            /\ answered \subseteq Nat \X Severity

TodoCompiled ==
  todo # {} => phase = "tick" /\ \A k \in todo : k[2] \in DOMAIN rules

IInv == /\ WorldOK /\ RulesOK /\ ActiveOK /\ CountsOK /\ SinceOK /\ RingOK
        /\ SavedOK /\ LoopOK /\ FiresOK /\ ChatOK /\ TodoCompiled

LEMMA InvType == IInv => TypeOK
BY DEF IInv, TypeOK, WorldOK, RulesOK, ActiveOK, CountsOK, SinceOK, RingOK,
       SavedOK, LoopOK, FiresOK, ChatOK

-----------------------------------------------------------------------------
(* reloadRules compiles a stored rule into a well-formed alertRule.        *)
LEMMA CompileType ==
  ASSUME NEW s \in Stores
  PROVE  /\ DOMAIN compile(s) \subseteq RuleID
         /\ \A r \in DOMAIN compile(s) : compile(s)[r] \in CompiledRule
<1>1. ASSUME NEW d \in RuleDef, NEW g \in Group
      PROVE  compiled(d, g) \in CompiledRule
  <2>1. /\ d.enabled \in BOOLEAN /\ d.muted \in BOOLEAN /\ d.anomaly \in BOOLEAN
        /\ d.sev \in Severity /\ d.notify \in BOOLEAN
        /\ d.sustain \in Seconds /\ d.resolve \in Seconds
        /\ d.escalate \in Seconds /\ d.repeat \in Seconds /\ d.gkey \in GroupKey
    BY DEF RuleDef
  <2>2. /\ g.enabled \in BOOLEAN /\ g.muted \in BOOLEAN
        /\ g.nodes \in SUBSET (Node \cup {Elsewhere})
        /\ g.sustain \in Seconds /\ g.suppress \in BOOLEAN /\ g.minSev \in Severity \cup {""}
    BY DEF Group
  <2>3. (IF d.sustain = 0 THEN g.sustain ELSE d.sustain) \in Seconds
    BY <2>1, <2>2
  <2>4. (IF d.anomaly /\ d.enabled /\ g.enabled THEN d.gkey ELSE NoKey) \in GroupKey
    BY <2>1, EngineAssumption
  <2> QED BY <2>1, <2>2, <2>3, <2>4 DEF compiled, CompiledRule
<1>2. DOMAIN compile(s) = {r \in DOMAIN s.rules : s.rules[r].group \in DOMAIN s.groups}
  BY DEF compile
<1>3. ASSUME NEW r \in DOMAIN compile(s)
      PROVE  compile(s)[r] = compiled(s.rules[r], s.groups[s.rules[r].group])
  BY <1>2 DEF compile
<1> QED BY <1>1, <1>2, <1>3, EngineAssumption

(* The ring keeps its bound.                                               *)
LEMMA LastNType ==
  ASSUME NEW S, NEW s \in Seq(S), NEW n \in Nat
  PROVE  LastN(s, n) \in Seq(S) /\ Len(LastN(s, n)) <= n
<1>1. CASE Len(s) > n
  <2>1. LastN(s, n) = SubSeq(s, Len(s) - n + 1, Len(s))
    BY <1>1 DEF LastN
  <2>2. Len(s) \in Nat /\ Len(s) - n + 1 \in 1 .. Len(s) + 1
    BY <1>1
  <2> QED BY <1>1, <2>1, <2>2
<1>2. CASE ~(Len(s) > n)
  BY <1>2 DEF LastN
<1> QED BY <1>1, <1>2

LEMMA PushType ==
  ASSUME RingOK, NEW e \in Entry, pushHistory(e)
  PROVE  RingOK'
<1>1. Append(history, e) \in Seq(Entry)
  BY DEF RingOK
<1>2. HistCap \in Nat
  BY EngineAssumption
<1> QED BY <1>1, <1>2, LastNType DEF pushHistory, RingOK

LEMMA UpdateType ==
  ASSUME RingOK, NEW e \in Entry, updateHistoryByID(e)
  PROVE  RingOK'
<1>1. ASSUME NEW i
      PROVE  /\ [history EXCEPT ![i] = e] \in Seq(Entry)
             /\ Len([history EXCEPT ![i] = e]) = Len(history)
  <2>1. CASE i \in 1 .. Len(history)
    BY <2>1, ExceptSeq DEF RingOK
  <2>2. CASE i \notin 1 .. Len(history)
    <3>1. DOMAIN history = 1 .. Len(history)
      BY DEF RingOK
    <3>2. [history EXCEPT ![i] = e] = history
      BY <2>2, <3>1 DEF RingOK
    <3> QED BY <3>2 DEF RingOK
  <2> QED BY <2>1, <2>2
<1>2. \/ UNCHANGED <<history, historyDirty>>
      \/ historyDirty' = TRUE /\ \E i : history' = [history EXCEPT ![i] = e]
  BY DEF updateHistoryByID, ring
<1> QED BY <1>1, <1>2 DEF RingOK

LEMMA EntryType ==
  ASSUME NEW k \in Key, NEW ev \in Event, NEW st \in {"firing", "resolved"}
  PROVE  entryOf(k, ev, st) \in Entry
BY DEF entryOf, Entry, Event

(* Escalation keeps an event an event, and its id.                         *)
LEMMA EscalatedType ==
  ASSUME NEW ev \in Event
  PROVE  escalated(ev) \in Event /\ escalated(ev).id = ev.id
BY DEF escalated, Event, Severity

LEMMA MarkedType ==
  ASSUME ActiveOK, NEW keys
  PROVE  /\ markedPosted(keys) \in [Key -> Event \cup {NoEvent}]
         /\ \A k \in Key : markedPosted(keys)[k] # NoEvent =>
              active[k] # NoEvent /\ markedPosted(keys)[k].id = active[k].id
<1>1. ASSUME NEW k \in Key, active[k] # NoEvent
      PROVE  /\ [active[k] EXCEPT !.tgPosted = TRUE] \in Event
             /\ [active[k] EXCEPT !.tgPosted = TRUE].id = active[k].id
  BY <1>1 DEF ActiveOK, Event
<1> QED BY <1>1 DEF markedPosted, ActiveOK

LEMMA UpToType == ASSUME NEW n \in Nat, NEW cap \in Nat PROVE UpTo(n, cap) \in 0 .. cap
BY DEF UpTo

LEMMA ObserveType ==
  ASSUME CountsOK, NEW k \in Key, NEW cond \in BOOLEAN, Observe(k, cond)
  PROVE  matched' \in [Key -> 0 .. StreakCap] /\ unmatched' \in [Key -> 0 .. StreakCap]
<1>1. StreakCap \in Nat /\ 0 \in 0 .. StreakCap
  BY EngineAssumption
<1>2. matched[k] + 1 \in Nat /\ unmatched[k] + 1 \in Nat
  BY <1>1 DEF CountsOK
<1>3. UpTo(matched[k] + 1, StreakCap) \in 0 .. StreakCap
      /\ UpTo(unmatched[k] + 1, StreakCap) \in 0 .. StreakCap
  BY <1>1, <1>2, UpToType
<1> QED BY <1>1, <1>3 DEF Observe, CountsOK

LEMMA CardsType ==
  ASSUME NEW fs \in SUBSET Fire
  PROVE  flushFires(fs) \subseteq SUBSET Fire
BY DEF flushFires

-----------------------------------------------------------------------------
LEMMA InitInv == Init => IInv
<1> SUFFICES ASSUME Init PROVE IInv
  OBVIOUS
<1>1. RulesOK
  BY CompileType DEF Init, RulesOK
<1>2. StreakCap \in Nat /\ LongAgo \in Nat /\ HistCap \in Nat
  BY EngineAssumption
<1>3. <<>> \in Seq(Entry) /\ Len(<<>>) = 0
  OBVIOUS
<1>4. WorldOK /\ ActiveOK /\ CountsOK /\ SinceOK
  BY <1>2 DEF Init, WorldOK, ActiveOK, CountsOK, SinceOK, Seconds, View!Init
<1>5. RingOK /\ SavedOK
  <2>1. history = <<>> /\ saved = <<>> /\ copy = <<>> /\ historyDirty = FALSE
    BY DEF Init
  <2>2. 0 <= HistCap
    BY <1>2
  <2> QED BY <1>3, <2>1, <2>2 DEF RingOK, SavedOK
<1>6. LoopOK /\ FiresOK /\ ChatOK /\ TodoCompiled
  BY DEF Init, LoopOK, FiresOK, ChatOK, TodoCompiled
<1> QED BY <1>1, <1>4, <1>5, <1>6 DEF IInv

(* What the steps of a key's turn start from.                              *)
LEMMA TurnFacts ==
  ASSUME IInv, NEW k \in Key, Turn(k)
  PROVE  /\ k[2] \in DOMAIN rules /\ rules[k[2]] \in CompiledRule
         /\ active[k] # NoEvent => active[k] \in Event
         /\ phase = "tick" /\ todo' \subseteq todo
<1>1. phase = "tick" /\ k \in todo /\ todo' \subseteq todo
  BY DEF Turn
<1>2. k[2] \in DOMAIN rules
  BY <1>1 DEF IInv, TodoCompiled
<1> QED BY <1>1, <1>2 DEF IInv, RulesOK, ActiveOK

LEMMA TurnLoop ==
  ASSUME IInv, NEW k \in Key, Turn(k), UNCHANGED <<rules, phase, seen>>
  PROVE  LoopOK' /\ TodoCompiled' /\ RulesOK'
<1>1. /\ phase = "tick" /\ k \in todo
      /\ todo' \subseteq todo /\ \A j \in todo : j[2] \in DOMAIN rules
  BY DEF Turn, IInv, TodoCompiled
<1>2. LoopOK /\ RulesOK
  BY DEF IInv
<1> QED BY <1>1, <1>2 DEF LoopOK, TodoCompiled, RulesOK

LEMMA NewEventType ==
  ASSUME NEW k \in Key, rules[k[2]] \in CompiledRule, lastSeq \in Nat
  PROVE  newEvent(k) \in Event /\ newEvent(k).id = lastSeq + 1
<1>1. rules[k[2]].sev \in Severity
  BY DEF CompiledRule
<1>2. 0 \in Seconds /\ 1 \in 1 .. SustainTicks /\ lastSeq + 1 \in Nat
  BY EngineAssumption DEF Seconds, SustainTicks
<1> QED BY <1>1, <1>2 DEF newEvent, Event

LEMMA ArmInv ==
  ASSUME IInv, NEW k \in Key, NEW cond \in BOOLEAN, Arm(k, cond)
  PROVE  IInv'
<1>1. Turn(k) /\ Observe(k, cond)
  BY DEF Arm
<1>2. LoopOK' /\ TodoCompiled' /\ RulesOK'
  BY <1>1, TurnLoop DEF Arm, world
<1>3. CountsOK'
  <2>1. CountsOK
    BY DEF IInv
  <2>2. pendingNext(k, cond) \in Nat
    BY <2>1 DEF pendingNext, CountsOK
  <2> QED BY <1>1, <2>1, <2>2, ObserveType DEF Arm, CountsOK
<1> QED BY <1>2, <1>3 DEF Arm, IInv, WorldOK, ActiveOK, SinceOK, RingOK, SavedOK,
           FiresOK, ChatOK, world, ring, chat

LEMMA NewFireInv ==
  ASSUME IInv, NEW k \in Key, NEW cond \in BOOLEAN, NewFire(k, cond)
  PROVE  IInv'
<1>1. Turn(k) /\ Observe(k, cond)
  BY DEF NewFire
<1>2. LoopOK' /\ TodoCompiled' /\ RulesOK'
  BY <1>1, TurnLoop DEF NewFire, world
<1>3. newEvent(k) \in Event
  BY <1>1, TurnFacts, NewEventType DEF IInv, ActiveOK
<1>4. ActiveOK'
  BY <1>3 DEF NewFire, IInv, ActiveOK
<1>5. CountsOK'
  <2>1. CountsOK
    BY DEF IInv
  <2>2. pendingNext(k, cond) \in Nat
    BY <2>1 DEF pendingNext, CountsOK
  <2> QED BY <1>1, <2>1, <2>2, ObserveType DEF NewFire, CountsOK
<1>6. RingOK'
  BY <1>3, EntryType, PushType DEF NewFire, IInv
<1> QED BY <1>2, <1>4, <1>5, <1>6 DEF NewFire, IInv, WorldOK, SinceOK, SavedOK,
           FiresOK, ChatOK, world, chat

LEMMA ContinueInv ==
  ASSUME IInv, NEW k \in Key, NEW cond \in BOOLEAN, Continue(k, cond)
  PROVE  IInv'
<1> DEFINE ev == escalated([active[k] EXCEPT !.ticks = SustainTicks])
           nudge == firstNudge(k, ev)
<1>1. Turn(k) /\ Observe(k, cond) /\ active[k] # NoEvent
  BY DEF Continue
<1>2. LoopOK' /\ TodoCompiled' /\ RulesOK'
  BY <1>1, TurnLoop DEF Continue, world
<1>3. ev \in Event
  <2>1. active[k] \in Event
    BY <1>1, TurnFacts
  <2>2. [active[k] EXCEPT !.ticks = SustainTicks] \in Event
    BY <2>1 DEF Event, SustainTicks
  <2> QED BY <2>2, EscalatedType
<1>4. /\ active' = [active EXCEPT ![k] = IF nudge THEN [ev EXCEPT !.tgFireSent = TRUE] ELSE ev]
      /\ since' = [since EXCEPT ![k] = IF nudge \/ repeatNudge(k, ev) THEN 0 ELSE @]
      /\ fires' = fires \cup {f \in {[key |-> k, id |-> ev.id, sev |-> ev.sev,
                                      gkey |-> ev.rule.gkey]} : nudge}
      /\ updateHistoryByID(entryOf(k, ev, "firing"))
  BY DEF Continue
<1> HIDE DEF ev, nudge
<1>5. ActiveOK'
  <2>1. [ev EXCEPT !.tgFireSent = TRUE] \in Event
    BY <1>3 DEF Event
  <2>2. (IF nudge THEN [ev EXCEPT !.tgFireSent = TRUE] ELSE ev) \in Event
    BY <1>3, <2>1
  <2>3. ActiveOK /\ lastSeq' = lastSeq
    BY DEF Continue, IInv
  <2> QED BY <1>4, <2>2, <2>3 DEF ActiveOK
<1>6. SinceOK'
  BY <1>4, EngineAssumption DEF IInv, SinceOK, Seconds
<1>7. FiresOK'
  <2>1. ev.id \in Nat /\ ev.sev \in Severity /\ ev.rule.gkey \in GroupKey
    BY <1>3 DEF Event, CompiledRule
  <2>2. [key |-> k, id |-> ev.id, sev |-> ev.sev, gkey |-> ev.rule.gkey] \in Fire
    BY <2>1 DEF Fire
  <2> QED BY <1>4, <2>2 DEF IInv, FiresOK
<1>8. RingOK'
  BY <1>3, <1>4, EntryType, UpdateType DEF IInv
<1>9. CountsOK'
  <2>1. CountsOK
    BY DEF IInv
  <2>2. clearingNext(k, cond) \in Nat
    BY <2>1 DEF clearingNext, CountsOK
  <2> QED BY <1>1, <2>1, <2>2, ObserveType DEF Continue, CountsOK
<1> QED BY <1>2, <1>5, <1>6, <1>7, <1>8, <1>9
        DEF Continue, IInv, WorldOK, SavedOK, ChatOK, world, chat

LEMMA ResolveInv ==
  ASSUME IInv, NEW k \in Key, NEW cond \in BOOLEAN, Resolve(k, cond)
  PROVE  IInv'
<1>1. Turn(k) /\ Observe(k, cond) /\ active[k] # NoEvent
  BY DEF Resolve
<1>2. LoopOK' /\ TodoCompiled' /\ RulesOK'
  BY <1>1, TurnLoop DEF Resolve, world
<1>3. active[k] \in Event
  BY <1>1, TurnFacts
<1>4. ActiveOK'
  BY DEF Resolve, IInv, ActiveOK
<1>5. CountsOK'
  BY <1>1, ObserveType DEF Resolve, IInv, CountsOK
<1>6. RingOK'
  BY <1>3, EntryType, UpdateType DEF Resolve, IInv
<1>7. ChatOK'
  <2>1. ChatOK
    BY DEF IInv
  <2>2. owed' \in [Key -> Int]
    BY <2>1 DEF Resolve, ChatOK
  <2> QED BY <2>1, <2>2 DEF Resolve, ChatOK
<1> QED BY <1>2, <1>4, <1>5, <1>6, <1>7
        DEF Resolve, IInv, WorldOK, SinceOK, SavedOK, FiresOK, world

LEMMA EvaluateInv ==
  ASSUME IInv, Evaluate
  PROVE  IInv'
<1>1. PICK k \in todo : \E cond \in Verdict(k) :
        Arm(k, cond) \/ NewFire(k, cond) \/ Continue(k, cond) \/ Resolve(k, cond)
  BY DEF Evaluate
<1>2. PICK cond \in Verdict(k) :
        Arm(k, cond) \/ NewFire(k, cond) \/ Continue(k, cond) \/ Resolve(k, cond)
  BY <1>1
<1>3. k \in Key /\ cond \in BOOLEAN
  BY DEF IInv, LoopOK, Verdict
<1> QED BY <1>2, <1>3, ArmInv, NewFireInv, ContinueInv, ResolveInv

(* The ageing of a tick and the runs it breaks.                            *)
LEMMA SkipType ==
  ASSUME CountsOK, NEW keys, Skip(keys)
  PROVE  matched' \in [Key -> 0 .. StreakCap] /\ unmatched' \in [Key -> 0 .. StreakCap]
BY EngineAssumption DEF Skip, CountsOK

LEMMA AgeType ==
  ASSUME NEW t \in Seconds
  PROVE  UpTo(t + TickSecs, LongAgo) \in Seconds
BY EngineAssumption DEF Seconds, UpTo, TickSecs

LEMMA SnapshotInv ==
  ASSUME IInv, TickSnapshot
  PROVE  IInv'
<1>1. CountsOK'
  BY SkipType DEF IInv, TickSnapshot, CountsOK
<1>2. SinceOK'
  BY AgeType DEF IInv, TickSnapshot, SinceOK
<1>3. ActiveOK'
  <2>1. ASSUME NEW k \in Key, active[k] # NoEvent
        PROVE  [active[k] EXCEPT !.age = UpTo(@ + TickSecs, LongAgo)] \in Event
    <3>1. active[k] \in Event /\ active[k].age \in Seconds
      BY <2>1 DEF IInv, ActiveOK, Event
    <3>2. UpTo(active[k].age + TickSecs, LongAgo) \in Seconds
      BY <3>1, AgeType
    <3> QED BY <3>1, <3>2 DEF Event
  <2>2. /\ active' = [k \in Key |-> IF active[k] = NoEvent THEN NoEvent
             ELSE [active[k] EXCEPT !.age = UpTo(@ + TickSecs, LongAgo)]]
        /\ lastSeq' = lastSeq /\ lastSeq \in Nat
    BY DEF TickSnapshot, IInv, ActiveOK
  <2> QED BY <2>1, <2>2 DEF ActiveOK
<1>4. LoopOK' /\ TodoCompiled'
  BY DEF TickSnapshot, IInv, WorldOK, LoopOK, TodoCompiled
<1> QED BY <1>1, <1>2, <1>3, <1>4 DEF TickSnapshot, IInv, WorldOK, RulesOK, RingOK,
           SavedOK, FiresOK, ChatOK, world, ring, chat

LEMMA BeginInv ==
  ASSUME IInv, TickBegin
  PROVE  IInv'
<1>1. CountsOK'
  BY SkipType DEF IInv, TickBegin, CountsOK
<1>2. LoopOK' /\ TodoCompiled'
  BY DEF TickBegin, IInv, LoopOK, RulesOK, TodoCompiled, Key
<1> QED BY <1>1, <1>2 DEF TickBegin, IInv, WorldOK, RulesOK, ActiveOK, SinceOK, RingOK,
           SavedOK, FiresOK, ChatOK, world, ring, chat

(* What a card answers is incidents with severities.                       *)
LEMMA AnswersType ==
  ASSUME NEW card \in SUBSET Fire
  PROVE  answersTo(card) \subseteq Nat \X Severity
BY DEF answersTo, Fire

LEMMA EndInv ==
  ASSUME IInv, TickEnd
  PROVE  IInv'
<1> DEFINE now == UNION {c \in cards' : onlyInfo(c)}
<1>1. cards' \subseteq SUBSET Fire
  BY CardsType DEF IInv, FiresOK, TickEnd
<1>2. ActiveOK'
  BY MarkedType DEF TickEnd, IInv, ActiveOK
<1>3. ChatOK'
  <2>1. ChatOK
    BY DEF IInv
  <2>2. triage' \subseteq [fires: SUBSET Fire, sent: BOOLEAN]
    <3>1. ASSUME NEW c \in cards'
          PROVE  [fires |-> c, sent |-> FALSE] \in [fires: SUBSET Fire, sent: BOOLEAN]
      BY <1>1
    <3>2. triage' = triage \cup {[fires |-> c, sent |-> FALSE] : c \in {d \in cards' : ~onlyInfo(d)}}
      BY DEF TickEnd
    <3> QED BY <2>1, <3>1, <3>2 DEF ChatOK
  <2>3. owed' \in [Key -> Int]
    <3>1. owed' = [k \in Key |-> IF k \in keysOf(now) THEN owed[k] + 1 ELSE owed[k]]
      BY DEF TickEnd
    <3>2. \A k \in Key : owed[k] \in Int
      BY <2>1 DEF ChatOK
    <3> HIDE DEF now
    <3> QED BY <3>1, <3>2
  <2>4. carded' \subseteq Nat
    BY <1>1, <2>1 DEF TickEnd, ChatOK, idsOf, Fire
  <2>5. answered' \subseteq Nat \X Severity
    <3>1. now \in SUBSET Fire
      BY <1>1
    <3>2. answered' = answered \cup answersTo(now)
      BY DEF TickEnd
    <3> HIDE DEF now
    <3> QED BY <2>1, <3>1, <3>2, AnswersType DEF ChatOK
  <2> QED BY <1>1, <2>2, <2>3, <2>4, <2>5 DEF ChatOK
<1>4. LoopOK' /\ TodoCompiled' /\ FiresOK'
  BY DEF TickEnd, IInv, LoopOK, TodoCompiled, FiresOK
<1> QED BY <1>2, <1>3, <1>4 DEF TickEnd, IInv, WorldOK, RulesOK, CountsOK, SinceOK,
           RingOK, SavedOK, world, counts, ring

LEMMA FlushInv ==
  ASSUME IInv, FlushCopy \/ \E ok \in BOOLEAN : FlushSave(ok)
  PROVE  IInv'
<1>1. CASE FlushCopy
  <2>1. RingOK' /\ SavedOK' /\ ChatOK'
    BY <1>1 DEF FlushCopy, IInv, RingOK, SavedOK, ChatOK
  <2>2. LoopOK' /\ TodoCompiled'
    BY <1>1 DEF FlushCopy, IInv, LoopOK, TodoCompiled
  <2> QED BY <1>1, <2>1, <2>2 DEF FlushCopy, IInv, WorldOK, RulesOK, ActiveOK,
             CountsOK, SinceOK, FiresOK, world, counts
<1>2. ASSUME NEW ok \in BOOLEAN, FlushSave(ok) PROVE IInv'
  <2>1. <<>> \in Seq(Entry)
    OBVIOUS
  <2>2. RingOK' /\ SavedOK'
    BY <1>2, <2>1 DEF FlushSave, IInv, RingOK, SavedOK
  <2>3. LoopOK' /\ TodoCompiled'
    BY <1>2 DEF FlushSave, IInv, LoopOK, TodoCompiled
  <2> QED BY <1>2, <2>2, <2>3 DEF FlushSave, IInv, WorldOK, RulesOK, ActiveOK,
             CountsOK, SinceOK, FiresOK, ChatOK, world, counts, chat
<1> QED BY <1>1, <1>2

LEMMA TriageInv ==
  ASSUME IInv, Triage
  PROVE  IInv'
<1> PICK t \in triage : TriageExpected(t) \/ TriageSend(t) \/ TriageMark(t)
  BY DEF Triage
<1>1. t \in [fires: SUBSET Fire, sent: BOOLEAN] /\ ChatOK
  BY DEF IInv, ChatOK
<1>2. CASE TriageExpected(t)
  <2>1. ChatOK'
    BY <1>1, <1>2, AnswersType DEF TriageExpected, ChatOK
  <2> QED BY <1>2, <2>1 DEF TriageExpected, IInv, WorldOK, RulesOK, ActiveOK, CountsOK,
             SinceOK, RingOK, SavedOK, LoopOK, FiresOK, TodoCompiled, world, counts, ring, loop
<1>3. CASE TriageSend(t)
  <2>1. triage' \subseteq [fires: SUBSET Fire, sent: BOOLEAN]
    BY <1>1, <1>3 DEF TriageSend, ChatOK
  <2>2. owed' \in [Key -> Int]
    BY <1>1, <1>3 DEF TriageSend, ChatOK
  <2>3. carded' \subseteq Nat
    BY <1>1, <1>3 DEF TriageSend, ChatOK, idsOf, Fire
  <2>4. ChatOK'
    BY <1>1, <1>3, <2>1, <2>2, <2>3, AnswersType DEF TriageSend, ChatOK
  <2> QED BY <1>3, <2>4 DEF TriageSend, IInv, WorldOK, RulesOK, ActiveOK, CountsOK,
             SinceOK, RingOK, SavedOK, LoopOK, FiresOK, TodoCompiled, world, counts, ring, loop
<1>4. CASE TriageMark(t)
  <2>1. ActiveOK'
    BY <1>4, MarkedType DEF TriageMark, IInv, ActiveOK
  <2>2. ChatOK'
    BY <1>1, <1>4 DEF TriageMark, ChatOK
  <2> QED BY <1>4, <2>1, <2>2 DEF TriageMark, IInv, WorldOK, RulesOK, CountsOK,
             SinceOK, RingOK, SavedOK, LoopOK, FiresOK, TodoCompiled, world, counts, ring, loop
<1> QED BY <1>2, <1>3, <1>4

LEMMA AckInv ==
  ASSUME IInv, NEW k \in Key, Ack(k)
  PROVE  IInv'
<1>1. active[k] \in Event /\ active \in [Key -> Event \cup {NoEvent}]
  BY DEF Ack, IInv, ActiveOK
<1>2. [active[k] EXCEPT !.acked = TRUE] \in Event
  BY <1>1 DEF Event
<1>3. active' = [active EXCEPT ![k] = [active[k] EXCEPT !.acked = TRUE]]
  BY <1>1 DEF Ack
<1>4. ActiveOK' /\ active'[k] \in Event
  BY <1>1, <1>2, <1>3 DEF Ack, IInv, ActiveOK
<1>5. RingOK'
  BY <1>4, EntryType, UpdateType DEF Ack, IInv
<1> QED BY <1>4, <1>5 DEF Ack, IInv, WorldOK, RulesOK, CountsOK, SinceOK, SavedOK,
           LoopOK, FiresOK, ChatOK, TodoCompiled, world, counts, loop, chat

LEMMA ReloadInv ==
  ASSUME IInv, NEW s \in Edits, Reload(s)
  PROVE  IInv'
<1>1. s \in Stores
  BY EngineAssumption
<1>2. WorldOK' /\ RulesOK' /\ TodoCompiled'
  BY <1>1, CompileType DEF Reload, IInv, WorldOK, RulesOK, TodoCompiled, loop
<1> QED BY <1>2 DEF Reload, IInv, ActiveOK, CountsOK, SinceOK, RingOK, SavedOK,
           LoopOK, FiresOK, ChatOK, counts, ring, loop, chat

LEMMA NodeInv ==
  ASSUME IInv, NEW n \in Node, NodeLeaves(n) \/ evictNode(n) \/ NodeScraped(n)
  PROVE  IInv'
<1>1. WorldOK'
  BY EngineAssumption DEF NodeLeaves, evictNode, NodeScraped, IInv, WorldOK, View!Leaves,
                            View!Evicted, View!Scraped
<1>2. ActiveOK' /\ SinceOK'
  <2>1. CASE evictNode(n)
    <3>1. ActiveOK'
      BY <2>1 DEF evictNode, IInv, ActiveOK
    <3>2. SinceOK'
      BY <2>1, EngineAssumption DEF evictNode, IInv, SinceOK, Seconds
    <3> QED BY <3>1, <3>2
  <2>2. CASE NodeLeaves(n) \/ NodeScraped(n)
    BY <2>2 DEF NodeLeaves, NodeScraped, IInv, ActiveOK, SinceOK
  <2> QED BY <2>1, <2>2
<1> QED BY <1>1, <1>2 DEF NodeLeaves, evictNode, NodeScraped, IInv, RulesOK, CountsOK,
           RingOK, SavedOK, LoopOK, FiresOK, ChatOK, TodoCompiled, counts, ring, loop, chat

LEMMA RestartInv ==
  ASSUME IInv, Restart
  PROVE  IInv'
<1>1. RulesOK' /\ WorldOK'
  BY CompileType DEF Restart, IInv, RulesOK, WorldOK, View!Restart
<1>2. StreakCap \in Nat /\ LongAgo \in Nat /\ HistCap \in Nat /\ <<>> \in Seq(Entry)
  BY EngineAssumption
<1>3. ActiveOK' /\ CountsOK' /\ SinceOK'
  BY <1>2 DEF Restart, ActiveOK, CountsOK, SinceOK, Seconds
<1>4. RingOK' /\ SavedOK'
  <2>1. history' = LastN(saved, HistCap) \/ history' = <<>>
    BY DEF Restart
  <2>2. Len(<<>>) <= HistCap
    BY EngineAssumption
  <2>3. saved \in Seq(Entry)
    BY DEF IInv, SavedOK
  <2>4. history' \in Seq(Entry) /\ Len(history') <= HistCap
    BY <1>2, <2>1, <2>2, <2>3, LastNType
  <2> QED BY <1>2, <2>4 DEF Restart, IInv, RingOK, SavedOK
<1>5. LoopOK' /\ FiresOK' /\ ChatOK' /\ TodoCompiled'
  BY DEF Restart, LoopOK, FiresOK, ChatOK, TodoCompiled
<1> QED BY <1>1, <1>3, <1>4, <1>5 DEF IInv

LEMMA StutterInv ==
  ASSUME IInv, UNCHANGED vars
  PROVE  IInv'
BY DEF vars, IInv, WorldOK, RulesOK, ActiveOK, CountsOK, SinceOK, RingOK, SavedOK,
       LoopOK, FiresOK, ChatOK, TodoCompiled, world, counts, ring, loop, chat

(* The steps of the system, one disjunct for each lemma above.             *)
LEMMA NextCases ==
  ASSUME Next
  PROVE  \/ TickSnapshot \/ TickBegin \/ Evaluate \/ TickEnd
         \/ FlushCopy \/ \E ok \in BOOLEAN : FlushSave(ok)
         \/ Triage \/ \E k \in Key : Ack(k)
         \/ \E s \in Edits : Reload(s)
         \/ \E n \in Node : NodeLeaves(n) \/ evictNode(n) \/ NodeScraped(n)
         \/ Restart
BY EngineAssumption DEF Next, Tick

LEMMA InvInductive == IInv /\ [Next]_vars => IInv'
<1> SUFFICES ASSUME IInv, [Next]_vars PROVE IInv'
  OBVIOUS
<1>1. CASE UNCHANGED vars
  BY <1>1, StutterInv
<1>2. CASE Next
  BY <1>2, NextCases, SnapshotInv, BeginInv, EvaluateInv, EndInv, FlushInv, TriageInv,
     AckInv, ReloadInv, NodeInv, RestartInv
<1> QED BY <1>1, <1>2

LEMMA Invariance == Spec => []IInv
BY InitInv, InvInductive, PTL DEF Spec

(* The engine's state is well formed in every reachable state: its counters*)
(* and ring stay in bounds, and a tick only evaluates rules that exist.    *)
THEOREM TypeCorrect == Spec => []TypeOK
BY Invariance, InvType, PTL

-----------------------------------------------------------------------------
(* Distinct incidents.  A step either keeps every incident it leaves       *)
(* active as it was, opens one with the next number, or is a restart.      *)
LEMMA IdSteps ==
  ASSUME IInv, [Next]_vars
  PROVE  \/ /\ lastSeq' = lastSeq
            /\ \A k \in Key : active'[k] # NoEvent =>
                 active[k] # NoEvent /\ active'[k].id = active[k].id
         \/ /\ lastSeq' = lastSeq + 1
            /\ \E k \in Key :
                 /\ active'[k].id = lastSeq + 1
                 /\ \A j \in Key \ {k} : active'[j] = active[j]
         \/ \A k \in Key : active'[k] = NoEvent
<1> DEFINE Keep == /\ lastSeq' = lastSeq
                   /\ \A k \in Key : active'[k] # NoEvent =>
                        active[k] # NoEvent /\ active'[k].id = active[k].id
<1>0. /\ active \in [Key -> Event \cup {NoEvent}] /\ lastSeq \in Nat
      /\ \A k \in Key : active[k] # NoEvent => active[k] \in Event
  BY DEF IInv, ActiveOK
<1>1. CASE UNCHANGED vars
  BY <1>1 DEF vars
<1>2. CASE UNCHANGED <<active, lastSeq>>
  BY <1>2
<1>3. CASE TickSnapshot
  <2>1. ASSUME NEW k \in Key, active'[k] # NoEvent
        PROVE  active[k] # NoEvent /\ active'[k].id = active[k].id
    BY <1>0, <1>3, <2>1 DEF TickSnapshot, Event
  <2> QED BY <1>3, <2>1 DEF TickSnapshot
<1>4. CASE Evaluate
  <2>1. PICK k \in todo : \E cond \in Verdict(k) :
          Arm(k, cond) \/ NewFire(k, cond) \/ Continue(k, cond) \/ Resolve(k, cond)
    BY <1>4 DEF Evaluate
  <2>2. PICK cond \in Verdict(k) :
          Arm(k, cond) \/ NewFire(k, cond) \/ Continue(k, cond) \/ Resolve(k, cond)
    BY <2>1
  <2>3. k \in Key
    BY DEF IInv, LoopOK
  <2>4. CASE Arm(k, cond)
    BY <2>4 DEF Arm
  <2>5. CASE NewFire(k, cond)
    <3>1. newEvent(k).id = lastSeq + 1
      BY <1>0, <2>3, <2>5, TurnFacts, NewEventType DEF NewFire
    <3>2. active' = [active EXCEPT ![k] = newEvent(k)] /\ lastSeq' = lastSeq + 1
      BY <2>5 DEF NewFire
    <3> QED BY <1>0, <2>3, <3>1, <3>2
  <2>6. CASE Continue(k, cond)
    <3> DEFINE ev == escalated([active[k] EXCEPT !.ticks = SustainTicks])
               nudge == firstNudge(k, ev)
    <3>1. active[k] \in Event /\ active[k] # NoEvent
      BY <1>0, <2>3, <2>6 DEF Continue
    <3>2. /\ [active[k] EXCEPT !.ticks = SustainTicks] \in Event
          /\ [active[k] EXCEPT !.ticks = SustainTicks].id = active[k].id
      BY <3>1 DEF Event, SustainTicks
    <3>3. ev \in Event /\ ev.id = active[k].id
      BY <3>2, EscalatedType
    <3>4. /\ active' = [active EXCEPT ![k] = IF nudge THEN [ev EXCEPT !.tgFireSent = TRUE] ELSE ev]
          /\ lastSeq' = lastSeq
      BY <2>6 DEF Continue
    <3> HIDE DEF ev, nudge
    <3>5. [ev EXCEPT !.tgFireSent = TRUE].id = active[k].id
      BY <3>3 DEF Event
    <3>6. active'[k].id = active[k].id /\ \A j \in Key \ {k} : active'[j] = active[j]
      BY <1>0, <2>3, <3>3, <3>4, <3>5
    <3> QED BY <3>1, <3>4, <3>6
  <2>7. CASE Resolve(k, cond)
    BY <1>0, <2>7 DEF Resolve
  <2> QED BY <2>2, <2>4, <2>5, <2>6, <2>7
<1>5. CASE TickEnd
  BY <1>5, MarkedType DEF TickEnd, IInv
<1>6. CASE Triage
  <2>1. PICK t \in triage : TriageExpected(t) \/ TriageSend(t) \/ TriageMark(t)
    BY <1>6 DEF Triage
  <2> QED BY <2>1, MarkedType DEF TriageExpected, TriageSend, TriageMark, IInv
<1>7. ASSUME NEW j \in Key, Ack(j) PROVE Keep
  <2>1. /\ active' = [active EXCEPT ![j] = [active[j] EXCEPT !.acked = TRUE]]
        /\ lastSeq' = lastSeq /\ active[j] # NoEvent /\ active[j] \in Event
    BY <1>0, <1>7 DEF Ack
  <2>2. [active[j] EXCEPT !.acked = TRUE].id = active[j].id
    BY <2>1 DEF Event
  <2> QED BY <1>0, <2>1, <2>2
<1>8. ASSUME NEW n \in Node, evictNode(n) PROVE Keep
  BY <1>8 DEF evictNode
<1>9. CASE Restart
  BY <1>9 DEF Restart
<1>10. CASE Next
  <2>1. ASSUME \/ TickBegin \/ FlushCopy \/ \E ok \in BOOLEAN : FlushSave(ok)
               \/ \E s \in Edits : Reload(s)
               \/ \E n \in Node : NodeLeaves(n) \/ NodeScraped(n)
        PROVE  UNCHANGED <<active, lastSeq>>
    BY <2>1 DEF TickBegin, FlushCopy, FlushSave, Reload, NodeLeaves, NodeScraped
  <2> QED BY <1>2, <1>3, <1>4, <1>5, <1>6, <1>7, <1>8, <1>9, <1>10, <2>1, NextCases
<1> QED BY <1>1, <1>10

(* However incidents open, escalate, close, are evicted or lost in a       *)
(* restart, no two active ones share an id and none is ahead of lastSeq.   *)
THEOREM IncidentIds == Spec => []IncidentsAreDistinct
<1>1. Init => IncidentsAreDistinct
  BY DEF Init, IncidentsAreDistinct
<1>2. IInv /\ IncidentsAreDistinct /\ [Next]_vars => IncidentsAreDistinct'
  <2> SUFFICES ASSUME IInv, IncidentsAreDistinct, [Next]_vars PROVE IncidentsAreDistinct'
    OBVIOUS
  <2>1. /\ lastSeq \in Nat
        /\ \A k \in Key : active[k] # NoEvent => active[k].id \in Nat
    BY DEF IInv, ActiveOK, Event
  <2>2. CASE /\ lastSeq' = lastSeq
             /\ \A k \in Key : active'[k] # NoEvent =>
                  active[k] # NoEvent /\ active'[k].id = active[k].id
    BY <2>2 DEF IncidentsAreDistinct
  <2>3. ASSUME lastSeq' = lastSeq + 1, NEW k \in Key, active'[k].id = lastSeq + 1,
               \A j \in Key \ {k} : active'[j] = active[j]
        PROVE  IncidentsAreDistinct'
    <3>1. ASSUME NEW i \in Key, active'[i] # NoEvent
          PROVE  active'[i].id <= lastSeq' /\ (i # k => active'[i].id <= lastSeq)
      BY <2>1, <2>3, <3>1 DEF IncidentsAreDistinct
    <3>2. ASSUME NEW i \in Key, NEW j \in Key, active'[i] # NoEvent, active'[j] # NoEvent,
                 active'[i].id = active'[j].id
          PROVE  i = j
      BY <2>1, <2>3, <3>1, <3>2 DEF IncidentsAreDistinct
    <3> QED BY <3>1, <3>2 DEF IncidentsAreDistinct
  <2>4. CASE \A k \in Key : active'[k] = NoEvent
    BY <2>4 DEF IncidentsAreDistinct
  <2> QED BY <2>2, <2>3, <2>4, IdSteps
<1> QED BY <1>1, <1>2, Invariance, PTL DEF Spec

-----------------------------------------------------------------------------
(* The sustain debounce.  It holds as long as no node leaves and no rule   *)
(* disappears and returns: an absence breaks a run of matches, and nothing *)
(* clears the counter of a key that is not evaluated.                      *)
SteadyKeys ==
  /\ Removable = {}
  /\ \A s, t \in Stores : DOMAIN compile(s) = DOMAIN compile(t)

(* Every match counted in pending is one of the current run.               *)
Counted ==
  /\ rules = compile(store)
  /\ seen \subseteq fleet /\ \A k \in todo : k[1] \in fleet
  /\ \A k \in Key : pending[k] # 0 => k[1] \in fleet /\ k[2] \in DOMAIN rules
  /\ \A k \in Key : UpTo(pending[k], StreakCap) <= matched[k]

LEMMA CountedTurn ==
  ASSUME IInv, Counted, NEW k \in Key, NEW cond \in BOOLEAN, Turn(k), Observe(k, cond),
         \/ pending' = [pending EXCEPT ![k] = pendingNext(k, cond)]
         \/ pending' = [pending EXCEPT ![k] = 0],
         UNCHANGED <<rules, store, seen, fleet>>
  PROVE  Counted'
<1>1. /\ StreakCap \in Nat /\ pending[k] \in Nat /\ matched[k] \in 0 .. StreakCap
      /\ pending \in [Key -> Nat] /\ matched \in [Key -> 0 .. StreakCap]
  BY EngineAssumption DEF IInv, CountsOK
<1>2. k[1] \in fleet /\ k[2] \in DOMAIN rules /\ todo' \subseteq todo
  BY DEF Turn, Counted, IInv, TodoCompiled
<1>3. /\ \A j \in Key \ {k} : pending'[j] = pending[j] /\ matched'[j] = matched[j]
      /\ matched'[k] = IF cond THEN UpTo(matched[k] + 1, StreakCap) ELSE 0
      /\ pending'[k] = 0 \/ pending'[k] = pendingNext(k, cond)
  BY <1>1 DEF Observe
<1>4. /\ ~cond => pendingNext(k, cond) = 0
      /\ pendingNext(k, cond) \in {0, pending[k], pending[k] + 1}
  BY DEF pendingNext
<1>5. UpTo(pending[k], StreakCap) <= matched[k]
  BY DEF Counted
<1>6. UpTo(pending'[k], StreakCap) <= matched'[k]
  BY <1>1, <1>3, <1>4, <1>5 DEF UpTo
<1>7. \A j \in Key : UpTo(pending'[j], StreakCap) <= matched'[j]
  BY <1>3, <1>6 DEF Counted
<1>8. \A j \in Key : pending'[j] # 0 => j[1] \in fleet /\ j[2] \in DOMAIN rules
  BY <1>2, <1>3 DEF Counted
<1> QED BY <1>2, <1>7, <1>8 DEF Counted

LEMMA CountedSkip ==
  ASSUME IInv, Counted, NEW keys, Skip(keys),
         \A k \in Key : k \in keys => pending[k] = 0
  PROVE  \A k \in Key : UpTo(pending[k], StreakCap) <= matched'[k]
<1> SUFFICES ASSUME NEW k \in Key PROVE UpTo(pending[k], StreakCap) <= matched'[k]
  OBVIOUS
<1>1. StreakCap \in Nat /\ matched'[k] = (IF k \in keys THEN 0 ELSE matched[k])
  BY EngineAssumption DEF Skip
<1>2. UpTo(0, StreakCap) = 0
  BY <1>1 DEF UpTo
<1> QED BY <1>1, <1>2 DEF Counted

LEMMA CountedInit == Init => Counted
<1> SUFFICES ASSUME Init PROVE Counted
  OBVIOUS
<1>1. UpTo(0, StreakCap) = 0
  BY EngineAssumption DEF UpTo
<1> QED BY <1>1 DEF Init, Counted

LEMMA CountedInductive ==
  ASSUME SteadyKeys
  PROVE  IInv /\ Counted /\ [Next]_vars => Counted'
<1> SUFFICES ASSUME IInv, Counted, [Next]_vars PROVE Counted'
  OBVIOUS
<1>1. CASE UNCHANGED <<rules, store, seen, todo, fleet, pending, matched>>
  BY <1>1 DEF Counted
<1>2. CASE TickSnapshot
  <2>1. UNCHANGED <<rules, store, todo, fleet, pending>> /\ seen' = fleet
        /\ Skip({k \in Key : k[1] \notin fleet})
    BY <1>2 DEF TickSnapshot, world
  <2>2. \A k \in Key : UpTo(pending[k], StreakCap) <= matched'[k]
    BY <2>1, CountedSkip DEF Counted
  <2> QED BY <2>1, <2>2 DEF Counted
<1>3. CASE TickBegin
  <2>1. UNCHANGED <<rules, store, seen, fleet, pending>> /\ todo' = seen \X DOMAIN rules
        /\ Skip({k \in Key : k[2] \notin DOMAIN rules})
    BY <1>3 DEF TickBegin, world
  <2>2. \A k \in Key : UpTo(pending[k], StreakCap) <= matched'[k]
    BY <2>1, CountedSkip DEF Counted
  <2> QED BY <2>1, <2>2 DEF Counted
<1>4. CASE Evaluate
  <2>1. PICK k \in todo : \E cond \in Verdict(k) :
          Arm(k, cond) \/ NewFire(k, cond) \/ Continue(k, cond) \/ Resolve(k, cond)
    BY <1>4 DEF Evaluate
  <2>2. PICK cond \in Verdict(k) :
          Arm(k, cond) \/ NewFire(k, cond) \/ Continue(k, cond) \/ Resolve(k, cond)
    BY <2>1
  <2>3. k \in Key /\ cond \in BOOLEAN
    BY DEF IInv, LoopOK, Verdict
  <2>4. /\ Turn(k) /\ Observe(k, cond) /\ UNCHANGED <<rules, store, seen, fleet>>
        /\ \/ pending' = [pending EXCEPT ![k] = pendingNext(k, cond)]
           \/ pending' = [pending EXCEPT ![k] = 0]
    BY <2>2 DEF Arm, NewFire, Continue, Resolve, world
  <2> QED BY <2>3, <2>4, CountedTurn
<1>5. CASE \E s \in Edits : Reload(s)
  <2>1. PICK s \in Edits : Reload(s)
    BY <1>5
  <2>2. store \in Stores /\ s \in Stores
    BY EngineAssumption DEF IInv, WorldOK
  <2>3. rules' = compile(store') /\ DOMAIN rules' = DOMAIN rules
    BY <2>1, <2>2 DEF Reload, SteadyKeys, Counted
  <2> QED BY <2>1, <2>3 DEF Reload, Counted, counts, loop
<1>6. CASE Restart
  <2>1. UpTo(0, StreakCap) = 0
    BY EngineAssumption DEF UpTo
  <2> QED BY <1>6, <2>1 DEF Restart, Counted
<1>7. CASE \E n \in Node : NodeLeaves(n) \/ evictNode(n) \/ NodeScraped(n)
  <2>1. PICK n \in Node : evictNode(n) \/ NodeScraped(n)
    BY <1>7 DEF NodeLeaves, SteadyKeys
  <2>2. fleet \subseteq fleet'
    BY <2>1 DEF evictNode, NodeScraped, View!Evicted, View!Scraped
  <2>3. UNCHANGED <<rules, store, seen, todo, pending, matched>>
    BY <2>1 DEF evictNode, NodeScraped, counts, loop
  <2> QED BY <2>2, <2>3 DEF Counted
<1>8. CASE UNCHANGED vars
  BY <1>1, <1>8 DEF vars, world, counts, loop
<1>9. ASSUME \/ TickEnd \/ FlushCopy \/ \E ok \in BOOLEAN : FlushSave(ok)
             \/ Triage \/ \E k \in Key : Ack(k)
      PROVE  Counted'
  <2>1. UNCHANGED <<rules, store, fleet, pending, matched>>
    BY <1>9 DEF TickEnd, FlushCopy, FlushSave, Triage, TriageExpected, TriageSend,
                TriageMark, Ack, world, counts
  <2>2. todo' = todo /\ (seen' = seen \/ seen' = {})
    BY <1>9 DEF TickEnd, FlushCopy, FlushSave, Triage, TriageExpected, TriageSend,
                TriageMark, Ack, loop
  <2> QED BY <2>1, <2>2 DEF Counted
<1> QED BY <1>2, <1>3, <1>4, <1>5, <1>6, <1>7, <1>8, <1>9, NextCases

(* An incident is born only of a full run of consecutive matching ticks,   *)
(* for every sustain time, its edits, inheritance and restarts included.   *)
THEOREM SustainRespected ==
  ASSUME SteadyKeys
  PROVE  Spec => DebouncedFire
<1> DEFINE Born == \A k \in Key : active[k] = NoEvent /\ active'[k] # NoEvent
                     => matched'[k] >= UpTo(reqFire(k), StreakCap)
<1>1. IInv /\ Counted /\ [Next]_vars => [Born]_vars
  <2> SUFFICES ASSUME IInv, Counted, Next,
                      NEW k \in Key, active[k] = NoEvent, active'[k] # NoEvent
               PROVE  matched'[k] >= UpTo(reqFire(k), StreakCap)
    OBVIOUS
  <2>1. PICK cond \in BOOLEAN : NewFire(k, cond)
    <3>1. Evaluate
      BY NextCases, MarkedType DEF IInv, ActiveOK, TickSnapshot, TickBegin, TickEnd, FlushCopy,
         FlushSave, Triage, TriageExpected, TriageSend, TriageMark, Ack, Reload, NodeLeaves,
         evictNode, NodeScraped, Restart
    <3>2. PICK j \in todo : \E cond \in Verdict(j) :
            Arm(j, cond) \/ NewFire(j, cond) \/ Continue(j, cond) \/ Resolve(j, cond)
      BY <3>1 DEF Evaluate
    <3>3. PICK cond \in Verdict(j) :
            Arm(j, cond) \/ NewFire(j, cond) \/ Continue(j, cond) \/ Resolve(j, cond)
      BY <3>2
    <3>4. j \in Key /\ cond \in BOOLEAN
      BY DEF IInv, LoopOK, Verdict
    <3>5. NewFire(j, cond) /\ j = k
      BY <3>3, <3>4 DEF IInv, ActiveOK, Arm, NewFire, Continue, Resolve
    <3> QED BY <3>4, <3>5
  <2>2. /\ StreakCap \in Nat /\ pending[k] \in Nat /\ matched[k] \in 0 .. StreakCap
        /\ matched \in [Key -> 0 .. StreakCap]
        /\ UpTo(pending[k], StreakCap) <= matched[k]
    BY EngineAssumption DEF IInv, CountsOK, Counted
  <2>3. /\ cond /\ pendingNext(k, cond) >= reqFire(k)
        /\ matched'[k] = UpTo(matched[k] + 1, StreakCap)
    BY <2>1, <2>2 DEF NewFire, Observe, pendingNext
  <2>4. pendingNext(k, cond) \in {pending[k], pending[k] + 1}
    BY <2>3 DEF pendingNext
  <2>5. reqFire(k) \in Int
    <3>1. rules[k[2]].sustain \in Seconds
      BY <2>1, TurnFacts DEF NewFire, CompiledRule
    <3>2. rules[k[2]].sustain \in Int
      BY <3>1 DEF Seconds
    <3> QED BY <3>2 DEF reqFire, ticksFor, TickSecs
  <2>6. reqFire(k) <= pending[k] + 1
    <3>1. pendingNext(k, cond) = pending[k] \/ pendingNext(k, cond) = pending[k] + 1
      BY <2>4
    <3>2. ASSUME NEW n, NEW p \in Nat, NEW r \in Int, n >= r, n = p \/ n = p + 1
          PROVE  r <= p + 1
      BY <3>2
    <3>3. pendingNext(k, cond) >= reqFire(k)
      BY <2>3
    <3> QED BY <2>2, <2>5, <3>1, <3>2, <3>3
  <2>7. ASSUME NEW p \in Nat, NEW m \in Nat, NEW c \in Nat, NEW r \in Int,
               r <= p + 1, UpTo(p, c) <= m
        PROVE  UpTo(m + 1, c) >= UpTo(r, c)
    BY <2>7 DEF UpTo
  <2> QED BY <2>2, <2>3, <2>5, <2>6, <2>7
<1>2. Spec => []Counted
  BY Invariance, CountedInit, CountedInductive, PTL DEF Spec
<1> QED BY <1>1, <1>2, Invariance, PTL DEF Spec, DebouncedFire

-----------------------------------------------------------------------------
(* The history in Postgres.  A save writes the copy taken when the ring    *)
(* was marked clean, so both agree until the ring changes or a save fails; *)
(* a load that failed leaves the ring empty.                               *)
SavedInv ==
  /\ Len(saved) <= HistCap /\ Len(copy) <= HistCap
  /\ phase # "save" /\ ~historyDirty => saved = history \/ history = <<>>
  /\ phase = "save" /\ ~historyDirty => copy = history

(* A step that touches neither marks the ring dirty or leaves it alone.    *)
LEMMA SavedKept ==
  ASSUME SavedInv, UNCHANGED <<saved, copy>>, historyDirty' = TRUE \/ UNCHANGED ring,
         phase' = "save" <=> phase = "save"
  PROVE  SavedInv'
BY DEF SavedInv, ring

LEMMA UpdateMarks ==
  ASSUME NEW e, updateHistoryByID(e)
  PROVE  historyDirty' = TRUE \/ UNCHANGED ring
BY DEF updateHistoryByID

(* A turn leaves saves alone, and marks what it changes.                   *)
LEMMA TurnSaved ==
  ASSUME SavedInv, Evaluate
  PROVE  SavedInv'
<1>1. PICK k \in todo : \E cond \in Verdict(k) :
        Arm(k, cond) \/ NewFire(k, cond) \/ Continue(k, cond) \/ Resolve(k, cond)
  BY DEF Evaluate
<1>2. PICK cond \in Verdict(k) :
        Arm(k, cond) \/ NewFire(k, cond) \/ Continue(k, cond) \/ Resolve(k, cond)
  BY <1>1
<1>3. UNCHANGED <<saved, copy, phase>>
  BY <1>2 DEF Arm, NewFire, Continue, Resolve
<1>4. historyDirty' = TRUE \/ UNCHANGED ring
  <2>1. CASE Arm(k, cond)
    BY <2>1 DEF Arm
  <2>2. CASE NewFire(k, cond)
    BY <2>2 DEF NewFire, pushHistory
  <2>3. CASE Continue(k, cond)
    BY <2>3, UpdateMarks DEF Continue
  <2>4. CASE Resolve(k, cond)
    BY <2>4, UpdateMarks DEF Resolve
  <2> QED BY <1>2, <2>1, <2>2, <2>3, <2>4
<1> QED BY <1>3, <1>4, SavedKept

(* With nothing dirty and no save in flight, Postgres has the whole ring,  *)
(* unless that is empty: refused saves and loads, acknowledgements during  *)
(* a save and restarts included.                                           *)
THEOREM CleanIsSaved == Spec => []CleanMeansSaved
<1>1. Init => SavedInv
  BY EngineAssumption DEF Init, SavedInv
<1>2. IInv /\ SavedInv /\ [Next]_vars => SavedInv'
  <2> SUFFICES ASSUME IInv, SavedInv, [Next]_vars PROVE SavedInv'
    OBVIOUS
  <2>1. CASE UNCHANGED vars
    BY <2>1, SavedKept DEF vars, loop, ring
  <2>2. CASE TickSnapshot \/ TickBegin \/ TickEnd
    BY <2>2, SavedKept DEF TickSnapshot, TickBegin, TickEnd
  <2>3. CASE FlushCopy
    BY <2>3 DEF FlushCopy, SavedInv, IInv, RingOK
  <2>4. ASSUME NEW ok \in BOOLEAN, FlushSave(ok) PROVE SavedInv'
    <3>1. /\ phase = "save" /\ phase' = "idle" /\ copy' = <<>> /\ history' = history
          /\ ok = TRUE => saved' = copy
          /\ ok = FALSE => saved' = saved /\ historyDirty' = TRUE
      BY <2>4 DEF FlushSave
    <3>2. ok = TRUE => (historyDirty' <=> historyDirty)
      BY <2>4 DEF FlushSave
    <3>3. Len(<<>>) <= HistCap
      BY EngineAssumption
    <3> QED BY <3>1, <3>2, <3>3 DEF SavedInv
  <2>5. CASE Triage
    BY <2>5, SavedKept DEF Triage, TriageExpected, TriageSend, TriageMark, loop
  <2>6. ASSUME NEW k \in Key, Ack(k) PROVE SavedInv'
    BY <2>6, SavedKept, UpdateMarks DEF Ack, loop
  <2>7. ASSUME NEW s \in Edits, Reload(s) PROVE SavedInv'
    BY <2>7, SavedKept DEF Reload, loop
  <2>8. ASSUME NEW n \in Node, NodeLeaves(n) \/ evictNode(n) \/ NodeScraped(n) PROVE SavedInv'
    BY <2>8, SavedKept DEF NodeLeaves, evictNode, NodeScraped, loop
  <2>9. CASE Restart
    <3>1. LastN(saved, HistCap) = saved
      BY EngineAssumption DEF LastN, SavedInv, IInv, SavedOK
    <3>2. history' = saved \/ history' = <<>>
      BY <2>9, <3>1 DEF Restart
    <3> QED BY <2>9, <3>2, EngineAssumption DEF Restart, SavedInv
  <2>10. CASE Next
    BY <2>10, <2>2, <2>3, <2>4, <2>5, <2>6, <2>7, <2>8, <2>9, TurnSaved, NextCases
  <2> QED BY <2>1, <2>10
<1>3. SavedInv => CleanMeansSaved
  BY DEF SavedInv, CleanMeansSaved
<1> QED BY <1>1, <1>2, <1>3, Invariance, PTL DEF Spec

-----------------------------------------------------------------------------
(* What a turn that continues an incident does, without its wording.       *)
LEMMA ContinueFacts ==
  ASSUME IInv, NEW k \in Key, NEW cond \in BOOLEAN, Continue(k, cond)
  PROVE  \E ev \in Event, out \in Event :
           /\ active' = [active EXCEPT ![k] = out]
           /\ ev.id = active[k].id /\ ev.tgPosted = active[k].tgPosted
           /\ out.id = ev.id /\ out.tgPosted = ev.tgPosted
           /\ out.sev = ev.sev /\ out.acked = ev.acked
           /\ updateHistoryByID(entryOf(k, ev, "firing"))
           /\ \/ fires' = fires
              \/ ~inhibitedLocked(k) /\ \E f : f.key = k /\ fires' = fires \cup {f}
<1> DEFINE now == [active[k] EXCEPT !.ticks = SustainTicks]
           ev == escalated(now)
           nudge == firstNudge(k, ev)
           sent == [ev EXCEPT !.tgFireSent = TRUE]
           out == IF nudge THEN sent ELSE ev
           card == [key |-> k, id |-> ev.id, sev |-> ev.sev, gkey |-> ev.rule.gkey]
<1>1. active[k] \in Event
  BY TurnFacts DEF Continue
<1>2. now \in Event /\ now.id = active[k].id /\ now.tgPosted = active[k].tgPosted
  BY <1>1 DEF Event, SustainTicks
<1>3. /\ active' = [active EXCEPT ![k] = out]
      /\ fires' = fires \cup {f \in {card} : nudge}
      /\ updateHistoryByID(entryOf(k, ev, "firing"))
  BY DEF Continue
<1>4. nudge => ~inhibitedLocked(k)
  BY DEF firstNudge, passesGates
<1>5. ev.tgPosted = now.tgPosted
  BY <1>2 DEF escalated, Event
<1>6. ev \in Event /\ ev.id = now.id
  BY <1>2, EscalatedType
<1>7. card.key = k
  OBVIOUS
<1> HIDE DEF now, ev, nudge, card
<1>8. /\ sent \in Event /\ sent.id = ev.id /\ sent.tgPosted = ev.tgPosted
      /\ sent.sev = ev.sev /\ sent.acked = ev.acked
  BY <1>6 DEF Event
<1> HIDE DEF sent
<1>9. /\ out \in Event /\ out.id = ev.id /\ out.tgPosted = ev.tgPosted
      /\ out.sev = ev.sev /\ out.acked = ev.acked
  BY <1>6, <1>8
<1>10. fires' = fires \/ (~inhibitedLocked(k) /\ fires' = fires \cup {card})
  BY <1>3, <1>4
<1> HIDE DEF out
<1> QED BY <1>2, <1>3, <1>5, <1>6, <1>7, <1>9, <1>10

-----------------------------------------------------------------------------
(* Root causes.  A fire's key has had its turn and is active, so that its  *)
(* dependents' turns find it; and no cause of a fire is both active and    *)
(* still to have its turn.                                                 *)
FiresStand ==
  /\ fires # {} => phase = "tick"
  /\ \A f \in fires : f.key \in Key /\ f.key \notin todo /\ active[f.key] # NoEvent

CausesAreOver ==
  \A g \in fires, r \in RuleID :
    <<r, g.key[2]>> \in Inhibits /\ active[<<g.key[1], r>>] # NoEvent => <<g.key[1], r>> \notin todo

MutesInv == FiresStand /\ CausesAreOver /\ RootCauseMutes

(* A step that collects no fire, closes no incident that had its turn and  *)
(* opens none that is still to have it.                                    *)
LEMMA MutesKept ==
  ASSUME MutesInv, fires' = fires, fires # {} => phase' = phase, todo' \subseteq todo,
         \A k \in Key \ todo : active[k] # NoEvent => active'[k] # NoEvent,
         \A k \in Key : k \in todo' /\ active[k] = NoEvent => active'[k] = NoEvent
  PROVE  MutesInv'
<1>1. FiresStand'
  BY DEF MutesInv, FiresStand
<1>2. CausesAreOver'
  <2> SUFFICES ASSUME NEW g \in fires, NEW r \in RuleID, <<r, g.key[2]>> \in Inhibits,
                      active'[<<g.key[1], r>>] # NoEvent, <<g.key[1], r>> \in todo'
               PROVE  FALSE
    BY DEF CausesAreOver
  <2>1. <<g.key[1], r>> \in Key
    BY DEF MutesInv, FiresStand, Key
  <2> QED BY <2>1 DEF MutesInv, CausesAreOver
<1>3. RootCauseMutes'
  BY DEF MutesInv, RootCauseMutes
<1> QED BY <1>1, <1>2, <1>3 DEF MutesInv

LEMMA NoFiresMutes == ASSUME fires' = {} PROVE MutesInv'
BY DEF MutesInv, FiresStand, CausesAreOver, RootCauseMutes

(* A new fire: none of its causes is active, and it was still to come when *)
(* its dependents, which are active, had their turns.                      *)
LEMMA FireMutes ==
  ASSUME IInv, MutesInv, NEW k \in Key, Turn(k), phase' = phase, active[k] # NoEvent, NEW out \in Event,
         active' = [active EXCEPT ![k] = out],
         NEW f, f.key = k, fires' = fires \cup {f}, ~inhibitedLocked(k)
  PROVE  MutesInv'
<1>1. /\ phase = "tick" /\ k \in todo /\ todo' = todo \ {k}
      /\ active \in [Key -> Event \cup {NoEvent}] /\ out # NoEvent
  BY NoEventAssumption DEF Turn, IInv, ActiveOK
<1>2. k = <<k[1], k[2]>> /\ k[1] \in Node /\ k[2] \in RuleID
  BY DEF Key
<1>3. ASSUME NEW r \in RuleID, <<r, k[2]>> \in Inhibits
      PROVE  active[<<k[1], r>>] = NoEvent
  BY <1>3 DEF inhibitedLocked
<1>4. \A j \in Key : active'[j] # NoEvent <=> active[j] # NoEvent
  BY <1>1
<1>5. FiresStand'
  BY <1>1, <1>4 DEF MutesInv, FiresStand
<1>6. CausesAreOver'
  <2> SUFFICES ASSUME NEW g \in fires \cup {f}, NEW r \in RuleID, <<r, g.key[2]>> \in Inhibits,
                      active'[<<g.key[1], r>>] # NoEvent, <<g.key[1], r>> \in todo
               PROVE  FALSE
    BY <1>1 DEF CausesAreOver
  <2>1. <<g.key[1], r>> \in Key /\ active[<<g.key[1], r>>] # NoEvent
    BY <1>4 DEF MutesInv, FiresStand, Key
  <2>2. CASE g \in fires
    BY <2>1, <2>2 DEF MutesInv, CausesAreOver
  <2>3. CASE g = f
    BY <2>1, <2>3, <1>3
  <2> QED BY <2>2, <2>3
<1>7. RootCauseMutes'
  <2> SUFFICES ASSUME NEW h \in fires \cup {f}, NEW g \in fires \cup {f}, h.key[1] = g.key[1],
                      <<h.key[2], g.key[2]>> \in Inhibits
               PROVE  FALSE
    BY DEF RootCauseMutes
  <2>1. h.key \in Key /\ active[h.key] # NoEvent
    BY DEF MutesInv, FiresStand
  <2>2. h.key = <<g.key[1], h.key[2]>> /\ h.key[2] \in RuleID
    BY <2>1 DEF Key
  <2>3. CASE g = f
    BY <2>1, <2>2, <2>3, <1>3
  <2>4. CASE g \in fires /\ h = f
    BY <2>1, <2>2, <2>4, <1>1 DEF MutesInv, CausesAreOver
  <2>5. CASE g \in fires /\ h \in fires
    BY <2>5 DEF MutesInv, RootCauseMutes
  <2> QED BY <2>3, <2>4, <2>5
<1> QED BY <1>5, <1>6, <1>7 DEF MutesInv

LEMMA TurnMutes ==
  ASSUME IInv, MutesInv, Evaluate
  PROVE  MutesInv'
<1>1. PICK k \in todo : \E cond \in Verdict(k) :
        Arm(k, cond) \/ NewFire(k, cond) \/ Continue(k, cond) \/ Resolve(k, cond)
  BY DEF Evaluate
<1>2. PICK cond \in Verdict(k) :
        Arm(k, cond) \/ NewFire(k, cond) \/ Continue(k, cond) \/ Resolve(k, cond)
  BY <1>1
<1>3. k \in Key /\ cond \in BOOLEAN /\ active \in [Key -> Event \cup {NoEvent}]
  BY DEF IInv, LoopOK, ActiveOK, Verdict
<1>4. Turn(k) /\ phase' = phase /\ todo' = todo \ {k}
  BY <1>2 DEF Arm, NewFire, Continue, Resolve, Turn
<1>5. CASE Arm(k, cond)
  BY <1>4, <1>5, MutesKept DEF Arm
<1>6. CASE NewFire(k, cond) \/ Resolve(k, cond)
  <2>1. fires' = fires /\ \A j \in Key \ {k} : active'[j] = active[j]
    BY <1>3, <1>6 DEF NewFire, Resolve
  <2> QED BY <1>3, <1>4, <2>1, MutesKept
<1>7. CASE Continue(k, cond)
  <2>1. active[k] # NoEvent
    BY <1>7 DEF Continue
  <2>2. PICK out \in Event : /\ active' = [active EXCEPT ![k] = out]
                             /\ \/ fires' = fires
                                \/ ~inhibitedLocked(k) /\ \E f : f.key = k /\ fires' = fires \cup {f}
    BY <1>3, <1>7, ContinueFacts
  <2>3. CASE fires' = fires
    <3>1. \A j \in Key : active'[j] # NoEvent <=> active[j] # NoEvent
      BY <1>3, <2>1, <2>2, NoEventAssumption
    <3> QED BY <1>4, <2>3, <3>1, MutesKept
  <2>4. ASSUME ~inhibitedLocked(k), NEW f, f.key = k, fires' = fires \cup {f} PROVE MutesInv'
    BY <1>3, <1>4, <2>1, <2>2, <2>4, FireMutes
  <2> QED BY <2>2, <2>3, <2>4
<1> QED BY <1>2, <1>5, <1>6, <1>7

(* No tick collects fires of an inhibitor and of its dependent on a node,  *)
(* whatever the order of the rules, their edits and their cooldowns.       *)
THEOREM CausesMute == Spec => []RootCauseMutes
<1>1. Init => MutesInv
  BY DEF Init, MutesInv, FiresStand, CausesAreOver, RootCauseMutes
<1>2. IInv /\ MutesInv /\ [Next]_vars => MutesInv'
  <2> SUFFICES ASSUME IInv, MutesInv, [Next]_vars PROVE MutesInv'
    OBVIOUS
  <2>0. phase # "tick" => fires = {}
    BY DEF MutesInv, FiresStand
  <2>1. CASE UNCHANGED vars
    BY <2>1, MutesKept DEF vars, loop
  <2>2. ASSUME phase # "tick", UNCHANGED fires PROVE MutesInv'
    BY <2>0, <2>2, NoFiresMutes
  <2>3. CASE TickSnapshot \/ TickBegin \/ FlushCopy \/ \E ok \in BOOLEAN : FlushSave(ok)
    BY <2>2, <2>3 DEF TickSnapshot, TickBegin, FlushCopy, FlushSave
  <2>4. CASE TickEnd \/ Restart
    BY <2>4, NoFiresMutes DEF TickEnd, Restart
  <2>5. CASE Triage
    <3>1. PICK t \in triage : TriageExpected(t) \/ TriageSend(t) \/ TriageMark(t)
      BY <2>5 DEF Triage
    <3>2. CASE TriageExpected(t) \/ TriageSend(t)
      BY <3>2, MutesKept DEF TriageExpected, TriageSend, loop
    <3>3. CASE TriageMark(t)
      BY <2>2, <3>3 DEF TriageMark, loop
    <3> QED BY <3>1, <3>2, <3>3
  <2>6. ASSUME NEW k \in Key, Ack(k) PROVE MutesInv'
    BY <2>2, <2>6 DEF Ack, loop
  <2>7. ASSUME NEW s \in Edits, Reload(s) PROVE MutesInv'
    BY <2>2, <2>7 DEF Reload, loop
  <2>8. ASSUME NEW n \in Node, NodeLeaves(n) \/ NodeScraped(n) PROVE MutesInv'
    BY <2>8, MutesKept DEF NodeLeaves, NodeScraped, loop
  <2>9. ASSUME NEW n \in Node, evictNode(n) PROVE MutesInv'
    BY <2>2, <2>9 DEF evictNode, loop
  <2>10. CASE Next
    BY <2>10, <2>3, <2>4, <2>5, <2>6, <2>7, <2>8, <2>9, TurnMutes, NextCases
  <2> QED BY <2>1, <2>10
<1>3. MutesInv => RootCauseMutes
  BY DEF MutesInv
<1> QED BY <1>1, <1>2, <1>3, Invariance, PTL DEF Spec

-----------------------------------------------------------------------------
(* Nudges.  The cards of a key that resolved nudges have not answered      *)
(* cover the incident marked posted and the goroutines still to mark one.  *)
Posted(k) == active[k] # NoEvent /\ active[k].tgPosted = TRUE
Marking(k) == {t \in triage : t.sent = TRUE /\ k \in keysOf(t.fires)}

Paid(k) ==
  /\ IsFiniteSet(Marking(k))
  /\ owed[k] >= Cardinality(Marking(k))
  /\ Posted(k) => owed[k] >= Cardinality(Marking(k)) + 1

AllPaid == \A k \in Key : Paid(k)

LEMMA MarkingType ==
  ASSUME NEW k \in Key, Paid(k)
  PROVE  Cardinality(Marking(k)) \in Nat
BY FS_CardinalityType DEF Paid

(* A step that sends no card and marks no incident.                        *)
LEMMA PaidKept ==
  ASSUME AllPaid, UNCHANGED <<triage, owed>>, \A k \in Key : Posted(k)' => Posted(k)
  PROVE  AllPaid'
<1>1. ASSUME NEW k \in Key PROVE Marking(k)' = Marking(k)
  BY DEF Marking
<1> QED BY <1>1 DEF AllPaid, Paid

(* The triage goroutines that have not sent yet come and go freely.        *)
LEMMA UnsentKept ==
  ASSUME AllPaid, NEW k \in Key, Marking(k)' = Marking(k), ChatOK,
         \/ owed'[k] = owed[k] /\ (Posted(k)' => Posted(k))
         \/ owed'[k] = owed[k] + 1
  PROVE  Paid(k)'
<1>1. Paid(k) /\ Cardinality(Marking(k)) \in Nat /\ owed[k] \in Int
  BY MarkingType DEF AllPaid, ChatOK
<1> QED BY <1>1 DEF Paid

LEMMA MarkedPosts ==
  ASSUME ActiveOK, NEW keys, active' = markedPosted(keys), NEW k \in Key
  PROVE  k \notin keys => (Posted(k)' => Posted(k))
BY DEF markedPosted, Posted, ActiveOK

LEMMA TurnPaid ==
  ASSUME IInv, AllPaid, Evaluate
  PROVE  AllPaid'
<1>1. PICK k \in todo : \E cond \in Verdict(k) :
        Arm(k, cond) \/ NewFire(k, cond) \/ Continue(k, cond) \/ Resolve(k, cond)
  BY DEF Evaluate
<1>2. PICK cond \in Verdict(k) :
        Arm(k, cond) \/ NewFire(k, cond) \/ Continue(k, cond) \/ Resolve(k, cond)
  BY <1>1
<1>3. k \in Key /\ cond \in BOOLEAN /\ active \in [Key -> Event \cup {NoEvent}]
  BY DEF IInv, LoopOK, ActiveOK, Verdict
<1>4. CASE Arm(k, cond)
  BY <1>4, PaidKept DEF Arm, chat, Posted
<1>5. CASE NewFire(k, cond)
  <2>1. newEvent(k).tgPosted = FALSE
    BY DEF newEvent
  <2>2. active' = [active EXCEPT ![k] = newEvent(k)] /\ UNCHANGED <<triage, owed>>
    BY <1>5 DEF NewFire, chat
  <2> QED BY <1>3, <2>1, <2>2, PaidKept DEF Posted
<1>6. CASE Continue(k, cond)
  <2>1. PICK out \in Event : active' = [active EXCEPT ![k] = out] /\ out.tgPosted = active[k].tgPosted
    BY <1>3, <1>6, ContinueFacts
  <2>2. active[k] # NoEvent /\ UNCHANGED <<triage, owed>>
    BY <1>6 DEF Continue, chat
  <2> QED BY <1>3, <2>1, <2>2, PaidKept DEF Posted
<1>7. CASE Resolve(k, cond)
  <2>1. /\ active' = [active EXCEPT ![k] = NoEvent] /\ active[k] \in Event /\ active[k] # NoEvent
        /\ triage' = triage
        /\ owed' = [owed EXCEPT ![k] = IF active[k].tgPosted THEN @ - 1 ELSE @]
    BY <1>3, <1>7 DEF Resolve
  <2>2. ChatOK
    BY DEF IInv
  <2>3. active[k].tgPosted \in BOOLEAN
    BY <2>1 DEF Event
  <2>4. ASSUME NEW j \in Key PROVE Paid(j)'
    <3>1. /\ Paid(j) /\ Cardinality(Marking(j)) \in Nat /\ owed \in [Key -> Int]
          /\ Marking(j)' = Marking(j)
      BY <2>1, <2>2, MarkingType DEF AllPaid, ChatOK, Marking
    <3>2. CASE j # k
      BY <1>3, <2>1, <3>1, <3>2 DEF Paid, Posted
    <3>3. CASE j = k /\ active[k].tgPosted = TRUE
      <4>1. Posted(k) /\ owed'[k] = owed[k] - 1 /\ ~Posted(k)'
        BY <1>3, <2>1, <3>1, <3>3 DEF Posted
      <4> QED BY <3>1, <3>3, <4>1 DEF Paid
    <3>4. CASE j = k /\ active[k].tgPosted = FALSE
      <4>1. owed'[k] = owed[k] /\ ~Posted(k)'
        BY <1>3, <2>1, <3>1, <3>4 DEF Posted
      <4> QED BY <3>1, <3>4, <4>1 DEF Paid
    <3> QED BY <2>3, <3>2, <3>3, <3>4
  <2> QED BY <2>4 DEF AllPaid
<1> QED BY <1>2, <1>4, <1>5, <1>6, <1>7

(* The end of a tick: a card sent at once is counted and marked at once.   *)
LEMMA EndPaid ==
  ASSUME IInv, AllPaid, TickEnd
  PROVE  AllPaid'
<1> SUFFICES ASSUME NEW k \in Key PROVE Paid(k)'
  BY DEF AllPaid
<1> DEFINE now == keysOf(UNION {c \in cards' : onlyInfo(c)})
<1>1. /\ active' = markedPosted(now)
      /\ owed' = [j \in Key |-> IF j \in now THEN owed[j] + 1 ELSE owed[j]]
      /\ triage' = triage \cup {[fires |-> c, sent |-> FALSE] : c \in {d \in cards' : ~onlyInfo(d)}}
  BY DEF TickEnd
<1>2. Marking(k)' = Marking(k)
  BY <1>1 DEF Marking
<1> HIDE DEF now
<1>3. k \notin now => (Posted(k)' => Posted(k))
  BY <1>1, MarkedPosts DEF IInv
<1> QED BY <1>1, <1>2, <1>3, UnsentKept DEF IInv

LEMMA TriagePaid ==
  ASSUME IInv, AllPaid, Triage
  PROVE  AllPaid'
<1>1. PICK t \in triage : TriageExpected(t) \/ TriageSend(t) \/ TriageMark(t)
  BY DEF Triage
<1>2. ChatOK /\ ActiveOK /\ t \in [fires: SUBSET Fire, sent: BOOLEAN]
  BY DEF IInv, ChatOK
<1>3. ASSUME NEW k \in Key, TriageExpected(t) PROVE Paid(k)'
  <2>1. t.sent = FALSE /\ triage' = triage \ {t} /\ owed' = owed /\ active' = active
    BY <1>2, <1>3 DEF TriageExpected
  <2>2. Marking(k)' = Marking(k)
    BY <2>1 DEF Marking
  <2> QED BY <1>2, <2>1, <2>2, UnsentKept DEF Posted
<1>4. ASSUME NEW k \in Key, TriageSend(t) PROVE Paid(k)'
  <2> DEFINE u == [t EXCEPT !.sent = TRUE]
  <2>1. /\ t.sent = FALSE /\ triage' = (triage \ {t}) \cup {u} /\ active' = active
        /\ owed' = [j \in Key |-> IF j \in keysOf(t.fires) THEN owed[j] + 1 ELSE owed[j]]
    BY <1>2, <1>4 DEF TriageSend
  <2>2. u.sent = TRUE /\ u.fires = t.fires
    BY <1>2
  <2> HIDE DEF u
  <2>3. Posted(k)' <=> Posted(k)
    BY <2>1 DEF Posted
  <2>4. CASE k \notin keysOf(t.fires)
    <3>1. Marking(k)' = Marking(k) /\ owed'[k] = owed[k]
      BY <2>1, <2>2, <2>4 DEF Marking
    <3> QED BY <1>2, <2>3, <3>1, UnsentKept
  <2>5. CASE k \in keysOf(t.fires)
    <3>1. Marking(k)' = Marking(k) \cup {u} /\ owed'[k] = owed[k] + 1
      BY <2>1, <2>2, <2>5 DEF Marking
    <3>2. Paid(k) /\ owed[k] \in Int /\ Cardinality(Marking(k)) \in Nat
      BY <1>2, MarkingType DEF AllPaid, ChatOK
    <3>3. /\ IsFiniteSet(Marking(k)')
          /\ Cardinality(Marking(k)') \in {Cardinality(Marking(k)), Cardinality(Marking(k)) + 1}
      BY <3>1, <3>2, FS_AddElement DEF Paid
    <3> QED BY <2>3, <3>1, <3>2, <3>3 DEF Paid
  <2> QED BY <2>4, <2>5
<1>5. ASSUME NEW k \in Key, TriageMark(t) PROVE Paid(k)'
  <2>1. /\ t.sent = TRUE /\ triage' = triage \ {t} /\ owed' = owed
        /\ active' = markedPosted(keysOf(t.fires))
    BY <1>2, <1>5 DEF TriageMark
  <2>2. CASE k \notin keysOf(t.fires)
    <3>1. Marking(k)' = Marking(k)
      BY <2>1, <2>2 DEF Marking
    <3>2. Posted(k)' => Posted(k)
      BY <1>2, <2>1, <2>2, MarkedPosts
    <3> QED BY <1>2, <2>1, <3>1, <3>2, UnsentKept
  <2>3. CASE k \in keysOf(t.fires)
    <3>1. t \in Marking(k) /\ Marking(k)' = Marking(k) \ {t}
      BY <2>1, <2>3 DEF Marking
    <3>2. Paid(k) /\ owed[k] \in Int /\ Cardinality(Marking(k)) \in Nat
      BY <1>2, MarkingType DEF AllPaid, ChatOK
    <3>3. /\ IsFiniteSet(Marking(k)')
          /\ Cardinality(Marking(k)') = Cardinality(Marking(k)) - 1
      BY <3>1, <3>2, FS_RemoveElement DEF Paid
    <3> QED BY <2>1, <3>2, <3>3 DEF Paid
  <2> QED BY <2>2, <2>3
<1> QED BY <1>1, <1>3, <1>4, <1>5 DEF AllPaid

(* A resolved nudge never outnumbers the fire cards of its node and rule,  *)
(* however late triage marks and whatever is acknowledged in between.      *)
THEOREM NudgesArePaid == Spec => []NudgesPair
<1>1. Init => AllPaid
  <2> SUFFICES ASSUME Init, NEW k \in Key PROVE Paid(k)
    BY DEF AllPaid
  <2>1. Marking(k) = {} /\ owed[k] = 0 /\ ~Posted(k)
    BY DEF Init, Marking, Posted
  <2> QED BY <2>1, FS_EmptySet DEF Paid
<1>2. IInv /\ AllPaid /\ [Next]_vars => AllPaid'
  <2> SUFFICES ASSUME IInv, AllPaid, [Next]_vars PROVE AllPaid'
    OBVIOUS
  <2>0. active \in [Key -> Event \cup {NoEvent}]
    BY DEF IInv, ActiveOK
  <2>1. ASSUME UNCHANGED <<active, triage, owed>> PROVE AllPaid'
    BY <2>1, PaidKept DEF Posted
  <2>2. CASE UNCHANGED vars
    BY <2>1, <2>2 DEF vars, chat
  <2>3. CASE TickSnapshot
    <3>1. ASSUME NEW k \in Key, Posted(k)' PROVE Posted(k)
      <4>1. active[k] # NoEvent /\ active[k] \in Event
        BY <2>0, <2>3, <3>1 DEF TickSnapshot, Posted
      <4>2. active'[k] = [active[k] EXCEPT !.age = UpTo(@ + TickSecs, LongAgo)]
        BY <2>3, <4>1 DEF TickSnapshot
      <4> QED BY <3>1, <4>1, <4>2 DEF Posted, Event
    <3> QED BY <2>3, <3>1, PaidKept DEF TickSnapshot, chat
  <2>4. CASE TickBegin \/ FlushCopy \/ \E ok \in BOOLEAN : FlushSave(ok)
    BY <2>1, <2>4 DEF TickBegin, FlushCopy, FlushSave, chat
  <2>5. ASSUME NEW k \in Key, Ack(k) PROVE AllPaid'
    <3>1. active' = [active EXCEPT ![k] = [active[k] EXCEPT !.acked = TRUE]]
          /\ active[k] # NoEvent /\ active[k] \in Event /\ UNCHANGED <<triage, owed>>
      BY <2>0, <2>5 DEF Ack, chat
    <3>2. [active[k] EXCEPT !.acked = TRUE].tgPosted = active[k].tgPosted
      BY <3>1 DEF Event
    <3>3. ASSUME NEW j \in Key, Posted(j)' PROVE Posted(j)
      BY <2>0, <3>1, <3>2, <3>3 DEF Posted
    <3> QED BY <3>1, <3>3, PaidKept
  <2>6. ASSUME NEW s \in Edits, Reload(s) PROVE AllPaid'
    BY <2>1, <2>6 DEF Reload, chat
  <2>7. ASSUME NEW n \in Node, NodeLeaves(n) \/ NodeScraped(n) PROVE AllPaid'
    BY <2>1, <2>7 DEF NodeLeaves, NodeScraped, chat
  <2>8. ASSUME NEW n \in Node, evictNode(n) PROVE AllPaid'
    BY <2>0, <2>8, PaidKept DEF evictNode, chat, Posted
  <2>9. CASE Restart
    <3> SUFFICES ASSUME NEW k \in Key PROVE Paid(k)'
      BY DEF AllPaid
    <3>1. Marking(k)' = {} /\ owed'[k] = 0 /\ ~Posted(k)'
      BY <2>9 DEF Restart, Marking, Posted
    <3> QED BY <3>1, FS_EmptySet DEF Paid
  <2>10. CASE Next
    BY <2>10, <2>3, <2>4, <2>5, <2>6, <2>7, <2>8, <2>9, TurnPaid, EndPaid, TriagePaid, NextCases
  <2> QED BY <2>2, <2>10
<1>3. IInv /\ AllPaid => NudgesPair
  <2> SUFFICES ASSUME IInv, AllPaid, NEW k \in Key
               PROVE  owed[k] >= 0 /\ (active[k] # NoEvent => (active[k].tgPosted => owed[k] >= 1))
    BY DEF NudgesPair
  <2>1. Paid(k) /\ owed[k] \in Int /\ Cardinality(Marking(k)) \in Nat
    BY MarkingType DEF AllPaid, IInv, ChatOK
  <2>2. active[k] # NoEvent /\ active[k].tgPosted => Posted(k)
    BY DEF Posted, IInv, ActiveOK, Event
  <2> QED BY <2>1, <2>2 DEF Paid
<1> QED BY <1>1, <1>2, <1>3, Invariance, PTL DEF Spec

-----------------------------------------------------------------------------
(* The ring and the incidents.  It holds as long as the process runs and   *)
(* no node is taken out: an eviction and a restart drop incidents and      *)
(* leave their entries firing.                                             *)
SteadyFleet == Removable = {} /\ CanRestart = FALSE

IdsBelow == \A i \in DOMAIN history : history[i].id <= lastSeq

MirrorInv == HistoryMirrorsActive /\ IdsBelow

LEMMA RingEntries ==
  ASSUME RingOK
  PROVE  /\ DOMAIN history = 1 .. Len(history) /\ Len(history) \in Nat
         /\ \A i \in DOMAIN history : history[i] \in Entry
BY DEF RingOK

(* A push keeps the newest entries in their order, and adds one.           *)
LEMMA PushEntries ==
  ASSUME RingOK, NEW e \in Entry, pushHistory(e)
  PROVE  \E d \in Nat : \A i \in DOMAIN history' :
           \/ i + d = Len(history) + 1 /\ history'[i] = e
           \/ i + d \in DOMAIN history /\ history'[i] = history[i + d]
<1> DEFINE s == Append(history, e)
<1>1. /\ s \in Seq(Entry) /\ Len(s) = Len(history) + 1 /\ Len(history) \in Nat
      /\ DOMAIN history = 1 .. Len(history) /\ HistCap \in Nat \ {0}
      /\ \A j \in 1 .. Len(s) : s[j] = IF j = Len(history) + 1 THEN e ELSE history[j]
  BY EngineAssumption DEF RingOK
<1>2. history' = LastN(s, HistCap)
  BY DEF pushHistory
<1> HIDE DEF s
<1>3. \E d \in Nat : \A i \in DOMAIN history' : i + d \in 1 .. Len(s) /\ history'[i] = s[i + d]
  <2>1. CASE Len(s) > HistCap
    <3>1. history' = SubSeq(s, Len(s) - HistCap + 1, Len(s))
      BY <1>2, <2>1 DEF LastN
    <3> DEFINE d == Len(s) - HistCap
    <3>2. d \in Nat /\ Len(s) \in Nat
      BY <1>1, <2>1
    <3>3. history' = SubSeq(s, d + 1, Len(s))
      BY <3>1
    <3> HIDE DEF d
    <3>4. ASSUME NEW i \in DOMAIN history' PROVE i + d \in 1 .. Len(s) /\ history'[i] = s[i + d]
      <4>1. /\ DOMAIN history' = 1 .. Len(s) - d
            /\ \A j \in 1 .. Len(s) - d : history'[j] = s[d + 1 + j - 1]
        BY <1>1, <3>2, <3>3
      <4>2. i \in 1 .. Len(s) - d
        BY <4>1
      <4>3. i + d \in 1 .. Len(s) /\ d + 1 + i - 1 = i + d
        BY <3>2, <4>2
      <4> QED BY <4>1, <4>2, <4>3
    <3> QED BY <3>2, <3>4
  <2>2. CASE ~(Len(s) > HistCap)
    <3>1. history' = s
      BY <1>2, <2>2 DEF LastN
    <3>2. \A i \in DOMAIN history' : i + 0 \in 1 .. Len(s) /\ history'[i] = s[i + 0]
      BY <1>1, <3>1
    <3> QED BY <3>2
  <2> QED BY <2>1, <2>2
<1>4. PICK d \in Nat : \A i \in DOMAIN history' : i + d \in 1 .. Len(s) /\ history'[i] = s[i + d]
  BY <1>3
<1>5. ASSUME NEW i \in DOMAIN history'
      PROVE  \/ i + d = Len(history) + 1 /\ history'[i] = e
             \/ i + d \in DOMAIN history /\ history'[i] = history[i + d]
  BY <1>1, <1>4
<1> QED BY <1>5

(* While ids are unique, an update rewrites the entry with that id.        *)
LEMMA UpdateEntries ==
  ASSUME RingOK, NEW e, updateHistoryByID(e),
         \A i, j \in DOMAIN history : history[i].id = history[j].id => i = j
  PROVE  /\ DOMAIN history' = DOMAIN history
         /\ \A i \in DOMAIN history :
              history'[i] = IF history[i].id = e.id THEN e ELSE history[i]
<1> DEFINE hits == {i \in DOMAIN history : history[i].id = e.id}
           c == CHOOSE i \in hits : \A j \in hits : i <= j
<1>1. CASE hits = {}
  BY <1>1 DEF updateHistoryByID, ring
<1>2. CASE hits # {}
  <2>1. PICK h \in hits : TRUE
    BY <1>2
  <2>2. h \in DOMAIN history /\ history[h].id = e.id /\ h <= h /\ \A j \in hits : j = h
    BY <2>1 DEF RingOK
  <2>3. c = h
    BY <2>2
  <2>4. history' = [history EXCEPT ![c] = e]
    BY <1>2 DEF updateHistoryByID
  <2>5. \A i \in DOMAIN history : history[i].id = e.id <=> i = h
    BY <2>2
  <2> HIDE DEF c, hits
  <2> QED BY <2>2, <2>3, <2>4, <2>5
<1> QED BY <1>1, <1>2

(* What the ring shows of the incidents stays the same.                    *)
LEMMA MirrorKept ==
  ASSUME MirrorInv, UNCHANGED <<history, lastSeq>>, RingOK,
         \A k \in Key : \/ active'[k] = active[k]
                        \/ /\ active[k] # NoEvent /\ active'[k] # NoEvent
                           /\ active'[k].id = active[k].id
                           /\ active'[k].sev = active[k].sev /\ active'[k].acked = active[k].acked
  PROVE  MirrorInv'
<1>1. ASSUME NEW k \in Key
      PROVE  /\ active'[k] # NoEvent <=> active[k] # NoEvent
             /\ active[k] # NoEvent => /\ active'[k].id = active[k].id
                                       /\ entryOf(k, active'[k], "firing") = entryOf(k, active[k], "firing")
  BY DEF entryOf
<1>2. \A i \in DOMAIN history : history[i].key \in Key
  BY RingEntries DEF Entry
<1>3. IdsBelow'
  BY DEF MirrorInv, IdsBelow
<1>4. ASSUME NEW k \in Key, NEW i \in DOMAIN history, active'[k] # NoEvent, history[i].id = active'[k].id
      PROVE  history[i] = entryOf(k, active'[k], "firing")
  BY <1>1, <1>4 DEF MirrorInv, HistoryMirrorsActive
<1>5. ASSUME NEW i \in DOMAIN history, history[i].state = "firing"
      PROVE  active'[history[i].key] # NoEvent /\ active'[history[i].key].id = history[i].id
  BY <1>1, <1>2, <1>5 DEF MirrorInv, HistoryMirrorsActive
<1> QED BY <1>3, <1>4, <1>5 DEF MirrorInv, HistoryMirrorsActive

(* One incident's entry is rewritten as the incident now is, or closed.    *)
LEMMA MirrorUpdate ==
  ASSUME IInv, MirrorInv, IncidentsAreDistinct, lastSeq' = lastSeq,
         NEW k \in Key, active[k] # NoEvent, NEW e, updateHistoryByID(e),
         e.id = active[k].id, e.key = k,
         \A j \in Key \ {k} : active'[j] = active[j],
         \/ active'[k] = NoEvent /\ e.state = "resolved"
         \/ active'[k] # NoEvent /\ active'[k].id = e.id /\ entryOf(k, active'[k], "firing") = e
  PROVE  MirrorInv'
<1>1. /\ DOMAIN history' = DOMAIN history
      /\ \A i \in DOMAIN history : /\ history[i].id = e.id => history'[i] = e
                                   /\ history[i].id # e.id => history'[i] = history[i]
  BY UpdateEntries DEF IInv, MirrorInv, HistoryMirrorsActive
<1>2. \A i \in DOMAIN history : history[i].key \in Key
  BY RingEntries DEF IInv, Entry
<1>3. \A i \in DOMAIN history : history'[i].id = history[i].id
  BY <1>1
<1>4. \A j \in Key \ {k} : active[j] # NoEvent => active[j].id # e.id
  BY DEF IncidentsAreDistinct
<1>5. IdsBelow'
  BY <1>1, <1>3 DEF MirrorInv, IdsBelow
<1>6. ASSUME NEW j \in Key, NEW i \in DOMAIN history, active'[j] # NoEvent, history'[i].id = active'[j].id
      PROVE  history'[i] = entryOf(j, active'[j], "firing")
  <2>1. CASE j = k
    BY <1>1, <1>3, <1>6, <2>1
  <2>2. CASE j # k
    <3>1. active'[j] = active[j] /\ active[j].id # e.id
      BY <1>4, <1>6, <2>2
    <3>2. history[i].id = active[j].id /\ history'[i] = history[i]
      BY <1>1, <1>3, <1>6, <3>1
    <3> QED BY <1>6, <3>1, <3>2 DEF MirrorInv, HistoryMirrorsActive
  <2> QED BY <2>1, <2>2
<1>7. ASSUME NEW i \in DOMAIN history, history'[i].state = "firing"
      PROVE  active'[history'[i].key] # NoEvent /\ active'[history'[i].key].id = history'[i].id
  <2>1. CASE history[i].id = e.id
    <3>1. history'[i] = e
      BY <1>1, <2>1
    <3> QED BY <1>7, <3>1
  <2>2. CASE history[i].id # e.id
    <3>1. history'[i] = history[i]
      BY <1>1, <2>2
    <3>2. active[history[i].key] # NoEvent /\ active[history[i].key].id = history[i].id
      BY <1>7, <3>1 DEF MirrorInv, HistoryMirrorsActive
    <3> QED BY <1>2, <2>2, <3>1, <3>2
  <2> QED BY <2>1, <2>2
<1>8. \A i, j \in DOMAIN history : history'[i].id = history'[j].id => i = j
  BY <1>3 DEF MirrorInv, HistoryMirrorsActive
<1> QED BY <1>1, <1>5, <1>6, <1>7, <1>8 DEF MirrorInv, HistoryMirrorsActive

(* A new incident has an id above all that the ring holds.                 *)
LEMMA MirrorPush ==
  ASSUME IInv, MirrorInv, IncidentsAreDistinct, NEW k \in Key, NEW cond \in BOOLEAN, NewFire(k, cond)
  PROVE  MirrorInv'
<1> DEFINE ev == newEvent(k)
           e == entryOf(k, ev, "firing")
<1>1. /\ active \in [Key -> Event \cup {NoEvent}] /\ lastSeq \in Nat /\ RingOK
      /\ \A i \in DOMAIN history : history[i] \in Entry
  BY RingEntries DEF IInv, ActiveOK
<1>2. ev \in Event /\ ev.id = lastSeq + 1 /\ ev # NoEvent
  BY <1>1, TurnFacts, NewEventType, NoEventAssumption DEF NewFire
<1>3. e \in Entry /\ e.id = lastSeq + 1 /\ e.key = k /\ e = entryOf(k, ev, "firing")
  BY <1>2, EntryType DEF entryOf
<1>4. /\ active' = [active EXCEPT ![k] = ev] /\ lastSeq' = lastSeq + 1 /\ active[k] = NoEvent
      /\ pushHistory(e)
  BY DEF NewFire
<1> HIDE DEF ev, e
<1>5. PICK d \in Nat : \A i \in DOMAIN history' :
           \/ i + d = Len(history) + 1 /\ history'[i] = e
           \/ i + d \in DOMAIN history /\ history'[i] = history[i + d]
  BY <1>1, <1>3, <1>4, PushEntries
<1>6. /\ \A i \in DOMAIN history : history[i].id \in Nat /\ history[i].id <= lastSeq /\ history[i].key \in Key
      /\ \A j \in Key : active[j] # NoEvent => active[j].id \in Nat /\ active[j].id <= lastSeq
      /\ active'[k] = ev /\ \A j \in Key \ {k} : active'[j] = active[j]
  BY <1>1, <1>4 DEF Entry, Event, MirrorInv, IdsBelow, IncidentsAreDistinct
<1>7. IdsBelow'
  <2> SUFFICES ASSUME NEW i \in DOMAIN history' PROVE history'[i].id <= lastSeq + 1
    BY <1>4 DEF IdsBelow
  <2> QED BY <1>1, <1>3, <1>5, <1>6
<1>8. ASSUME NEW j \in Key, NEW i \in DOMAIN history', active'[j] # NoEvent, history'[i].id = active'[j].id
      PROVE  history'[i] = entryOf(j, active'[j], "firing")
  <2>1. CASE i + d = Len(history) + 1 /\ history'[i] = e
    <3>1. j = k
      BY <1>1, <1>3, <1>6, <1>8, <2>1
    <3> QED BY <1>3, <1>6, <2>1, <3>1
  <2>2. CASE i + d \in DOMAIN history /\ history'[i] = history[i + d]
    <3>1. j # k
      BY <1>1, <1>2, <1>6, <1>8, <2>2
    <3>2. active'[j] = active[j]
      BY <1>6, <3>1
    <3> QED BY <1>8, <2>2, <3>2 DEF MirrorInv, HistoryMirrorsActive
  <2> QED BY <1>5, <2>1, <2>2
<1>9. ASSUME NEW i \in DOMAIN history', history'[i].state = "firing"
      PROVE  active'[history'[i].key] # NoEvent /\ active'[history'[i].key].id = history'[i].id
  <2>1. CASE i + d = Len(history) + 1 /\ history'[i] = e
    BY <1>2, <1>3, <1>6, <2>1
  <2>2. CASE i + d \in DOMAIN history /\ history'[i] = history[i + d]
    <3>1. active[history'[i].key] # NoEvent /\ active[history'[i].key].id = history'[i].id
      BY <1>9, <2>2 DEF MirrorInv, HistoryMirrorsActive
    <3>2. history'[i].key \in Key \ {k}
      BY <1>4, <1>6, <2>2, <3>1
    <3> QED BY <1>6, <3>1, <3>2
  <2> QED BY <1>5, <2>1, <2>2
<1>10. ASSUME NEW i \in DOMAIN history', NEW j \in DOMAIN history', history'[i].id = history'[j].id
       PROVE  i = j
  <2>1. RingOK'
    BY <1>1, <1>3, <1>4, PushType
  <2>2. i \in Nat /\ j \in Nat /\ Len(history) \in Nat
    BY <1>1, <2>1, RingEntries DEF RingOK
  <2>3. i + d = j + d
    <3>1. CASE i + d \in DOMAIN history /\ j + d \in DOMAIN history
               /\ history'[i] = history[i + d] /\ history'[j] = history[j + d]
      BY <1>10, <3>1 DEF MirrorInv, HistoryMirrorsActive
    <3>2. CASE i + d = Len(history) + 1 /\ history'[i] = e
               /\ j + d \in DOMAIN history /\ history'[j] = history[j + d]
      BY <1>1, <1>3, <1>6, <1>10, <3>2
    <3>3. CASE j + d = Len(history) + 1 /\ history'[j] = e
               /\ i + d \in DOMAIN history /\ history'[i] = history[i + d]
      BY <1>1, <1>3, <1>6, <1>10, <3>3
    <3> QED BY <1>5, <3>1, <3>2, <3>3
  <2> QED BY <2>2, <2>3
<1> QED BY <1>7, <1>8, <1>9, <1>10 DEF MirrorInv, HistoryMirrorsActive

LEMMA TurnMirrors ==
  ASSUME IInv, MirrorInv, IncidentsAreDistinct, Evaluate
  PROVE  MirrorInv'
<1>1. PICK k \in todo : \E cond \in Verdict(k) :
        Arm(k, cond) \/ NewFire(k, cond) \/ Continue(k, cond) \/ Resolve(k, cond)
  BY DEF Evaluate
<1>2. PICK cond \in Verdict(k) :
        Arm(k, cond) \/ NewFire(k, cond) \/ Continue(k, cond) \/ Resolve(k, cond)
  BY <1>1
<1>3. k \in Key /\ cond \in BOOLEAN /\ active \in [Key -> Event \cup {NoEvent}] /\ RingOK
  BY DEF IInv, LoopOK, ActiveOK, Verdict
<1>4. CASE Arm(k, cond)
  BY <1>3, <1>4, MirrorKept DEF Arm, ring
<1>5. CASE NewFire(k, cond)
  BY <1>3, <1>5, MirrorPush
<1>6. CASE Continue(k, cond)
  <2>1. PICK ev \in Event, out \in Event :
           /\ active' = [active EXCEPT ![k] = out] /\ ev.id = active[k].id /\ out.id = ev.id
           /\ out.sev = ev.sev /\ out.acked = ev.acked /\ updateHistoryByID(entryOf(k, ev, "firing"))
    BY <1>3, <1>6, ContinueFacts
  <2>2. /\ active[k] # NoEvent /\ lastSeq' = lastSeq
        /\ active'[k] = out /\ out # NoEvent /\ \A j \in Key \ {k} : active'[j] = active[j]
    BY <1>3, <1>6, <2>1, NoEventAssumption DEF Continue
  <2> DEFINE e == entryOf(k, ev, "firing")
  <2>3. e.id = active[k].id /\ e.key = k /\ entryOf(k, out, "firing") = e /\ out.id = e.id
    BY <2>1 DEF entryOf
  <2>4. updateHistoryByID(e)
    BY <2>1
  <2> HIDE DEF e
  <2> QED BY <1>3, <2>2, <2>3, <2>4, MirrorUpdate
<1>7. CASE Resolve(k, cond)
  <2> DEFINE e == entryOf(k, active[k], "resolved")
  <2>1. /\ active[k] # NoEvent /\ active' = [active EXCEPT ![k] = NoEvent] /\ lastSeq' = lastSeq
        /\ updateHistoryByID(e)
    BY <1>7 DEF Resolve
  <2>2. e.id = active[k].id /\ e.key = k /\ e.state = "resolved"
    BY DEF entryOf
  <2>3. active'[k] = NoEvent /\ \A j \in Key \ {k} : active'[j] = active[j]
    BY <1>3, <2>1
  <2> HIDE DEF e
  <2> QED BY <1>3, <2>1, <2>2, <2>3, MirrorUpdate
<1> QED BY <1>2, <1>4, <1>5, <1>6, <1>7

LEMMA AckMirrors ==
  ASSUME IInv, MirrorInv, IncidentsAreDistinct, NEW k \in Key, Ack(k)
  PROVE  MirrorInv'
<1> DEFINE ev == [active[k] EXCEPT !.acked = TRUE]
           e == entryOf(k, active'[k], "firing")
<1>1. active \in [Key -> Event \cup {NoEvent}] /\ active[k] # NoEvent /\ active[k] \in Event
  BY DEF IInv, ActiveOK, Ack
<1>2. ev \in Event /\ ev.id = active[k].id
  BY <1>1 DEF Event
<1>3. active' = [active EXCEPT ![k] = ev] /\ updateHistoryByID(e) /\ lastSeq' = lastSeq
  BY <1>1 DEF Ack
<1> HIDE DEF ev
<1>4. active'[k] = ev /\ ev # NoEvent /\ \A j \in Key \ {k} : active'[j] = active[j]
  BY <1>1, <1>2, <1>3, NoEventAssumption
<1>5. e.id = active[k].id /\ e.key = k
  BY <1>2, <1>4 DEF entryOf
<1>6. active'[k] # NoEvent /\ active'[k].id = e.id /\ entryOf(k, active'[k], "firing") = e
  BY <1>2, <1>4, <1>5
<1> HIDE DEF e
<1> QED BY <1>1, <1>3, <1>4, <1>5, <1>6, MirrorUpdate

LEMMA MarkedMirrors ==
  ASSUME IInv, MirrorInv, NEW keys, active' = markedPosted(keys), UNCHANGED <<history, lastSeq>>
  PROVE  MirrorInv'
<1>1. ASSUME NEW k \in Key, active'[k] # active[k]
      PROVE  /\ active[k] # NoEvent /\ active'[k] # NoEvent
             /\ active'[k].id = active[k].id
             /\ active'[k].sev = active[k].sev /\ active'[k].acked = active[k].acked
  <2>1. active[k] # NoEvent /\ active[k] \in Event /\ active'[k] = [active[k] EXCEPT !.tgPosted = TRUE]
    BY <1>1 DEF markedPosted, IInv, ActiveOK
  <2>2. active'[k] \in Event
    BY <2>1 DEF Event
  <2> QED BY <2>1, <2>2, NoEventAssumption DEF Event
<1> QED BY <1>1, MirrorKept DEF IInv

(* An active incident's entry is current while it is in the ring, only     *)
(* active incidents have firing entries, and ids never repeat: whatever    *)
(* acknowledgements, escalations, marks and a full ring do in between.     *)
THEOREM RingMirrors ==
  ASSUME SteadyFleet
  PROVE  Spec => []HistoryMirrorsActive
<1>1. Init => MirrorInv
  BY DEF Init, MirrorInv, HistoryMirrorsActive, IdsBelow
<1>2. IInv /\ IncidentsAreDistinct /\ MirrorInv /\ [Next]_vars => MirrorInv'
  <2> SUFFICES ASSUME IInv, IncidentsAreDistinct, MirrorInv, [Next]_vars PROVE MirrorInv'
    OBVIOUS
  <2>0. RingOK /\ active \in [Key -> Event \cup {NoEvent}]
    BY DEF IInv, ActiveOK
  <2>1. ASSUME UNCHANGED <<active, history, lastSeq>> PROVE MirrorInv'
    BY <2>0, <2>1, MirrorKept
  <2>2. CASE UNCHANGED vars
    BY <2>1, <2>2 DEF vars, ring
  <2>3. CASE TickSnapshot
    <3>1. ASSUME NEW k \in Key, active[k] # NoEvent
          PROVE  /\ active'[k] # NoEvent /\ active'[k].id = active[k].id
                 /\ active'[k].sev = active[k].sev /\ active'[k].acked = active[k].acked
      <4>1. active[k] \in Event /\ active'[k] = [active[k] EXCEPT !.age = UpTo(@ + TickSecs, LongAgo)]
        BY <2>0, <2>3, <3>1 DEF TickSnapshot
      <4>2. UpTo(active[k].age + TickSecs, LongAgo) \in Seconds
        BY <4>1, AgeType DEF Event
      <4>3. active'[k] \in Event
        BY <4>1, <4>2 DEF Event
      <4> QED BY <4>1, <4>3, NoEventAssumption DEF Event
    <3>2. ASSUME NEW k \in Key, active[k] = NoEvent PROVE active'[k] = active[k]
      BY <2>3, <3>2 DEF TickSnapshot
    <3> QED BY <2>0, <2>3, <3>1, <3>2, MirrorKept DEF TickSnapshot, ring
  <2>4. CASE TickBegin \/ FlushCopy \/ \E ok \in BOOLEAN : FlushSave(ok)
    BY <2>1, <2>4 DEF TickBegin, FlushCopy, FlushSave, ring
  <2>5. CASE TickEnd
    BY <2>5, MarkedMirrors DEF TickEnd, ring
  <2>6. CASE Triage
    BY <2>1, <2>6, MarkedMirrors DEF Triage, TriageExpected, TriageSend, TriageMark, ring
  <2>7. ASSUME NEW s \in Edits, Reload(s) PROVE MirrorInv'
    BY <2>1, <2>7 DEF Reload, ring
  <2>8. ASSUME NEW n \in Node, NodeLeaves(n) \/ NodeScraped(n) PROVE MirrorInv'
    BY <2>1, <2>8 DEF NodeLeaves, NodeScraped, ring
  <2>9. ASSUME NEW n \in Node, evictNode(n) PROVE FALSE
    BY <2>9 DEF evictNode, View!Evicted, SteadyFleet, IInv, WorldOK
  <2>10. ~Restart
    BY DEF Restart, SteadyFleet
  <2>11. CASE Next
    BY <2>3, <2>4, <2>5, <2>6, <2>7, <2>8, <2>9, <2>10, <2>11, TurnMirrors, AckMirrors, NextCases
  <2> QED BY <2>2, <2>11
<1>3. MirrorInv => HistoryMirrorsActive
  BY DEF MirrorInv
<1> QED BY <1>1, <1>2, <1>3, Invariance, IncidentIds, PTL DEF Spec

-----------------------------------------------------------------------------
(* The resolve debounce, under the same condition as the sustain debounce: *)
(* an eviction would leave a count of clear ticks to the next incident.    *)
Cleared ==
  /\ \A k \in Key : clearing[k] # 0 =>
       active[k] # NoEvent /\ k[1] \in fleet /\ k[2] \in DOMAIN rules
  /\ \A k \in Key : UpTo(clearing[k], StreakCap) <= unmatched[k]

(* Incidents stay open except in their own turn.                           *)
LEMMA StaysOpen ==
  ASSUME IInv, NEW k \in Key, active[k] # NoEvent,
         TickSnapshot \/ TickEnd \/ Triage \/ \E j \in Key : Ack(j)
  PROVE  active'[k] # NoEvent
<1>1. active \in [Key -> Event \cup {NoEvent}] /\ active[k] \in Event
  BY DEF IInv, ActiveOK
<1>2. CASE TickSnapshot
  <2>1. active'[k] = [active[k] EXCEPT !.age = UpTo(@ + TickSecs, LongAgo)]
    BY <1>2 DEF TickSnapshot
  <2>2. UpTo(active[k].age + TickSecs, LongAgo) \in Seconds
    BY <1>1, AgeType DEF Event
  <2>3. active'[k] \in Event
    BY <1>1, <2>1, <2>2 DEF Event
  <2> QED BY <2>3, NoEventAssumption
<1>3. ASSUME NEW keys, active' = markedPosted(keys) PROVE active'[k] # NoEvent
  <2>1. [active[k] EXCEPT !.tgPosted = TRUE] \in Event
    BY <1>1 DEF Event
  <2> QED BY <1>1, <1>3, <2>1, NoEventAssumption DEF markedPosted
<1>4. CASE TickEnd \/ Triage
  BY <1>3, <1>4 DEF TickEnd, Triage, TriageExpected, TriageSend, TriageMark
<1>5. ASSUME NEW j \in Key, Ack(j) PROVE active'[k] # NoEvent
  <2>1. active' = [active EXCEPT ![j] = [active[j] EXCEPT !.acked = TRUE]]
    BY <1>1, <1>5 DEF Ack, IInv, ActiveOK
  <2>2. [active[k] EXCEPT !.acked = TRUE] \in Event
    BY <1>1 DEF Event
  <2> QED BY <1>1, <2>1, <2>2, NoEventAssumption
<1> QED BY <1>2, <1>4, <1>5

(* A key's turn: its count of clear ticks grows with the run, or is none.  *)
LEMMA ClearedTurn ==
  ASSUME IInv, Counted, Cleared, NEW k \in Key, NEW cond \in BOOLEAN, Turn(k), Observe(k, cond),
         UNCHANGED <<rules, fleet>>,
         \A j \in Key \ {k} : active'[j] = active[j] /\ clearing'[j] = clearing[j],
         \/ clearing'[k] = 0
         \/ clearing'[k] = clearingNext(k, cond) /\ active'[k] # NoEvent
  PROVE  Cleared'
<1>1. /\ StreakCap \in Nat /\ clearing[k] \in Nat
      /\ unmatched \in [Key -> 0 .. StreakCap] /\ unmatched[k] \in 0 .. StreakCap
  BY EngineAssumption DEF IInv, CountsOK
<1>2. k[1] \in fleet /\ k[2] \in DOMAIN rules
  BY DEF Turn, Counted, IInv, TodoCompiled
<1>3. /\ \A j \in Key \ {k} : unmatched'[j] = unmatched[j]
      /\ unmatched'[k] = IF cond THEN 0 ELSE UpTo(unmatched[k] + 1, StreakCap)
  BY <1>1 DEF Observe
<1>4. clearing'[k] = 0 \/ (~cond /\ clearing'[k] = clearing[k] + 1)
  BY DEF clearingNext
<1>5. UpTo(clearing[k], StreakCap) <= unmatched[k]
  BY DEF Cleared
<1>6. ASSUME NEW m \in Nat, NEW u \in Nat, NEW c \in Nat, UpTo(m, c) <= u
      PROVE  UpTo(m + 1, c) <= UpTo(u + 1, c) /\ UpTo(0, c) = 0 /\ 0 <= UpTo(u + 1, c)
  BY <1>6 DEF UpTo
<1>7. UpTo(clearing'[k], StreakCap) <= unmatched'[k]
  BY <1>1, <1>3, <1>4, <1>5, <1>6
<1>8. \A j \in Key : UpTo(clearing'[j], StreakCap) <= unmatched'[j]
  BY <1>3, <1>7 DEF Cleared
<1>9. \A j \in Key : clearing'[j] # 0 => active'[j] # NoEvent /\ j[1] \in fleet /\ j[2] \in DOMAIN rules
  BY <1>2 DEF Cleared
<1> QED BY <1>8, <1>9 DEF Cleared

LEMMA ClearedEvaluate ==
  ASSUME IInv, Counted, Cleared, Evaluate
  PROVE  Cleared'
<1>1. PICK k \in todo : \E cond \in Verdict(k) :
        Arm(k, cond) \/ NewFire(k, cond) \/ Continue(k, cond) \/ Resolve(k, cond)
  BY DEF Evaluate
<1>2. PICK cond \in Verdict(k) :
        Arm(k, cond) \/ NewFire(k, cond) \/ Continue(k, cond) \/ Resolve(k, cond)
  BY <1>1
<1>3. /\ k \in Key /\ cond \in BOOLEAN
      /\ active \in [Key -> Event \cup {NoEvent}] /\ clearing \in [Key -> Nat]
  BY DEF IInv, LoopOK, ActiveOK, CountsOK, Verdict
<1>4. Turn(k) /\ Observe(k, cond) /\ UNCHANGED <<rules, fleet>>
  BY <1>2 DEF Arm, NewFire, Continue, Resolve, world
<1>5. \A j \in Key \ {k} : active'[j] = active[j] /\ clearing'[j] = clearing[j]
  BY <1>2, <1>3 DEF Arm, NewFire, Continue, Resolve
<1>6. \/ clearing'[k] = 0
      \/ clearing'[k] = clearingNext(k, cond) /\ active'[k] # NoEvent
  <2>1. CASE Arm(k, cond) \/ NewFire(k, cond)
    BY <1>3, <2>1 DEF Arm, NewFire, Cleared
  <2>2. CASE Continue(k, cond)
    <3>1. PICK out \in Event : active' = [active EXCEPT ![k] = out]
      BY <1>3, <2>2, ContinueFacts
    <3> QED BY <1>3, <2>2, <3>1, NoEventAssumption DEF Continue
  <2>3. CASE Resolve(k, cond)
    BY <1>3, <2>3 DEF Resolve
  <2> QED BY <1>2, <2>1, <2>2, <2>3
<1> QED BY <1>3, <1>4, <1>5, <1>6, ClearedTurn

LEMMA ClearedSkip ==
  ASSUME IInv, Cleared, NEW keys, Skip(keys), UNCHANGED <<rules, fleet, clearing>>,
         \A k \in Key : k \in keys => clearing[k] = 0,
         \A k \in Key : active[k] # NoEvent => active'[k] # NoEvent
  PROVE  Cleared'
<1>1. ASSUME NEW k \in Key PROVE UpTo(clearing[k], StreakCap) <= unmatched'[k]
  <2>1. StreakCap \in Nat /\ unmatched'[k] = (IF k \in keys THEN 0 ELSE unmatched[k])
    BY EngineAssumption DEF Skip
  <2>2. UpTo(0, StreakCap) = 0
    BY <2>1 DEF UpTo
  <2> QED BY <2>1, <2>2 DEF Cleared
<1> QED BY <1>1 DEF Cleared

LEMMA ClearedInductive ==
  ASSUME SteadyKeys
  PROVE  IInv /\ Counted /\ Cleared /\ [Next]_vars => Cleared'
<1> SUFFICES ASSUME IInv, Counted, Cleared, [Next]_vars PROVE Cleared'
  OBVIOUS
<1>1. ASSUME UNCHANGED <<clearing, unmatched>>, fleet \subseteq fleet', DOMAIN rules \subseteq DOMAIN rules',
             \A k \in Key : active[k] # NoEvent => active'[k] # NoEvent
      PROVE  Cleared'
  BY <1>1 DEF Cleared
<1>2. CASE UNCHANGED vars
  BY <1>1, <1>2 DEF vars, counts, world
<1>3. CASE TickSnapshot
  <2>1. UNCHANGED <<rules, fleet, clearing>> /\ Skip({k \in Key : k[1] \notin fleet})
    BY <1>3 DEF TickSnapshot, world
  <2> QED BY <1>3, <2>1, StaysOpen, ClearedSkip DEF Cleared
<1>4. CASE TickBegin
  <2>1. UNCHANGED <<rules, fleet, clearing, active>> /\ Skip({k \in Key : k[2] \notin DOMAIN rules})
    BY <1>4 DEF TickBegin, world
  <2> QED BY <2>1, ClearedSkip DEF Cleared
<1>5. CASE TickEnd \/ Triage \/ \E k \in Key : Ack(k)
  <2>1. UNCHANGED <<clearing, unmatched, fleet, rules>>
    BY <1>5 DEF TickEnd, Triage, TriageExpected, TriageSend, TriageMark, Ack, counts, world
  <2> QED BY <1>1, <1>5, <2>1, StaysOpen
<1>6. CASE FlushCopy \/ \E ok \in BOOLEAN : FlushSave(ok)
  BY <1>1, <1>6 DEF FlushCopy, FlushSave, counts, world
<1>7. ASSUME NEW s \in Edits, Reload(s) PROVE Cleared'
  <2>1. store \in Stores /\ s \in Stores
    BY EngineAssumption DEF IInv, WorldOK
  <2>2. DOMAIN rules' = DOMAIN rules
    BY <1>7, <2>1 DEF Reload, SteadyKeys, Counted
  <2> QED BY <1>1, <1>7, <2>2 DEF Reload, counts
<1>8. ASSUME NEW n \in Node, NodeScraped(n) PROVE Cleared'
  BY <1>1, <1>8 DEF NodeScraped, View!Scraped, counts
<1>9. ASSUME NEW n \in Node PROVE ~NodeLeaves(n) /\ ~evictNode(n)
  BY DEF NodeLeaves, evictNode, View!Evicted, SteadyKeys, IInv, WorldOK
<1>10. CASE Restart
  <2>1. UpTo(0, StreakCap) = 0
    BY EngineAssumption DEF UpTo
  <2> QED BY <1>10, <2>1 DEF Restart, Cleared
<1>11. CASE Next
  BY <1>3, <1>4, <1>5, <1>6, <1>7, <1>8, <1>9, <1>10, <1>11, ClearedEvaluate, NextCases
<1> QED BY <1>2, <1>11

(* A tick closes an incident only after a full run of consecutive clear    *)
(* ticks, for every resolve time and whatever edits and flaps came before. *)
THEOREM ResolveRespected ==
  ASSUME SteadyKeys
  PROVE  Spec => DebouncedResolve
<1> DEFINE Closed == InTick => \A k \in Key : active[k] # NoEvent /\ active'[k] = NoEvent
                       => unmatched'[k] >= UpTo(reqResolve(k), StreakCap)
<1>1. IInv /\ Cleared /\ [Next]_vars => [Closed]_vars
  <2> SUFFICES ASSUME IInv, Cleared, Next, InTick,
                      NEW k \in Key, active[k] # NoEvent, active'[k] = NoEvent
               PROVE  unmatched'[k] >= UpTo(reqResolve(k), StreakCap)
    OBVIOUS
  <2>1. Evaluate
    BY NextCases, StaysOpen DEF InTick, TickBegin, FlushCopy, FlushSave, Reload, NodeLeaves,
       evictNode, NodeScraped, Restart
  <2>2. PICK j \in todo : \E cond \in Verdict(j) :
          Arm(j, cond) \/ NewFire(j, cond) \/ Continue(j, cond) \/ Resolve(j, cond)
    BY <2>1 DEF Evaluate
  <2>3. PICK cond \in Verdict(j) :
          Arm(j, cond) \/ NewFire(j, cond) \/ Continue(j, cond) \/ Resolve(j, cond)
    BY <2>2
  <2>4. j \in Key /\ cond \in BOOLEAN /\ active \in [Key -> Event \cup {NoEvent}]
    BY DEF IInv, LoopOK, ActiveOK, Verdict
  <2>5. ASSUME Continue(j, cond) PROVE FALSE
    <3>1. PICK out \in Event : active' = [active EXCEPT ![j] = out]
      BY <2>4, <2>5, ContinueFacts
    <3> QED BY <2>4, <3>1, NoEventAssumption
  <2>6. Resolve(j, cond) /\ j = k
    BY <2>3, <2>4, <2>5 DEF Arm, NewFire, Resolve
  <2>7. /\ StreakCap \in Nat /\ clearing[k] \in Nat /\ unmatched[k] \in Nat
        /\ unmatched \in [Key -> 0 .. StreakCap] /\ UpTo(clearing[k], StreakCap) <= unmatched[k]
    BY EngineAssumption DEF IInv, CountsOK, Cleared
  <2>8. /\ clearing[k] + 1 >= reqResolve(k)
        /\ unmatched'[k] = UpTo(unmatched[k] + 1, StreakCap)
    BY <2>6, <2>7 DEF Resolve, Observe, clearingNext
  <2>9. reqResolve(k) \in Int
    <3>0. Turn(k)
      BY <2>6 DEF Resolve
    <3>1. rules[k[2]].resolve \in Seconds
      <4>1. rules[k[2]] \in CompiledRule
        BY <3>0, TurnFacts
      <4>2. ASSUME NEW r \in CompiledRule PROVE r.resolve \in Seconds
        BY Zenon DEF CompiledRule
      <4> QED BY <4>1, <4>2
    <3>2. rules[k[2]].resolve \in Int
      BY <3>1 DEF Seconds
    <3> QED BY <3>2 DEF reqResolve, ticksFor, TickSecs
  <2>10. ASSUME NEW p \in Nat, NEW m \in Nat, NEW c \in Nat, NEW r \in Int,
                r <= p + 1, UpTo(p, c) <= m
         PROVE  UpTo(m + 1, c) >= UpTo(r, c)
    BY <2>10 DEF UpTo
  <2> QED BY <2>7, <2>8, <2>9, <2>10
<1>2. Spec => []Cleared
  <2>1. Init => Cleared
    <3> SUFFICES ASSUME Init PROVE Cleared
      OBVIOUS
    <3>1. UpTo(0, StreakCap) = 0
      BY EngineAssumption DEF UpTo
    <3> QED BY <3>1 DEF Init, Cleared
  <2> QED BY <2>1, ClearedInductive, CountedInit, CountedInductive, Invariance, PTL DEF Spec
<1> QED BY <1>1, <1>2, Invariance, PTL DEF Spec, DebouncedResolve
=============================================================================
