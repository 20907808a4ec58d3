-------------------------------- MODULE Notices --------------------------------
(***************************************************************************)
(* Who is told: escalation of alerts nobody acknowledges (backend/         *)
(* oncall.go), the queue of Telegram messages (notify_tg.go) and the       *)
(* monitor of PostgreSQL replication and WAL archiving (replmon.go).       *)
(*                                                                         *)
(* The queue has one consumer, which tries each message five times; who    *)
(* finds it full waits three seconds and gives up, at once if the message  *)
(* is a silent one.                                                        *)
(***************************************************************************)
EXTENDS Naturals, Sequences, SequencesExt

CONSTANTS
    Alerts, NoAlert, Admins, People, \* Admins are among People
    Plans,                  \* escalation plans: tiers of [after, target]
    Group,                  \* notify.chatID
    QueueCap,               \* the capacity of tgNotifier.queue
    MaxAge                  \* bound: minutes an alert has been firing

ASSUME NoticesAssumption ==
    /\ Plans \subseteq Seq([after : Nat, target : {"group", "admins", "oncall"}])
    /\ Admins \subseteq People /\ IsFiniteSet(Admins) /\ QueueCap \in Nat /\ NoAlert \notin Alerts

VARIABLES
    firing, age,            \* what activeUnacked sees
    plan, oncall,           \* oncallStore.cfg: the tiers, and whose week it is
    cfgSaved,
    sent,                   \* oncallStore.sent
    tickAt,                 \* the tick under way: its plan and its alerts
    bound,                  \* operators with a bound Telegram account
    queue, sending,         \* tgNotifier.queue; the message being delivered
    standby, alertedRepl, badStreak,    \* replMonitor
    wal, archAlerted,       \* failed_count since the last check; replMonitor
    told,                   \* history: alerts somebody was told of
    excused                 \* history: alerts of which a page was lost: queue
                            \* full, Telegram, or no administrator to tell

oncallVars == <<firing, age, plan, oncall, cfgSaved, sent, tickAt, bound>>
queueVars == <<queue, sending, told, excused>>
replVars == <<standby, alertedRepl, badStreak, wal, archAlerted>>
noticeVars == <<oncallVars, queueVars, replVars>>

NoTick == [plan |-> <<>>, todo |-> {}, live |-> {}, on |-> FALSE]

\* What a message is about is the sender's: an alert here, others elsewhere.
NoticesTypeOK ==
    /\ firing \in [Alerts -> {"never", "firing", "over"}] /\ age \in [Alerts -> 0 .. MaxAge]
    /\ plan \in Plans /\ oncall \in People \cup {NoAlert} /\ bound \subseteq People
    /\ sent \in [Alerts -> Nat]
    /\ Len(queue) <= QueueCap /\ Cardinality(sending) <= 1
    /\ \A m \in ToSet(queue) \cup sending : m.to \in People \cup {Group} /\ m.loud \in BOOLEAN
    /\ standby \in {"none", "down", "slow", "ok"} /\ badStreak \in 0 .. 2

NoticesInit ==
    /\ firing = [a \in Alerts |-> "never"] /\ age = [a \in Alerts |-> 0]
    /\ plan \in Plans /\ oncall \in People \cup {NoAlert} /\ cfgSaved = [plan |-> plan, oncall |-> oncall]
    /\ sent = [a \in Alerts |-> 0] /\ tickAt = NoTick
    /\ bound \in SUBSET People
    /\ queue = <<>> /\ sending = {} /\ told = {} /\ excused = {}
    /\ standby = "none" /\ alertedRepl = FALSE /\ badStreak = 0
    /\ wal = "quiet" /\ archAlerted = "unseeded"

------------------------------------------------------------------------------
Excuse(about) == excused' = excused \cup ({about} \ {NoAlert})

(* enqueue: of several messages, those that fit.                           *)
enqueue(ms) ==
    LET room == QueueCap - Len(queue)
        fit == SetToSeq(ms)
    IN  /\ queue' = queue \o SubSeq(fit, 1, IF room < Len(fit) THEN room ELSE Len(fit))
        /\ IF Len(fit) > room THEN excused' = excused \cup ({m.about : m \in ms} \ {NoAlert})
           ELSE UNCHANGED excused
        /\ UNCHANGED <<sending, told>>

runLoop ==
    /\ queue # <<>> /\ sending = {} /\ sending' = {Head(queue)} /\ queue' = Tail(queue)
    /\ UNCHANGED <<oncallVars, replVars, told, excused>>

(* deliver: sent; or refused for good, or five times.                      *)
deliver(m) ==
    /\ m \in sending /\ sending' = {}
    /\ \/ told' = told \cup ({m.about} \ {NoAlert}) /\ UNCHANGED excused
       \/ Excuse(m.about) /\ UNCHANGED told
    /\ UNCHANGED <<oncallVars, replVars, queue>>

------------------------------------------------------------------------------
alertFires(a) ==
    /\ firing[a] = "never" /\ firing' = [firing EXCEPT ![a] = "firing"]
    /\ UNCHANGED <<age, plan, oncall, cfgSaved, sent, tickAt, bound, queueVars, replVars>>

(* Resolved or acknowledged; the next one has another id.                  *)
alertOver(a) ==
    /\ firing[a] = "firing" /\ firing' = [firing EXCEPT ![a] = "over"]
    /\ UNCHANGED <<age, plan, oncall, cfgSaved, sent, tickAt, bound, queueVars, replVars>>

minutePasses ==
    /\ \E a \in Alerts : firing[a] = "firing" /\ age[a] < MaxAge
    /\ age' = [a \in Alerts |-> IF firing[a] = "firing" /\ age[a] < MaxAge THEN age[a] + 1 ELSE age[a]]
    /\ UNCHANGED <<firing, plan, oncall, cfgSaved, sent, tickAt, bound, queueVars, replVars>>

handleOncallSet(p, who) ==
    /\ plan' = p /\ oncall' = who
    /\ cfgSaved' \in {[plan |-> p, oncall |-> who], cfgSaved}
    /\ UNCHANGED <<firing, age, sent, tickAt, bound, queueVars, replVars>>

(* currentOncall: the rotation goes on by itself.                          *)
currentOncall ==
    /\ oncall # NoAlert /\ \E who \in People \ {oncall} : oncall' = who
    /\ cfgSaved' = [cfgSaved EXCEPT !.oncall = IF @ = oncall THEN oncall' ELSE @]
    /\ UNCHANGED <<firing, age, plan, sent, tickAt, bound, queueVars, replVars>>

telegramBound(who) ==
    /\ bound' = IF who \in bound THEN bound \ {who} ELSE bound \cup {who}
    /\ UNCHANGED <<firing, age, plan, oncall, cfgSaved, sent, tickAt, queueVars, replVars>>

tick ==
    /\ ~tickAt.on /\ plan # <<>>
    /\ LET live == {a \in Alerts : firing[a] = "firing"}
       IN  tickAt' = [plan |-> plan, todo |-> live, live |-> live, on |-> TRUE]
    /\ UNCHANGED <<firing, age, plan, oncall, cfgSaved, sent, bound, queueVars, replVars>>

(* The last tier that is due; 0 if none is.                                *)
TierDue(tiers, minutes) ==
    IF \E i \in DOMAIN tiers : tiers[i].after <= minutes
    THEN CHOOSE i \in DOMAIN tiers : /\ tiers[i].after <= minutes
                                     /\ \A j \in DOMAIN tiers : j > i => tiers[j].after > minutes
    ELSE 0

(* A mutant: who is on call and cannot be reached is nobody's problem. *)
MutNoFallback(target) ==
    CASE target = "group" -> {Group}
      [] target = "admins" -> Admins \cap bound
      [] target = "oncall" -> {oncall} \cap bound

(* page: the group also stands in for an on-call who cannot be reached.    *)
page(target) ==
    CASE target = "group" -> {Group}
      [] target = "admins" -> Admins \cap bound
      [] target = "oncall" -> IF oncall \in bound THEN {oncall} ELSE {Group}

pageAlert(a) ==
    /\ a \in tickAt.todo /\ tickAt' = [tickAt EXCEPT !.todo = @ \ {a}]
    /\ LET due == TierDue(tickAt.plan, age[a])
       IN  IF due > sent[a]
           THEN /\ sent' = [sent EXCEPT ![a] = due]
                /\ LET target == tickAt.plan[due].target
                   IN  IF target = "admins" /\ Admins \cap bound = {}
                       THEN Excuse(a) /\ UNCHANGED <<queue, sending, told>>
                       ELSE enqueue({[to |-> p, about |-> a, loud |-> TRUE] : p \in page(target)})
           ELSE UNCHANGED <<sent, queueVars>>
    /\ UNCHANGED <<firing, age, plan, oncall, cfgSaved, bound, replVars>>

(* The entries of alerts that were not live when the tick began go.        *)
tickEnds ==
    /\ tickAt.on /\ tickAt.todo = {} /\ tickAt' = NoTick
    /\ sent' = [a \in Alerts |-> IF a \in tickAt.live THEN sent[a] ELSE 0]
    /\ UNCHANGED <<firing, age, plan, oncall, cfgSaved, bound, queueVars, replVars>>

------------------------------------------------------------------------------
(* replMonitor: without a configured standby, on a standby, or without an  *)
(* answer from the database nothing is judged, archiving neither.          *)
post(loud) == enqueue({[to |-> Group, about |-> NoAlert, loud |-> loud]})

checkReplication ==
    /\ standby # "none"
    /\ LET healthy == standby = "ok"
           streak == IF healthy THEN 0 ELSE IF badStreak < 2 THEN badStreak + 1 ELSE 2
       IN  /\ badStreak' = streak
           /\ IF ~healthy /\ streak = 2 /\ ~alertedRepl THEN post(TRUE) /\ alertedRepl' = TRUE
              ELSE IF healthy /\ alertedRepl THEN post(TRUE) /\ alertedRepl' = FALSE
              ELSE UNCHANGED <<alertedRepl, queueVars>>
    /\ UNCHANGED <<oncallVars, standby, wal, archAlerted>>

(* The first look only remembers the count.                                *)
checkArchiver ==
    /\ standby # "none" /\ wal' = "quiet"
    /\ CASE archAlerted = "unseeded" -> archAlerted' = "no" /\ UNCHANGED queueVars
         [] wal = "failing" /\ archAlerted = "no" -> archAlerted' = "yes" /\ post(TRUE)
         [] wal = "quiet" /\ archAlerted = "yes" -> archAlerted' = "no" /\ post(TRUE)
         [] OTHER -> UNCHANGED <<archAlerted, queueVars>>
    /\ UNCHANGED <<oncallVars, standby, alertedRepl, badStreak>>

replicationChanges ==
    /\ standby' \in {"none", "down", "slow", "ok"} /\ wal' \in {"quiet", "failing"}
    /\ UNCHANGED <<oncallVars, queueVars, alertedRepl, badStreak, archAlerted>>

NoticesRestart ==
    /\ plan' = cfgSaved.plan /\ oncall' = cfgSaved.oncall
    /\ sent' = [a \in Alerts |-> 0] /\ tickAt' = NoTick /\ queue' = <<>> /\ sending' = {}
    /\ alertedRepl' = FALSE /\ badStreak' = 0 /\ archAlerted' = "unseeded"
    /\ UNCHANGED <<firing, age, cfgSaved, bound, told, excused, standby, wal>>

OncallEvents ==
    \/ \E a \in Alerts : alertFires(a) \/ alertOver(a)
    \/ \E p \in Plans, who \in People \cup {NoAlert} : handleOncallSet(p, who)
    \/ currentOncall \/ \E who \in People : telegramBound(who)
OncallWork ==
    \/ minutePasses \/ tick \/ tickEnds \/ \E a \in Alerts : pageAlert(a)
    \/ runLoop \/ \E m \in sending : deliver(m)
ReplWork ==
    \/ replicationChanges \/ checkReplication \/ checkArchiver
    \/ runLoop \/ \E m \in sending : deliver(m)

------------------------------------------------------------------------------
(* An alert whose escalation is marked as done was announced to somebody,  *)
(* or is about to be: whoever lost the account, the rotation or the        *)
(* acknowledgement in between, a tier is marked before its page is queued  *)
(* and would never be tried again.                                         *)
TiersAreTold ==
    \A a \in Alerts : sent[a] > 0 =>
        a \in told \cup excused \/ \E m \in ToSet(queue) \cup sending : m.about = a
==============================================================================
