-------------------------------- MODULE Watchers --------------------------------
(***************************************************************************)
(* The watchers of our own address space: whether the public data holds a  *)
(* valid ROA for each prefix we announce (backend/rpki.go) and whether     *)
(* anybody else announces our space (hijack.go).  Both post to the queue   *)
(* of Notices, and both remember what they posted.                         *)
(*                                                                         *)
(* The RPKI watcher polls from its ticker and from a handler, at once if   *)
(* it so happens; lastWarn is read and written without a lock.  What is    *)
(* only shown is left out: paths, ROA counts and the routers' own counters.*)
(***************************************************************************)
EXTENDS Notices

CONSTANTS
    Nets,                   \* what we announce
    Pollers,                \* requests to refresh; the ticker is one more
    Setters,                \* requests that set the poll interval
    MinRefresh, MaxRefresh, \* rpkiMinRefresh, rpkiMaxRefresh
    Suspects,               \* prefix and origin of what others announce
    EventCap,               \* 50: the suspects a snapshot shows
    Unreached,              \* in place of the problems: no answer
    MaxBackoff              \* doublings of the reconnection delay up to its cap

VARIABLES
    validity,               \* what the public data says of each prefix
    polls,                  \* calls of refresh under way
    view, lastWarn,         \* rpkiMonitor.state: problems shown, or Unreached
    interval, period,       \* rpkiMonitor.interval; the ticker's, 0 before it exists
    resetTick, setting,     \* the signal; setInterval under way: 0 or its interval
    saved,                  \* the interval in the file and in the database
    connected, watching,    \* hijackMonitor.state; the prefixes subscribed to
    backoff,
    sighted, suspects       \* hijackMonitor.seen, and state.Events

rpkiVars == <<validity, polls, view, lastWarn>>
tickerVars == <<interval, period, resetTick, setting, saved>>
hijackVars == <<connected, watching, backoff, sighted, suspects>>
watcherVars == <<rpkiVars, tickerVars, hijackVars>>

Ticker == "ticker"
NoPoll == [at |-> "idle", left |-> {}, probs |-> {}]
Validities == {"valid", "invalid", "unknown"}
Problems == SUBSET (Nets \X Validities)

(* What a message is about is an alert, a suspect or a set of problems.    *)
ASSUME WatchersAssumption ==
    /\ MinRefresh \in Nat \ {0} /\ MaxRefresh \in Nat /\ MinRefresh <= MaxRefresh
    /\ Alerts \cap Suspects = {} /\ NoAlert \notin Suspects
    /\ \A probs \in Problems : probs \notin Alerts \cup Suspects \cup {NoAlert}

WatchersInit ==
    /\ validity \in [Nets -> Validities]
    /\ polls = [p \in Pollers \cup {Ticker} |-> NoPoll] /\ view = {} /\ lastWarn = {}
    /\ interval \in MinRefresh .. MaxRefresh /\ period = 0 /\ resetTick = FALSE
    /\ setting = [s \in Setters |-> 0] /\ saved = [file |-> interval, db |-> interval]
    /\ connected = FALSE /\ watching = {} /\ backoff = 0
    /\ sighted = [s \in Suspects |-> "never"] /\ suspects = <<>>

------------------------------------------------------------------------------
roaChanges(x, v) ==
    /\ validity[x] # v /\ validity' = [validity EXCEPT ![x] = v]
    /\ UNCHANGED <<polls, view, lastWarn, tickerVars, hijackVars, noticeVars>>

(* The ticker is made after the first refresh, with the interval of then.  *)
refreshEnds(p) ==
    /\ polls' = [polls EXCEPT ![p] = NoPoll]
    /\ period' = IF p = Ticker /\ period = 0 THEN interval ELSE period
    /\ UNCHANGED <<interval, resetTick, setting, saved>>

(* refresh, from asking for the announced prefixes on.                     *)
announced(p) ==
    /\ polls[p].at = "idle"
    /\ \/ view' = Unreached /\ refreshEnds(p)
       \/ /\ polls' = [polls EXCEPT ![p] = [at |-> "asking", left |-> Nets, probs |-> {}]]
          /\ UNCHANGED <<view, tickerVars>>
    /\ UNCHANGED <<validity, lastWarn, hijackVars, noticeVars>>

(* A question that is not answered, or whose request was given up, counts  *)
(* as unknown, which the warning calls "no ROA".                           *)
validityOf(p, x) ==
    /\ polls[p].at = "asking" /\ x \in polls[p].left
    /\ \E v \in {validity[x], "unknown"} :
         polls' = [polls EXCEPT ![p].left = @ \ {x},
                                ![p].probs = IF v = "valid" THEN @ ELSE @ \cup {<<x, v>>}]
    /\ UNCHANGED <<validity, view, lastWarn, tickerVars, hijackVars, noticeVars>>

publish(p) ==
    /\ polls[p].at = "asking" /\ polls[p].left = {}
    /\ view' = polls[p].probs /\ polls' = [polls EXCEPT ![p].at = "published"]
    /\ UNCHANGED <<validity, lastWarn, tickerVars, hijackVars, noticeVars>>

(* maybeAlert looks at lastWarn and then writes it.                        *)
compareWarn(p) ==
    /\ polls[p].at = "published"
    /\ IF polls[p].probs = lastWarn THEN refreshEnds(p)
       ELSE polls' = [polls EXCEPT ![p].at = "warning"] /\ UNCHANGED tickerVars
    /\ UNCHANGED <<validity, view, lastWarn, hijackVars, noticeVars>>

(* Told of a problem is told until it is gone from view and re-armed.      *)
Forget(about) == told' = told \ {about} /\ excused' = excused \ {about}

maybeAlertRPKI(p) ==
    /\ polls[p].at = "warning" /\ refreshEnds(p)
    /\ lastWarn' = polls[p].probs
    /\ IF polls[p].probs = {}
       THEN /\ IF view = {} THEN Forget(lastWarn) ELSE UNCHANGED <<told, excused>>
            /\ UNCHANGED <<queue, sending>>
       ELSE enqueue({[to |-> Group, about |-> polls[p].probs, loud |-> TRUE]})
    /\ UNCHANGED <<validity, view, hijackVars, oncallVars, replVars>>

------------------------------------------------------------------------------
(* Seconds whose nanoseconds wrap arrive here as any number.               *)
clampRefresh(d) == IF d < MinRefresh THEN MinRefresh ELSE IF d > MaxRefresh THEN MaxRefresh ELSE d

setInterval(s, d) ==
    /\ setting[s] = 0
    /\ interval' = clampRefresh(d) /\ setting' = [setting EXCEPT ![s] = clampRefresh(d)]
    /\ UNCHANGED <<period, resetTick, saved, rpkiVars, hijackVars, noticeVars>>

(* The file and the row may each refuse; a signal that waits is enough.    *)
persistInterval(s) ==
    /\ setting[s] # 0 /\ setting' = [setting EXCEPT ![s] = 0] /\ resetTick' = TRUE
    /\ \E copies \in SUBSET {"file", "db"} :
         saved' = [c \in {"file", "db"} |-> IF c \in copies THEN setting[s] ELSE saved[c]]
    /\ UNCHANGED <<interval, period, rpkiVars, hijackVars, noticeVars>>

tickerReset ==
    /\ resetTick /\ period # 0 /\ polls[Ticker].at = "idle"
    /\ resetTick' = FALSE /\ period' = interval
    /\ UNCHANGED <<interval, setting, saved, rpkiVars, hijackVars, noticeVars>>

------------------------------------------------------------------------------
(* session: no answer about our prefixes, none announced, no connection or *)
(* a refused subscription end it before it is connected.                   *)
sessionFails ==
    /\ ~connected /\ backoff' = IF backoff < MaxBackoff THEN backoff + 1 ELSE backoff
    /\ UNCHANGED <<connected, watching, sighted, suspects, rpkiVars, tickerVars, noticeVars>>

sessionStarts ==
    /\ ~connected /\ connected' = TRUE /\ watching' \in SUBSET Nets \ {{}}
    /\ UNCHANGED <<backoff, sighted, suspects, rpkiVars, tickerVars, noticeVars>>

(* A session of more than a minute starts the delay again, at the doubled  *)
(* first one.                                                              *)
sessionEnds ==
    /\ connected /\ connected' = FALSE
    /\ \E from \in {0, backoff} : backoff' = IF from < MaxBackoff THEN from + 1 ELSE from
    /\ UNCHANGED <<watching, sighted, suspects, rpkiVars, tickerVars, noticeVars>>

(* flag: each sighting renews the entry, warned of or not.  stale are the  *)
(* entries a full map drops.                                               *)
flag(s) ==
    /\ \E stale \in SUBSET {o \in Suspects \ {s} : sighted[o] = "old"} :
         sighted' = [o \in Suspects |-> IF o = s THEN "recent" ELSE IF o \in stale THEN "never" ELSE sighted[o]]
    /\ LET newest == <<s>> \o suspects
       IN  suspects' = SubSeq(newest, 1, IF Len(newest) > EventCap THEN EventCap ELSE Len(newest))
    /\ IF sighted[s] = "recent" THEN UNCHANGED queueVars
       ELSE enqueue({[to |-> Group, about |-> s, loud |-> TRUE]})
    /\ UNCHANGED <<connected, watching, backoff, rpkiVars, tickerVars, oncallVars, replVars>>

(* What we originate, and what has no origin, is no suspect.               *)
handleMessage(s) == connected /\ flag(s)

(* Six hours without a sighting; the next one is to be told anew.          *)
sixHoursPass(s) ==
    /\ sighted[s] = "recent" /\ sighted' = [sighted EXCEPT ![s] = "old"] /\ Forget(s)
    /\ UNCHANGED <<connected, watching, backoff, suspects, rpkiVars, tickerVars, oncallVars, replVars, queue, sending>>

------------------------------------------------------------------------------
(* The boot loads the row, or the file if the row cannot be read.          *)
WatchersRestart ==
    /\ NoticesRestart
    /\ polls' = [p \in DOMAIN polls |-> NoPoll] /\ view' = {} /\ lastWarn' = {}
    /\ interval' \in {saved.db, saved.file} /\ period' = 0 /\ resetTick' = FALSE
    /\ setting' = [s \in Setters |-> 0]
    /\ connected' = FALSE /\ watching' = {} /\ backoff' = 0
    /\ sighted' = [s \in Suspects |-> "never"] /\ suspects' = <<>>
    /\ UNCHANGED <<validity, saved>>

Sending == (runLoop \/ \E m \in sending : deliver(m)) /\ UNCHANGED watcherVars
RpkiEvents ==
    \/ \E x \in Nets, v \in Validities : roaChanges(x, v)
    \/ \E p \in Pollers : announced(p)
RpkiWork ==
    \/ announced(Ticker)
    \/ \E p \in Pollers \cup {Ticker} :
         publish(p) \/ compareWarn(p) \/ maybeAlertRPKI(p) \/ \E x \in Nets : validityOf(p, x)
    \/ Sending
TickerEvents == \E s \in Setters, d \in MinRefresh - 1 .. MaxRefresh + 1 : setInterval(s, d)
TickerWork ==
    \/ announced(Ticker) \/ publish(Ticker) \/ compareWarn(Ticker) \/ maybeAlertRPKI(Ticker)
    \/ \E x \in Nets : validityOf(Ticker, x)
    \/ tickerReset \/ \E s \in Setters : persistInterval(s)
HijackEvents == sessionFails \/ sessionStarts \/ sessionEnds
HijackWork == (\E s \in Suspects : handleMessage(s) \/ sixHoursPass(s)) \/ Sending

------------------------------------------------------------------------------
Announced(about) == about \in told \cup excused \/ \E m \in ToSet(queue) \cup sending : m.about = about

(* What a watcher takes for known was told, or is about to be: the last    *)
(* warning, whichever of two refreshes wrote it; the problems shown while  *)
(* nobody refreshes; and an origin whose sightings are passed over.        *)
WarningsAreTold ==
    /\ lastWarn # {} => Announced(lastWarn)
    /\ (view \notin {Unreached, {}} /\ \A p \in DOMAIN polls : polls[p].at = "idle") => Announced(view)
    /\ \A s \in Suspects : sighted[s] = "recent" => Announced(s)

(* What is marked as told was told, or is about to be: tiers of alerts     *)
(* nobody acknowledged, and the warnings of the watchers.                  *)
MarkedIsTold == TiersAreTold /\ WarningsAreTold

(* The ticker runs with the interval shown to the operators, unless a      *)
(* change is under way or its signal waits: changes share one signal.      *)
IntervalIsAdopted == period \in {0, interval} \/ resetTick \/ \E s \in Setters : setting[s] # 0

(* maybeAlert is to warn of a prefix that "is invalid or has no covering   *)
(* ROA" (rpki.go:365): a refresh given up half-way warns of valid ones.    *)
(* Only where the public data never changes.                               *)
WarnsOfProblems == \A p \in DOMAIN polls : polls[p].at = "warning" =>
    \A prob \in polls[p].probs : validity[prob[1]] # "valid"
==============================================================================
