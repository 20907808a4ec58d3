----------------------------- MODULE Measurements -----------------------------
(***************************************************************************)
(* What the console measures day by day: link load with its forecast       *)
(* (backend/capacity.go), the results of the SLA probes (sla.go) and the   *)
(* heartbeats of the status page (heartbeat.go).                           *)
(*                                                                         *)
(* Capacity and SLA keep the samples of the current day in memory (acc),   *)
(* and every ten minutes and at the end of the day make them the day's     *)
(* row, in memory and in a table.  Heartbeats count in the row itself and  *)
(* save the whole document every five minutes.                             *)
(*                                                                         *)
(* One node, one SLA target and one component stand for all: nothing       *)
(* relates two of them.                                                    *)
(***************************************************************************)
EXTENDS Naturals, FiniteSets

CONSTANTS
    MaxToday,       \* bound: days
    KeepDays,       \* capRetentionDays, slaRetentionDays, heartbeatRetentionDays
    MaxLoad,        \* loads are 1 .. MaxLoad
    MinDays         \* capForecastMinDays

ASSUME MeasureAssumption == MaxToday \in Nat \ {0} /\ KeepDays \in Nat

Days == 1 .. MaxToday
Metrics == {"rx", "tx"}
NoCapDay == [samples |-> 0, max |-> [k \in Metrics |-> 0]]
NoSlaDay == [samples |-> 0, ok |-> 0]

VARIABLES
    today,
    capAcc, capDay, capRows, capTable,      \* capStore and capacity_series
    caps, capsSaved, eta,
    slaAcc, slaDay, slaRows, slaTable,      \* slaStore and sla_history
    slaTarget, probe,       \* the target is defined; what the node reports of it
    hbDays, hbSaved,        \* heartbeatStore
    taken,                  \* history: samples taken each day, by store
    cut                     \* history: days a restart or a lost save cut short

capVars == <<capAcc, capDay, capRows, capTable, caps, capsSaved, eta>>
slaVars == <<slaAcc, slaDay, slaRows, slaTable, slaTarget, probe>>
hbVars == <<hbDays, hbSaved>>
measureVars == <<today, capVars, slaVars, hbVars, taken, cut>>
Stores == {"cap", "sla", "hb"}

MeasureTypeOK ==
    /\ today \in Days /\ capDay \in Days /\ slaDay \in Days
    /\ \A d \in Days : capRows[d].samples \in Nat /\ slaRows[d].ok <= slaRows[d].samples
    /\ eta \in {"none", "reached", "coming"} /\ caps \in 0 .. MaxLoad
    /\ taken \in [Stores -> [Days -> Nat]] /\ cut \subseteq Stores \X Days

MeasureInit ==
    /\ today = 1 /\ capDay = 1 /\ slaDay = 1
    /\ capAcc = NoCapDay /\ slaAcc = NoSlaDay
    /\ capRows = [d \in Days |-> NoCapDay] /\ capTable = capRows
    /\ slaRows = [d \in Days |-> NoSlaDay] /\ slaTable = slaRows
    /\ caps = 0 /\ capsSaved = 0 /\ eta = "none"
    /\ slaTarget = TRUE /\ probe = "none"
    /\ hbDays = [d \in Days |-> [up |-> 0, down |-> 0]] /\ hbSaved = hbDays
    /\ taken = [k \in Stores |-> [d \in Days |-> 0]] /\ cut = {}

nextDay == today < MaxToday /\ today' = today + 1 /\ UNCHANGED <<capVars, slaVars, hbVars, taken, cut>>

Recent(d) == d + KeepDays >= today
Took(k) == taken' = [taken EXCEPT ![k][today] = @ + 1]

------------------------------------------------------------------------------
(* Capacity.  A day's row takes the place of the one there was.            *)
persistRow(d, row) == capTable' \in {capTable, [capTable EXCEPT ![d] = row]}

capWith(a, load) ==
    [samples |-> a.samples + 1,
     max |-> [k \in Metrics |-> IF load[k] > a.max[k] THEN load[k] ELSE a.max[k]]]

pruneCap(rows) == [d \in Days |-> IF Recent(d) THEN rows[d] ELSE NoCapDay]

(* flushDayLocked, where there are samples.                                *)
capFlushed == IF capAcc.samples = 0 THEN capRows ELSE [capRows EXCEPT ![capDay] = capAcc]

flushDayCap ==
    IF capAcc.samples = 0 THEN UNCHANGED capTable ELSE persistRow(capDay, capAcc)

flushTodayCap ==
    /\ capRows' = capFlushed /\ flushDayCap
    /\ UNCHANGED <<today, capAcc, capDay, caps, capsSaved, eta, slaVars, hbVars, taken, cut>>

(* A mutant: the first sample of a day forgets the day before. *)
MutNoFinalFlush(load) ==
    /\ IF today # capDay
       THEN /\ capRows' = pruneCap(capRows) /\ capDay' = today
            /\ capAcc' = capWith(NoCapDay, load) /\ UNCHANGED capTable
       ELSE capAcc' = capWith(capAcc, load) /\ UNCHANGED <<capRows, capDay, capTable>>
    /\ Took("cap")
    /\ UNCHANGED <<today, caps, capsSaved, eta, slaVars, hbVars, cut>>

(* The first sample of a day finishes the day before.                      *)
sampleCap(load) ==
    /\ IF today # capDay
       THEN /\ capRows' = pruneCap(capFlushed) /\ flushDayCap /\ capDay' = today
            /\ capAcc' = capWith(NoCapDay, load)
       ELSE capAcc' = capWith(capAcc, load) /\ UNCHANGED <<capRows, capDay, capTable>>
    /\ Took("cap")
    /\ UNCHANGED <<today, caps, capsSaved, eta, slaVars, hbVars, cut>>

(* recomputeForecast: the busier direction, if it has days enough and      *)
(* grows.  Of a straight line through the peaks only its sign matters.     *)
Sampled(rows) == {d \in Days : rows[d].samples > 0}
Latest(rows) == CHOOSE d \in Sampled(rows) : \A e \in Sampled(rows) : e <= d
Busier(rows) == IF rows[Latest(rows)].max["tx"] > rows[Latest(rows)].max["rx"] THEN "tx" ELSE "rx"
trendGrows(rows, k) ==
    LET rank(d) == Cardinality({e \in Sampled(rows) : e < d})
        sum[d \in 0 .. MaxToday] == IF d = 0 THEN [x |-> 0, y |-> 0, xy |-> 0]
            ELSE IF d \notin Sampled(rows) THEN sum[d - 1]
            ELSE [x |-> sum[d - 1].x + rank(d), y |-> sum[d - 1].y + rows[d].max[k],
                  xy |-> sum[d - 1].xy + rank(d) * rows[d].max[k]]
        all == sum[MaxToday]
    IN  Cardinality(Sampled(rows)) * all.xy > all.x * all.y
Forecast(link, rows) ==
    IF link = 0 \/ Sampled(rows) = {} \/ Cardinality(Sampled(rows)) < MinDays THEN "none"
    ELSE LET k == Busier(rows)
         IN  IF ~trendGrows(rows, k) THEN "none"
             ELSE IF rows[Latest(rows)].max[k] >= link THEN "reached" ELSE "coming"

recomputeForecast ==
    /\ eta' = Forecast(caps, capRows)
    /\ UNCHANGED <<today, capAcc, capDay, capRows, capTable, caps, capsSaved, slaVars, hbVars, taken, cut>>

handleCapacitySetLink(link) ==
    /\ caps' = link /\ capsSaved' \in {link, capsSaved} /\ eta' = Forecast(link, capRows)
    /\ UNCHANGED <<today, capAcc, capDay, capRows, capTable, slaVars, hbVars, taken, cut>>

------------------------------------------------------------------------------
(* SLA.  A node reports a probe once it has a result, and goes on until it *)
(* has fetched a list without it.                                          *)
probeReports == 
    /\ probe' \in (IF slaTarget THEN {"ok", "fail"} ELSE {"none"}) \ {probe}
    /\ UNCHANGED <<today, capVars, slaAcc, slaDay, slaRows, slaTable, slaTarget, hbVars, taken, cut>>

handleSLATargetsSet ==
    /\ slaTarget' = ~slaTarget
    /\ UNCHANGED <<today, capVars, slaAcc, slaDay, slaRows, slaTable, probe, hbVars, taken, cut>>

slaFlushed == IF slaAcc.samples = 0 THEN slaRows ELSE [slaRows EXCEPT ![slaDay] = slaAcc]
flushDaySla ==
    IF slaAcc.samples = 0 THEN UNCHANGED slaTable
    ELSE slaTable' \in {slaTable, [slaTable EXCEPT ![slaDay] = slaAcc]}
pruneSla(rows) == [d \in Days |-> IF Recent(d) THEN rows[d] ELSE NoSlaDay]
slaWith(a) ==
    IF probe = "none" THEN a
    ELSE [samples |-> a.samples + 1, ok |-> IF probe = "ok" THEN a.ok + 1 ELSE a.ok]

flushTodaySla ==
    /\ slaRows' = slaFlushed /\ flushDaySla
    /\ UNCHANGED <<today, capVars, slaAcc, slaDay, slaTarget, probe, hbVars, taken, cut>>

sampleSla ==
    /\ IF today # slaDay
       THEN /\ slaRows' = pruneSla(slaFlushed) /\ flushDaySla /\ slaDay' = today
            /\ slaAcc' = slaWith(NoSlaDay)
       ELSE slaAcc' = slaWith(slaAcc) /\ UNCHANGED <<slaRows, slaDay, slaTable>>
    /\ IF probe = "none" THEN UNCHANGED taken ELSE Took("sla")
    /\ UNCHANGED <<today, capVars, slaTarget, probe, hbVars, cut>>

------------------------------------------------------------------------------
(* Heartbeats.                                                             *)
record(up) ==
    /\ hbDays' = [d \in Days |->
         IF d = today THEN (IF up THEN [hbDays[d] EXCEPT !.up = @ + 1] ELSE [hbDays[d] EXCEPT !.down = @ + 1])
         ELSE IF Recent(d) THEN hbDays[d] ELSE [up |-> 0, down |-> 0]]
    /\ Took("hb")
    /\ UNCHANGED <<today, capVars, slaVars, hbSaved, cut>>

persistHeartbeats ==
    /\ hbSaved' = hbDays
    /\ UNCHANGED <<today, capVars, slaVars, hbDays, taken, cut>>

------------------------------------------------------------------------------
(* ncn-api stops, having flushed each store (a save may fail) or not, and  *)
(* starts from the tables, or without the rows if the database does not    *)
(* answer (their file is not written while there is a database).           *)
MeasureRestart ==
    /\ capTable' \in {capTable, [capTable EXCEPT ![capDay] = capFlushed[capDay]]}
    /\ slaTable' \in {slaTable, [slaTable EXCEPT ![slaDay] = slaFlushed[slaDay]]}
    /\ hbSaved' \in {hbSaved, hbDays}
    /\ \/ capRows' = pruneCap(capTable') /\ slaRows' = pruneSla(slaTable')
       \/ capRows' = [d \in Days |-> NoCapDay] /\ slaRows' = [d \in Days |-> NoSlaDay]
    /\ capAcc' = NoCapDay /\ capDay' = today /\ slaAcc' = NoSlaDay /\ slaDay' = today
    /\ caps' = capsSaved /\ eta' = Forecast(capsSaved, capRows')
    /\ hbDays' = hbSaved'
    /\ cut' = cut \cup {<<"cap", d>> : d \in {d \in Days : d = today \/ capRows'[d] # capFlushed[d]}}
                  \cup {<<"sla", d>> : d \in {d \in Days : d = today \/ slaRows'[d] # slaFlushed[d]}}
                  \cup {<<"hb", d>> : d \in {d \in Days : hbDays'[d] # hbDays[d]}}
    /\ UNCHANGED <<today, capsSaved, slaTarget, probe, taken>>

MeasureSamples ==
    \/ \E load \in [Metrics -> 1 .. MaxLoad] : sampleCap(load)
    \/ sampleSla \/ \E up \in BOOLEAN : record(up)
    \/ \E link \in 0 .. MaxLoad : handleCapacitySetLink(link)
    \/ handleSLATargetsSet
MeasureWork ==
    \/ nextDay \/ probeReports
    \/ flushTodayCap \/ flushTodaySla \/ persistHeartbeats \/ recomputeForecast

------------------------------------------------------------------------------
(* The row of a finished day holds every sample taken that day, not more   *)
(* and not fewer, however flushes, the change of day and the pruning of    *)
(* old days fall: unless a restart cut the day short.  Heartbeats hold     *)
(* them at any time.                                                       *)
FinishedDaysAreWhole ==
    \A d \in Days : Recent(d) =>
        /\ <<"cap", d>> \notin cut /\ d < capDay => capRows[d].samples = taken["cap"][d]
        /\ <<"sla", d>> \notin cut /\ d < slaDay => slaRows[d].samples = taken["sla"][d]
        /\ <<"hb", d>> \notin cut => hbDays[d].up + hbDays[d].down = taken["hb"][d]

==============================================================================
