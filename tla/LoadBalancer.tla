---------------------------- MODULE LoadBalancer ----------------------------
(***************************************************************************)
(* The ncn-lb controller (core-console/lb/main.go): a ticker sweeps every  *)
(* configured origin, keeps a two-sided threshold on its health, and fails *)
(* over once, from the lowest priority number to the next one.             *)
(*                                                                         *)
(* A whole sweep runs under controller.mu and nothing else writes the      *)
(* controller, so a sweep is one step.  The probe counters are compared    *)
(* with their thresholds only, so they saturate at them.                   *)
(***************************************************************************)
EXTENDS Integers, Sequences

CONSTANTS
  Origin,       \* the names an operator can give to origins
  Priority,     \* origin.Priority, lower is preferred
  HasAlt,       \* the origins with an AltURL
  ConfigFile,   \* the config.json contents the process may be started with
  NoOrigin      \* controller.active before the first sweep

RawConfig == [origins: SUBSET Origin, mode: {"", "observe", "armed"},
              unhealthy: Int, healthy: Int, runnable: BOOLEAN]

ASSUME OriginAssumption ==
  /\ Priority \in [Origin -> Int]
  /\ HasAlt \subseteq Origin
  /\ ConfigFile \subseteq RawConfig
  /\ NoOrigin \notin Origin

Config == [origins: SUBSET Origin, mode: {"observe", "armed"},
           unhealthy: Nat \ {0}, healthy: Nat \ {0}]

OriginState == [healthy: BOOLEAN, oks: Nat, fails: Nat]

VARIABLES
  cfg,        \* the effective configuration
  states,     \* controller.states
  active,     \* controller.active
  failing,    \* controller.failing, the failover latch
  launched,   \* the failover scripts started, <<from, to>> in order
  missed,     \* history: consecutive sweeps in which no path answered
  everUp      \* history: the origins that have been healthy

vars == <<cfg, states, active, failing, launched, missed, everUp>>

(***************************************************************************)
(* loadConfig: an unset field takes its default; armed mode without a      *)
(* runnable script is downgraded to observe.                               *)
(***************************************************************************)
Positive(n, default) == IF n <= 0 THEN default ELSE n

loadConfig(f) ==
  [origins   |-> f.origins,
   mode      |-> IF f.mode = "armed" /\ f.runnable THEN "armed" ELSE "observe",
   unhealthy |-> Positive(f.unhealthy, 3),
   healthy   |-> Positive(f.healthy, 2)]

Fresh == [healthy |-> FALSE, oks |-> 0, fails |-> 0]

newController ==
  /\ states = [o \in cfg.origins |-> Fresh]
  /\ active = NoOrigin
  /\ failing = FALSE

Init ==
  /\ \E f \in ConfigFile : cfg = loadConfig(f)
  /\ newController
  /\ launched = <<>>
  /\ missed = [o \in cfg.origins |-> 0]
  /\ everUp = {}

-----------------------------------------------------------------------------
(* probe: the origin answers on its URL or, when it has one, its AltURL.   *)
MutProbeUrlOnly(o, paths) == "url" \in paths
probe(o, paths) == "url" \in paths \/ (o \in HasAlt /\ "alt" \in paths)

UpTo(n, cap) == IF n < cap THEN n ELSE cap

MutThresholdOffByOne(st, ok) ==
  IF ok
  THEN [healthy |-> st.healthy \/ st.oks + 1 >= cfg.healthy,
        oks |-> UpTo(st.oks + 1, cfg.healthy), fails |-> 0]
  ELSE [healthy |-> st.healthy /\ UpTo(st.fails + 1, cfg.unhealthy) <= cfg.unhealthy,
        oks |-> 0, fails |-> UpTo(st.fails + 1, cfg.unhealthy)]

observed(st, ok) ==
  LET oks   == UpTo(st.oks + 1, cfg.healthy)
      fails == UpTo(st.fails + 1, cfg.unhealthy)
  IN IF ok
     THEN [healthy |-> st.healthy \/ oks >= cfg.healthy, oks |-> oks, fails |-> 0]
     ELSE [healthy |-> st.healthy /\ fails < cfg.unhealthy, oks |-> 0, fails |-> fails]

(* byPriorityLocked sorts the keys of a map: ties come out in any order.   *)
Preferred(S) == {o \in S : \A p \in S : Priority[o] <= Priority[p]}

-----------------------------------------------------------------------------
(* reconcileLocked, one disjunct per exit; p is prio[0].                   *)
NoOrigins ==
  /\ cfg.origins = {}
  /\ UNCHANGED <<active, failing, launched>>

AdoptPrimary(p) ==
  /\ active = NoOrigin
  /\ active' = p
  /\ UNCHANGED <<failing, launched>>

StayLatched ==
  /\ active # NoOrigin
  /\ failing
  /\ UNCHANGED <<active, failing, launched>>

ServePrimary(p) ==
  /\ active # NoOrigin
  /\ ~failing
  /\ states'[p].healthy
  /\ active' = p
  /\ UNCHANGED <<failing, launched>>

PrimaryDown(p) == active # NoOrigin /\ ~failing /\ ~states'[p].healthy

NoStandby(p) ==
  /\ PrimaryDown(p)
  /\ cfg.origins = {p}
  /\ UNCHANGED <<active, failing, launched>>

MutUnlatched(p) ==
  /\ PrimaryDown(p)
  /\ \E target \in Preferred(cfg.origins \ {p}) :
       /\ active' = target
       /\ launched' = IF cfg.mode = "armed" THEN Append(launched, <<p, target>>)
                                            ELSE launched
  /\ UNCHANGED failing

MutGatedOnStandby(p) ==
  /\ PrimaryDown(p)
  /\ \E target \in Preferred(cfg.origins \ {p}) :
       /\ states'[target].healthy
       /\ active' = target
       /\ launched' = IF cfg.mode = "armed" THEN Append(launched, <<p, target>>)
                                            ELSE launched
  /\ failing' = TRUE

FailOver(p) ==
  /\ PrimaryDown(p)
  /\ \E target \in Preferred(cfg.origins \ {p}) :
       /\ active' = target
       /\ launched' = IF cfg.mode = "armed" THEN Append(launched, <<p, target>>)
                                            ELSE launched
  /\ failing' = TRUE

reconcileLocked ==
  \/ NoOrigins
  \/ \E p \in Preferred(cfg.origins) :
       \/ AdoptPrimary(p)
       \/ StayLatched
       \/ ServePrimary(p)
       \/ NoStandby(p)
       \/ FailOver(p)

(* sweep: every origin is probed, then the active origin is reconsidered.  *)
(* "answered" says which of an origin's paths replied 2xx/3xx in time.     *)
Sweep(answered) ==
  /\ states' = [o \in cfg.origins |-> observed(states[o], probe(o, answered[o]))]
  /\ reconcileLocked
  /\ missed' = [o \in cfg.origins |->
                  IF answered[o] \cap ({"url"} \cup IF o \in HasAlt THEN {"alt"} ELSE {}) = {}
                  THEN UpTo(missed[o] + 1, cfg.unhealthy) ELSE 0]
  /\ everUp' = everUp \cup {o \in cfg.origins : states'[o].healthy}
  /\ UNCHANGED cfg

Next == \E answered \in [cfg.origins -> SUBSET {"url", "alt"}] : Sweep(answered)

Spec == Init /\ [][Next]_vars

(* The ticker never stops: a sweep always follows.                         *)
FairSpec == Spec /\ WF_vars(Next)

-----------------------------------------------------------------------------
TypeOK ==
  /\ cfg \in Config
  /\ states \in [cfg.origins -> OriginState]
  /\ active \in cfg.origins \cup {NoOrigin}
  /\ failing \in BOOLEAN
  /\ launched \in Seq(Origin \X Origin)
  /\ missed \in [cfg.origins -> Nat]
  /\ everUp \subseteq cfg.origins

HasStandby == \E o, p \in cfg.origins : o # p

DistinctPriorities ==
  \A o, p \in Origin : Priority[o] = Priority[p] => o = p

(* The health flag follows the probes with hysteresis: an origin shown     *)
(* healthy answered within the last UnhealthyThreshold sweeps, and one     *)
(* that was healthy and is not has since missed that many in a row (or is  *)
(* still short of HealthyThreshold answers).  Covers sweep's counters.     *)
HealthIsDebounced ==
  \A o \in cfg.origins :
    /\ states[o].fails = missed[o]
    /\ states[o].healthy => o \in everUp /\ missed[o] < cfg.unhealthy
    /\ ~states[o].healthy => states[o].oks < cfg.healthy

(* Until the latch is set, a primary that has ever been healthy still is:  *)
(* its loss and the failover are the same sweep.                           *)
LossIsNeverPending ==
  ~failing /\ HasStandby =>
    \A o \in Preferred(cfg.origins) : o \in everUp => states[o].healthy

(* A script is started only in armed mode (never when loadConfig           *)
(* downgraded), at most once in the life of the process, and the controller*)
(* shows the origin it was started for.                                    *)
LaunchMatchesLatch ==
  launched # <<>> =>
    /\ cfg.mode = "armed" /\ failing
    /\ Len(launched) = 1 /\ launched[1][2] = active

(* Latched: once failed over, no later sweep moves the active origin back  *)
(* or starts a second script, whatever the primary answers.                *)
NoFailback == [][failing => failing' /\ active' = active /\ launched' = launched]_vars

(* A failover away from a primary that had been up happens only in a sweep *)
(* that completes UnhealthyThreshold consecutive sweeps in which no        *)
(* configured path answered: one link's blip never trips it.               *)
FailoverIsWarranted ==
  [][~failing /\ failing' =>
       \E p \in Preferred(cfg.origins) :
         p # active' /\ (p \in everUp => missed'[p] >= cfg.unhealthy)]_vars

(* The comment on UnhealthyThreshold and on first-run origins: only        *)
(* "consecutive fails" take the primary down, and an origin never healthy  *)
(* stays down silently.  So no failover without that many misses.          *)
FailoverNeedsConsecutiveFails ==
  [][~failing /\ failing' =>
       \E p \in Preferred(cfg.origins) : missed'[p] >= cfg.unhealthy]_vars

(* The controller is an active-passive selector as FailoverLatch promises: *)
(* one adoption, at most one move, and no way back but a new process.      *)
Latch == INSTANCE FailoverLatch
ImplementsLatch == Latch!Spec

(* A primary that stays silent is eventually failed away from, when there  *)
(* is an origin to go to.                                                  *)
LossIsActedOn ==
  <>[](HasStandby /\ \E p \in cfg.origins :
         /\ Preferred(cfg.origins) = {p}
         /\ missed[p] > 0)  => <>failing
=============================================================================
