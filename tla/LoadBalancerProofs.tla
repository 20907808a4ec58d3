------------------------- MODULE LoadBalancerProofs -------------------------
(***************************************************************************)
(* Proofs about the ncn-lb controller for every set of origins, every      *)
(* configuration and every threshold.                                      *)
(***************************************************************************)
EXTENDS LoadBalancer, TLAPS

(* loadConfig always yields a configuration with positive thresholds.      *)
LEMMA LoadConfigType ==
  ASSUME NEW f \in RawConfig
  PROVE  loadConfig(f) \in Config
<1>0. ASSUME NEW n \in Int, NEW d \in Nat \ {0}
      PROVE  Positive(n, d) \in Nat \ {0}
  BY DEF Positive
<1>1. f.unhealthy \in Int /\ f.healthy \in Int
  BY DEF RawConfig
<1>2. f.origins \in SUBSET Origin
  BY DEF RawConfig
<1> QED BY <1>0, <1>1, <1>2 DEF Config, loadConfig

(* The bookkeeping of one probe: the record stays a record, misses count   *)
(* up to the threshold, and the flag falls only when they reach it.        *)
LEMMA ObservedFacts ==
  ASSUME cfg \in Config, NEW st \in OriginState, NEW ok \in BOOLEAN
  PROVE  /\ observed(st, ok) \in OriginState
         /\ ok => observed(st, ok).fails = 0
         /\ ~ok => observed(st, ok).fails = UpTo(st.fails + 1, cfg.unhealthy)
         /\ st.healthy /\ ~observed(st, ok).healthy
              => observed(st, ok).fails = cfg.unhealthy
         /\ observed(st, ok).healthy /\ (st.healthy => st.fails < cfg.unhealthy)
              => observed(st, ok).fails < cfg.unhealthy
         /\ ~observed(st, ok).healthy => observed(st, ok).oks < cfg.healthy
BY DEF observed, OriginState, Config, UpTo

(* A sweep resolves to one exit of reconcileLocked.                        *)
LEMMA SweepCases ==
  ASSUME Next
  PROVE  \/ NoOrigins
         \/ \E p \in Preferred(cfg.origins) :
              AdoptPrimary(p) \/ StayLatched \/ ServePrimary(p) \/ NoStandby(p) \/ FailOver(p)
BY DEF Next, Sweep, reconcileLocked

LEMMA PreferredIn == ASSUME NEW S PROVE Preferred(S) \subseteq S
BY DEF Preferred

LEMMA TypeInit == Init => TypeOK
<1> SUFFICES ASSUME Init PROVE TypeOK
  OBVIOUS
<1>1. cfg \in Config
  BY LoadConfigType, OriginAssumption DEF Init
<1>2. Fresh \in OriginState
  BY DEF Fresh, OriginState
<1>3. launched \in Seq(Origin \X Origin)
  BY DEF Init
<1>4. states \in [cfg.origins -> OriginState]
  BY <1>2 DEF Init, newController
<1>5. missed \in [cfg.origins -> Nat]
  BY DEF Init
<1> QED BY <1>1, <1>3, <1>4, <1>5 DEF Init, TypeOK, newController

LEMMA TypeStep == TypeOK /\ [Next]_vars => TypeOK'
<1> SUFFICES ASSUME TypeOK, [Next]_vars PROVE TypeOK'
  OBVIOUS
<1>1. CASE Next
  <2>1. PICK answered \in [cfg.origins -> SUBSET {"url", "alt"}] : Sweep(answered)
    BY <1>1 DEF Next
  <2>2. cfg' = cfg /\ cfg' \in Config
    BY <2>1 DEF Sweep, TypeOK
  <2>3. states' \in [cfg'.origins -> OriginState]
    <3>1. ASSUME NEW o \in cfg.origins
          PROVE  observed(states[o], probe(o, answered[o])) \in OriginState
      BY ObservedFacts DEF TypeOK, probe
    <3> QED BY <2>1, <2>2, <3>1 DEF Sweep
  <2>4. missed' \in [cfg'.origins -> Nat]
    BY <2>1, <2>2 DEF Sweep, TypeOK, Config, UpTo
  <2>5. everUp' \subseteq cfg'.origins
    BY <2>1, <2>2 DEF Sweep, TypeOK
  <2>6. /\ active' \in cfg.origins \cup {NoOrigin}
        /\ failing' \in BOOLEAN
        /\ launched' \in Seq(Origin \X Origin)
    <3> DEFINE Typed == /\ active' \in cfg.origins \cup {NoOrigin}
                        /\ failing' \in BOOLEAN
                        /\ launched' \in Seq(Origin \X Origin)
    <3>1. cfg.origins \subseteq Origin
      BY DEF TypeOK, Config
    <3>2. NoOrigins \/ StayLatched => Typed
      BY DEF TypeOK, NoOrigins, StayLatched
    <3>3. ASSUME NEW p \in Preferred(cfg.origins), AdoptPrimary(p) \/ ServePrimary(p) \/ NoStandby(p)
          PROVE  Typed
      BY <3>3, PreferredIn DEF TypeOK, AdoptPrimary, ServePrimary, NoStandby
    <3>4. ASSUME NEW p \in Preferred(cfg.origins), FailOver(p)
          PROVE  Typed
      <4>1. PICK target \in Preferred(cfg.origins \ {p}) :
              /\ active' = target
              /\ launched' = IF cfg.mode = "armed" THEN Append(launched, <<p, target>>)
                                                   ELSE launched
        BY <3>4 DEF FailOver
      <4>2. p \in cfg.origins /\ target \in cfg.origins
        BY PreferredIn
      <4> QED BY <3>1, <3>4, <4>1, <4>2 DEF TypeOK, FailOver
    <3> QED BY <1>1, SweepCases, <3>2, <3>3, <3>4
  <2> QED BY <2>2, <2>3, <2>4, <2>5, <2>6 DEF TypeOK
<1>2. CASE UNCHANGED vars
  BY <1>2 DEF vars, TypeOK
<1> QED BY <1>1, <1>2

(* Every variable keeps its type, for any configuration file.              *)
THEOREM TypeCorrect == Spec => []TypeOK
BY TypeInit, TypeStep, PTL DEF Spec

(* The health flag is debounced, as HealthIsDebounced says.                *)
THEOREM HealthDebounced == Spec => []HealthIsDebounced
<1>1. Init => HealthIsDebounced
  BY LoadConfigType, OriginAssumption
     DEF Init, HealthIsDebounced, newController, Fresh, Config
<1>2. TypeOK /\ HealthIsDebounced /\ [Next]_vars => HealthIsDebounced'
  <2> SUFFICES ASSUME TypeOK, HealthIsDebounced, [Next]_vars PROVE HealthIsDebounced'
    OBVIOUS
  <2>1. CASE Next
    <3>1. PICK answered \in [cfg.origins -> SUBSET {"url", "alt"}] : Sweep(answered)
      BY <2>1 DEF Next
    <3> SUFFICES ASSUME NEW o \in cfg.origins
                 PROVE  /\ states'[o].fails = missed'[o]
                        /\ states'[o].healthy => o \in everUp' /\ missed'[o] < cfg.unhealthy
                        /\ ~states'[o].healthy => states'[o].oks < cfg.healthy
      BY <3>1 DEF HealthIsDebounced, Sweep
    <3> DEFINE ok == probe(o, answered[o])
    <3>2. states'[o] = observed(states[o], ok) /\ states[o] \in OriginState /\ ok \in BOOLEAN
      BY <3>1 DEF Sweep, TypeOK, probe
    <3>3. missed'[o] = IF ok THEN 0 ELSE UpTo(missed[o] + 1, cfg.unhealthy)
      <4>1. answered[o] \subseteq {"url", "alt"}
        OBVIOUS
      <4> QED BY <3>1, <4>1 DEF Sweep, probe
    <3>4. states'[o].fails = missed'[o]
      BY <3>2, <3>3, ObservedFacts DEF TypeOK, HealthIsDebounced
    <3>5. states'[o].healthy => o \in everUp'
      BY <3>1 DEF Sweep
    <3>6. states[o].healthy => states[o].fails < cfg.unhealthy
      BY DEF HealthIsDebounced
    <3> QED BY <3>2, <3>4, <3>5, <3>6, ObservedFacts DEF TypeOK
  <2>2. CASE UNCHANGED vars
    BY <2>2 DEF vars, HealthIsDebounced
  <2> QED BY <2>1, <2>2
<1> QED BY <1>1, <1>2, TypeCorrect, PTL DEF Spec

-----------------------------------------------------------------------------
(* The latch and the script agree; inductive with the type invariant.      *)
LatchInv ==
  /\ LaunchMatchesLatch
  /\ failing => active # NoOrigin

LEMMA LatchStep == TypeOK /\ LatchInv /\ [Next]_vars => LatchInv'
<1> SUFFICES ASSUME TypeOK, LatchInv, [Next]_vars PROVE LatchInv'
  OBVIOUS
<1>1. CASE Next
  <2>1. cfg' = cfg
    BY <1>1 DEF Next, Sweep
  <2>2. NoOrigins \/ StayLatched => LatchInv'
    BY <2>1 DEF LatchInv, LaunchMatchesLatch, NoOrigins, StayLatched
  <2>3. ASSUME NEW p \in Preferred(cfg.origins), AdoptPrimary(p) \/ ServePrimary(p) \/ NoStandby(p)
        PROVE  LatchInv'
    BY <2>1, <2>3
       DEF LatchInv, LaunchMatchesLatch, AdoptPrimary, ServePrimary, NoStandby, PrimaryDown
  <2>4. ASSUME NEW p \in Preferred(cfg.origins), FailOver(p)
        PROVE  LatchInv'
    <3>1. PICK target \in Preferred(cfg.origins \ {p}) :
            /\ active' = target
            /\ launched' = IF cfg.mode = "armed" THEN Append(launched, <<p, target>>)
                                                 ELSE launched
      BY <2>4 DEF FailOver
    <3>2. launched = <<>> /\ failing'
      BY <2>4 DEF FailOver, PrimaryDown, LatchInv, LaunchMatchesLatch
    <3>3. active' # NoOrigin
      BY <3>1, OriginAssumption, PreferredIn DEF TypeOK, Config
    <3>4. CASE cfg.mode = "armed"
      <4>1. launched' = << <<p, target>> >>
        BY <3>1, <3>2, <3>4
      <4>2. Len(launched') = 1 /\ launched'[1][2] = target
        BY <4>1
      <4> QED BY <2>1, <3>1, <3>2, <3>3, <3>4, <4>2 DEF LatchInv, LaunchMatchesLatch
    <3>5. CASE cfg.mode # "armed"
      BY <3>1, <3>2, <3>3, <3>5 DEF LatchInv, LaunchMatchesLatch
    <3> QED BY <3>4, <3>5
  <2> QED BY <1>1, SweepCases, <2>2, <2>3, <2>4
<1>2. CASE UNCHANGED vars
  BY <1>2 DEF vars, LatchInv, LaunchMatchesLatch
<1> QED BY <1>1, <1>2

LEMMA LatchInvariant == Spec => [](TypeOK /\ LatchInv)
<1>1. Init => LatchInv
  BY DEF Init, newController, LatchInv, LaunchMatchesLatch
<1> QED BY <1>1, LatchStep, TypeCorrect, PTL DEF Spec

(* A script runs at most once per process, only when armed, for the origin *)
(* that is shown active.                                                   *)
THEOREM LaunchedOnce == Spec => []LaunchMatchesLatch
<1>1. LatchInv => LaunchMatchesLatch
  BY DEF LatchInv
<1> QED BY <1>1, LatchInvariant, PTL

(* No sweep fails back or launches again once the latch is set.            *)
THEOREM NeverFailsBack == Spec => NoFailback
<1>1. TypeOK /\ LatchInv /\ [Next]_vars
        => [failing => failing' /\ active' = active /\ launched' = launched]_vars
  <2> SUFFICES ASSUME LatchInv, Next, failing
               PROVE  failing' /\ active' = active /\ launched' = launched
    OBVIOUS
  <2> QED BY SweepCases DEF LatchInv, NoOrigins, AdoptPrimary, StayLatched, ServePrimary,
                            NoStandby, FailOver, PrimaryDown
<1> QED BY <1>1, LatchInvariant, PTL DEF Spec, NoFailback

-----------------------------------------------------------------------------
(* With distinct priorities the primary is one origin; active stays on it  *)
(* until the failover, and it is healthy once it has ever been.            *)
PrimaryInv ==
  /\ ~failing => active \in Preferred(cfg.origins) \cup {NoOrigin}
  /\ active = NoOrigin => everUp = {}
  /\ LossIsNeverPending

LEMMA OnePreferred ==
  ASSUME DistinctPriorities, NEW S \in SUBSET Origin,
         NEW o \in Preferred(S), NEW p \in Preferred(S)
  PROVE  o = p
<1>1. o \in Origin /\ p \in Origin /\ Priority[o] \in Int /\ Priority[p] \in Int
  BY PreferredIn, OriginAssumption
<1>2. Priority[o] <= Priority[p] /\ Priority[p] <= Priority[o]
  BY DEF Preferred
<1> QED BY <1>1, <1>2 DEF DistinctPriorities

LEMMA PrimaryStep ==
  ASSUME DistinctPriorities, TypeOK, LatchInv, PrimaryInv, [Next]_vars
  PROVE  PrimaryInv'
<1>1. CASE Next
  <2>1. PICK answered \in [cfg.origins -> SUBSET {"url", "alt"}] : Sweep(answered)
    BY <1>1 DEF Next
  <2>2. cfg' = cfg /\ cfg.origins \in SUBSET Origin
    BY <2>1 DEF Sweep, TypeOK, Config
  <2>3. everUp' = everUp \cup {o \in cfg.origins : states'[o].healthy}
    BY <2>1 DEF Sweep
  <2>5. CASE NoOrigins
    BY <2>2, <2>3, <2>5, PreferredIn
       DEF NoOrigins, PrimaryInv, LossIsNeverPending, HasStandby, Preferred
  <2>6. ASSUME NEW p \in Preferred(cfg.origins), AdoptPrimary(p)
        PROVE  PrimaryInv'
    <3>1. p \in cfg.origins /\ active' # NoOrigin
      BY <2>2, <2>6, PreferredIn, OriginAssumption DEF AdoptPrimary
    <3>2. everUp' = {o \in cfg.origins : states'[o].healthy}
      BY <2>3, <2>6 DEF AdoptPrimary, PrimaryInv
    <3> QED BY <2>2, <2>6, <3>1, <3>2
            DEF AdoptPrimary, PrimaryInv, LossIsNeverPending, HasStandby, Preferred
  <2>7. ASSUME StayLatched
        PROVE  PrimaryInv'
    BY <2>2, <2>7 DEF StayLatched, PrimaryInv, LossIsNeverPending
  <2>8. ASSUME NEW p \in Preferred(cfg.origins), ServePrimary(p)
        PROVE  PrimaryInv'
    <3>1. p \in cfg.origins /\ active' # NoOrigin
      BY <2>2, <2>8, PreferredIn, OriginAssumption DEF ServePrimary
    <3>2. Preferred(cfg.origins)' = Preferred(cfg.origins)
      BY <2>2 DEF Preferred
    <3>3. \A o \in Preferred(cfg.origins) : o = p
      BY <2>2, OnePreferred
    <3> QED BY <2>2, <2>8, <3>1, <3>2, <3>3 DEF ServePrimary, PrimaryInv, LossIsNeverPending
  <2>9. ASSUME NEW p \in Preferred(cfg.origins), NoStandby(p)
        PROVE  PrimaryInv'
    <3>1. ~HasStandby'
      BY <2>2, <2>9 DEF NoStandby, HasStandby
    <3> QED BY <2>2, <2>9, <3>1
            DEF NoStandby, PrimaryDown, PrimaryInv, LossIsNeverPending, Preferred
  <2>10. ASSUME NEW p \in Preferred(cfg.origins), FailOver(p)
         PROVE  PrimaryInv'
    <3>1. active' # NoOrigin
      BY <2>2, <2>10, PreferredIn, OriginAssumption DEF FailOver
    <3> QED BY <2>10, <3>1 DEF FailOver, PrimaryInv, LossIsNeverPending
  <2> QED BY <1>1, SweepCases, <2>5, <2>6, <2>7, <2>8, <2>9, <2>10
<1>2. CASE UNCHANGED vars
  BY <1>2 DEF vars, PrimaryInv, LossIsNeverPending, HasStandby, Preferred
<1> QED BY <1>1, <1>2

LEMMA PrimaryInvariant ==
  ASSUME DistinctPriorities
  PROVE  Spec => [](TypeOK /\ LatchInv /\ PrimaryInv)
<1>1. Init => PrimaryInv
  BY DEF Init, newController, PrimaryInv, LossIsNeverPending
<1>2. TypeOK /\ LatchInv /\ PrimaryInv /\ [Next]_vars => PrimaryInv'
  BY PrimaryStep
<1> QED BY <1>1, <1>2, LatchInvariant, PTL DEF Spec

(* Until the latch is set a primary that was ever healthy is healthy.      *)
THEOREM LossNeverPending ==
  ASSUME DistinctPriorities PROVE Spec => []LossIsNeverPending
<1>1. PrimaryInv => LossIsNeverPending
  BY DEF PrimaryInv
<1> QED BY <1>1, PrimaryInvariant, PTL

(* A failover away from a primary that was up takes the full threshold of  *)
(* consecutive sweeps in which no path answered.                           *)
THEOREM FailoverWarranted ==
  ASSUME DistinctPriorities PROVE Spec => FailoverIsWarranted
<1>1. TypeOK /\ HealthIsDebounced /\ PrimaryInv /\ HealthIsDebounced' /\ [Next]_vars
        => [~failing /\ failing' =>
              \E p \in Preferred(cfg.origins) :
                p # active' /\ (p \in everUp => missed'[p] >= cfg.unhealthy)]_vars
  <2> SUFFICES ASSUME TypeOK, HealthIsDebounced, PrimaryInv, HealthIsDebounced', Next,
                      ~failing, failing'
               PROVE  \E p \in Preferred(cfg.origins) :
                        p # active' /\ (p \in everUp => missed'[p] >= cfg.unhealthy)
    OBVIOUS
  <2>1. PICK p \in Preferred(cfg.origins) : FailOver(p)
    BY SweepCases DEF NoOrigins, AdoptPrimary, StayLatched, ServePrimary, NoStandby
  <2>2. PICK answered \in [cfg.origins -> SUBSET {"url", "alt"}] : Sweep(answered)
    BY DEF Next
  <2>3. p \in cfg.origins /\ active' \in cfg.origins /\ p # active'
    BY <2>1, PreferredIn DEF FailOver
  <2>4. ASSUME p \in everUp
        PROVE  missed'[p] >= cfg.unhealthy
    <3>1. states[p].healthy
      BY <2>1, <2>3, <2>4 DEF PrimaryInv, LossIsNeverPending, HasStandby
    <3>2. ~states'[p].healthy
      BY <2>1 DEF FailOver, PrimaryDown
    <3>3. states'[p] = observed(states[p], probe(p, answered[p]))
      BY <2>2, <2>3 DEF Sweep
    <3>4. states[p] \in OriginState /\ probe(p, answered[p]) \in BOOLEAN
      BY <2>3 DEF TypeOK, probe
    <3>5. states'[p].fails = cfg.unhealthy
      BY <3>1, <3>2, <3>3, <3>4, ObservedFacts DEF TypeOK
    <3>6. states'[p].fails = missed'[p]
      BY <2>2, <2>3 DEF Sweep, HealthIsDebounced
    <3>7. cfg.unhealthy \in Nat
      BY DEF TypeOK, Config
    <3> QED BY <3>5, <3>6, <3>7
  <2> QED BY <2>3, <2>4
<1> QED BY <1>1, PrimaryInvariant, HealthDebounced, PTL DEF Spec, FailoverIsWarranted

(* The controller implements the abstract latch.                           *)
THEOREM RefinesLatch ==
  ASSUME DistinctPriorities PROVE Spec => ImplementsLatch
<1>1. Init => Latch!Init
  BY DEF Init, newController, Latch!Init
<1>2. TypeOK /\ LatchInv /\ PrimaryInv /\ [Next]_vars
        => [Latch!Adopt \/ Latch!Move]_<<active, failing>>
  <2> SUFFICES ASSUME TypeOK, LatchInv, PrimaryInv, Next
               PROVE  Latch!Adopt \/ Latch!Move \/ UNCHANGED <<active, failing>>
    BY DEF vars
  <2>1. cfg.origins \in SUBSET Origin
    BY DEF TypeOK, Config
  <2>2. NoOrigins \/ StayLatched => UNCHANGED <<active, failing>>
    BY DEF NoOrigins, StayLatched
  <2>3. ASSUME NEW p \in Preferred(cfg.origins), AdoptPrimary(p)
        PROVE  Latch!Adopt
    BY <2>1, <2>3, PreferredIn DEF AdoptPrimary, Latch!Adopt
  <2>4. ASSUME NEW p \in Preferred(cfg.origins), ServePrimary(p)
        PROVE  UNCHANGED <<active, failing>>
    BY <2>1, <2>4, OnePreferred DEF ServePrimary, PrimaryInv
  <2>5. ASSUME NEW p \in Preferred(cfg.origins), NoStandby(p)
        PROVE  UNCHANGED <<active, failing>>
    BY <2>5 DEF NoStandby
  <2>6. ASSUME NEW p \in Preferred(cfg.origins), FailOver(p)
        PROVE  Latch!Move
    <3>1. active = p
      BY <2>1, <2>6, OnePreferred DEF FailOver, PrimaryDown, PrimaryInv
    <3>2. active' \in cfg.origins \ {p}
      BY <2>6, PreferredIn DEF FailOver
    <3>3. p \in cfg.origins
      BY PreferredIn
    <3> QED BY <2>1, <2>6, <3>1, <3>2, <3>3 DEF FailOver, PrimaryDown, Latch!Move
  <2> QED BY SweepCases, <2>2, <2>3, <2>4, <2>5, <2>6
<1> QED BY <1>1, <1>2, PrimaryInvariant, PTL DEF Spec, ImplementsLatch, Latch!Spec
=============================================================================
