-------------------------- MODULE HAFailoverProofs --------------------------
(***************************************************************************)
(* Proofs about the failover of the control plane, for every number of     *)
(* crashes, restarts and records.                                          *)
(***************************************************************************)
EXTENDS HAFailover, TLAPS

(* The hosts, the script and the records keep their types.                 *)
LEMMA PairInit == Init => PairTypeOK
<1> SUFFICES ASSUME Init PROVE PairTypeOK
  OBVIOUS
<1>1. run \in [Host -> SUBSET Unit]
  <2>1. PICK units \in SUBSET {"pg"} :
          run = [h \in Host |-> IF h = Primary THEN Unit ELSE units]
    BY DEF Init
  <2> QED BY <2>1 DEF Unit
<1>2. PICK listed \in {{}, Record} : dns = [r \in listed |-> Primary]
  BY DEF Init
<1>3. dns \in [listed -> Host]
  BY <1>2 DEF Host
<1>4. dns \in UNION {[l -> Host] : l \in {{}, Record}}
  BY <1>3
<1>5. crashes \in 0 .. MaxCrashes /\ restarts \in 0 .. MaxRestarts
  BY PairAssumption DEF Init
<1> QED BY <1>1, <1>4, <1>5 DEF Init, PairTypeOK, Host, Ended

LEMMA PairStep == PairTypeOK /\ [Next]_vars => PairTypeOK'
<1> SUFFICES ASSUME PairTypeOK, [Next]_vars PROVE PairTypeOK'
  OBVIOUS
<1> USE PairAssumption DEF PairTypeOK, Host, Running, Ended
<1>1. CASE Sweep
  BY <1>1 DEF Sweep, hostVars
<1>2. CASE Restart
  BY <1>2 DEF Restart, hostVars
<1>3. CASE Timeout
  BY <1>3 DEF Timeout, hostVars
<1>4. CASE ScriptStep
  <2> USE DEF hostVars, scriptFrame, Goes
  <2>1. CASE Fence
    BY <2>1 DEF Fence
  <2>2. CASE Check \/ Promoted \/ GiveUp \/ Done
    BY <2>2 DEF Check, Promoted, GiveUp, Done
  <2>3. CASE Promote
    BY <2>3 DEF Promote
  <2>4. CASE StartApi
    BY <2>4 DEF StartApi, Unit
  <2>5. CASE StartNginx
    <3>1. DOMAIN dns \subseteq Record
      OBVIOUS
    <3>2. run' \in [Host -> SUBSET Unit]
      BY <2>5 DEF StartNginx, Unit
    <3> QED BY <2>5, <3>1, <3>2 DEF StartNginx
  <2>6. CASE PatchDns
    BY <2>6 DEF PatchDns
  <2> QED BY <1>4, <2>1, <2>2, <2>3, <2>4, <2>5, <2>6 DEF ScriptStep
<1>5. CASE PgPromotes
  BY <1>5 DEF PgPromotes
<1>6. CASE PrimaryCrashes
  BY <1>6 DEF PrimaryCrashes
<1>7. CASE PrimaryBoots
  BY <1>7 DEF PrimaryBoots
<1>8. ASSUME NEW h \in Host, SocketActivates(h) PROVE PairTypeOK'
  BY <1>8 DEF SocketActivates, Unit
<1>9. CASE UNCHANGED vars
  BY <1>9 DEF vars, hostVars
<1> QED BY <1>1, <1>2, <1>3, <1>4, <1>5, <1>6, <1>7, <1>8, <1>9 DEF Next

-----------------------------------------------------------------------------
(* No service of the standby, and no record, is ahead of its promotion,    *)
(* because the script waits for it before it touches either.               *)
PromotedFirst ==
  /\ pc \in {"api", "nginx", "dns"} => Standby \notin replica
  /\ run[Standby] \cap {"api", "socket"} # {} => Standby \notin replica
  /\ \A r \in DOMAIN dns : dns[r] = Standby => Standby \notin replica

LEMMA PromotedFirstStep ==
  PairTypeOK /\ PromotedFirst /\ [Next]_vars => PromotedFirst'
<1> SUFFICES ASSUME PairTypeOK, PromotedFirst, [Next]_vars PROVE PromotedFirst'
  OBVIOUS
<1>0. /\ run \in [Host -> SUBSET Unit] /\ Primary \in Host /\ Standby \in Host
      /\ Primary # Standby
  BY PairAssumption DEF PairTypeOK, Host
<1> USE DEF PromotedFirst, hostVars
<1>1. CASE Sweep
  BY <1>1 DEF Sweep
<1>2. CASE Restart
  BY <1>2 DEF Restart
<1>3. CASE Timeout
  BY <1>3 DEF Timeout
<1>4. CASE ScriptStep
  <2>1. CASE Fence
    BY <1>0, <2>1 DEF Fence, Goes
  <2>2. CASE Check \/ Promote \/ Promoted \/ GiveUp \/ Done
    BY <2>2 DEF Check, Promote, Promoted, GiveUp, Done, Goes
  <2>3. CASE StartApi \/ StartNginx
    BY <1>0, <2>3 DEF StartApi, StartNginx, Goes
  <2>4. CASE PatchDns
    BY <2>4 DEF PatchDns, Goes
  <2> QED BY <1>4, <2>1, <2>2, <2>3, <2>4 DEF ScriptStep
<1>5. CASE PgPromotes
  BY <1>5 DEF PgPromotes
<1>6. CASE PrimaryCrashes \/ PrimaryBoots
  BY <1>0, <1>6 DEF PrimaryCrashes, PrimaryBoots
<1>7. ASSUME NEW h \in Host, SocketActivates(h) PROVE PromotedFirst'
  BY <1>0, <1>7 DEF SocketActivates
<1>8. CASE UNCHANGED vars
  BY <1>8 DEF vars
<1> QED BY <1>1, <1>2, <1>3, <1>4, <1>5, <1>6, <1>7, <1>8 DEF Next

LEMMA PairTyped == Spec => []PairTypeOK
BY PairInit, PairStep, PTL DEF Spec

(* The standby's API runs, and a record points there, only once its        *)
(* PostgreSQL has left recovery: ServesOnlyPromoted.                       *)
THEOREM PromotedBeforeServing == Spec => []ServesOnlyPromoted
<1>1. Init => PromotedFirst
  BY PairAssumption DEF Init, PromotedFirst, Host
<1>2. PromotedFirst => ServesOnlyPromoted
  BY DEF PromotedFirst, ServesOnlyPromoted
<1> QED BY <1>1, <1>2, PromotedFirstStep, PairTyped, PTL DEF Spec

-----------------------------------------------------------------------------
(* Every promotion has a fence behind it, and a fence that is said to have *)
(* stopped the old primary's database has.                                 *)
FencedFirst ==
  /\ pc \in Running \ {"fence"} => fence # "none"
  /\ promoting \/ Standby \notin replica => fence # "none"
  /\ fence = "stopped" => "pg" \notin run[Primary]

LEMMA FencedFirstStep ==
  PairTypeOK /\ FencedFirst /\ [Next]_vars => FencedFirst'
<1> SUFFICES ASSUME PairTypeOK, FencedFirst, [Next]_vars PROVE FencedFirst'
  OBVIOUS
<1>0. /\ run \in [Host -> SUBSET Unit] /\ Primary \in Host /\ Standby \in Host
      /\ Primary # Standby
  BY PairAssumption DEF PairTypeOK, Host
<1> USE DEF FencedFirst, hostVars, Running
<1>1. CASE Sweep
  BY <1>1 DEF Sweep
<1>2. CASE Restart
  BY <1>2 DEF Restart
<1>3. CASE Timeout
  BY <1>3 DEF Timeout
<1>4. CASE ScriptStep
  <2>1. CASE Fence
    BY <1>0, <2>1 DEF Fence, Goes
  <2>2. CASE Check \/ Promote \/ Promoted \/ GiveUp \/ Done
    BY <2>2 DEF Check, Promote, Promoted, GiveUp, Done, Goes
  <2>3. CASE StartApi \/ StartNginx
    BY <1>0, <2>3 DEF StartApi, StartNginx, Goes
  <2>4. CASE PatchDns
    BY <2>4 DEF PatchDns, Goes
  <2> QED BY <1>4, <2>1, <2>2, <2>3, <2>4 DEF ScriptStep
<1>5. CASE PgPromotes
  BY <1>5 DEF PgPromotes
<1>6. CASE PrimaryCrashes \/ PrimaryBoots
  BY <1>0, <1>6 DEF PrimaryCrashes, PrimaryBoots
<1>7. ASSUME NEW h \in Host, SocketActivates(h) PROVE FencedFirst'
  BY <1>0, <1>7 DEF SocketActivates
<1>8. CASE UNCHANGED vars
  BY <1>8 DEF vars
<1> QED BY <1>1, <1>2, <1>3, <1>4, <1>5, <1>6, <1>7, <1>8 DEF Next

(* Both databases are writable only after a fence that missed, or after    *)
(* the old primary came back: SplitNeedsMissedFence.                       *)
THEOREM NoSplitBehindAFence == Spec => []SplitNeedsMissedFence
<1>1. Init => FencedFirst
  BY DEF Init, FencedFirst, Running
<1>2. PairTypeOK /\ FencedFirst => SplitNeedsMissedFence
  BY DEF PairTypeOK, FencedFirst, SplitNeedsMissedFence, Writers, Host
<1> QED BY <1>1, <1>2, FencedFirstStep, PairTyped, PTL DEF Spec

(* Once the standby is promoted and no script is past its recovery check,  *)
(* no script started later gets past it: NoSecondTakeover.                 *)
THEOREM PointOfNoReturn == Spec => NoSecondTakeover
<1>1. [Next]_vars => [Settled => Settled' /\ dns' = dns]_vars
  <2> SUFFICES ASSUME [Next]_vars, Settled PROVE Settled' /\ dns' = dns
    OBVIOUS
  <2> USE DEF Settled, hostVars
  <2>1. CASE Sweep \/ Restart \/ Timeout
    BY <2>1 DEF Sweep, Restart, Timeout
  <2>2. CASE ScriptStep
    <3>1. CASE Fence \/ Check
      BY <3>1 DEF Fence, Check, Promotable, Goes
    <3>2. ~(Promote \/ Promoted \/ GiveUp \/ StartApi \/ StartNginx \/ PatchDns \/ Done)
      BY DEF Promote, Promoted, GiveUp, StartApi, StartNginx, PatchDns, Done, Goes
    <3> QED BY <2>2, <3>1, <3>2 DEF ScriptStep
  <2>3. CASE PgPromotes \/ PrimaryCrashes \/ PrimaryBoots
    BY <2>3 DEF PgPromotes, PrimaryCrashes, PrimaryBoots
  <2>4. ASSUME NEW h \in Host, SocketActivates(h) PROVE Settled' /\ dns' = dns
    BY <2>4 DEF SocketActivates
  <2>5. CASE UNCHANGED vars
    BY <2>5 DEF vars
  <2> QED BY <2>1, <2>2, <2>3, <2>4, <2>5 DEF Next
<1> QED BY <1>1, PTL DEF Spec, NoSecondTakeover

-----------------------------------------------------------------------------
(* A sweep keeps the controller's latch, and launches only by setting it.  *)
LEMMA SweepLatch ==
  ASSUME Sweep
  PROVE  /\ failing => failing'
         /\ launched' # launched => ~failing /\ failing'
<1>1. LB!reconcileLocked
  BY DEF Sweep, LB!Sweep
<1>2. CASE LB!NoOrigins
  BY <1>2 DEF LB!NoOrigins
<1>3. ASSUME NEW p \in LB!Preferred(cfg.origins),
             LB!AdoptPrimary(p) \/ LB!StayLatched \/ LB!ServePrimary(p) \/ LB!NoStandby(p)
      PROVE  failing' = failing /\ launched' = launched
  BY <1>3 DEF LB!AdoptPrimary, LB!StayLatched, LB!ServePrimary, LB!NoStandby
<1>4. ASSUME NEW p \in LB!Preferred(cfg.origins), LB!FailOver(p)
      PROVE  ~failing /\ failing'
  BY <1>4 DEF LB!FailOver, LB!PrimaryDown
<1> QED BY <1>1, <1>2, <1>3, <1>4 DEF LB!reconcileLocked

(* A running script belongs to a controller whose latch is set.            *)
LatchedWhileRunning == pc \in Running => failing

LEMMA LatchStep ==
  PairTypeOK /\ LatchedWhileRunning /\ [Next]_vars => LatchedWhileRunning'
<1> SUFFICES ASSUME PairTypeOK, LatchedWhileRunning, [Next]_vars
             PROVE  LatchedWhileRunning'
  OBVIOUS
<1> USE DEF LatchedWhileRunning, Running, lbVars
<1>1. CASE Sweep
  BY <1>1, SweepLatch DEF Sweep
<1>2. CASE Restart \/ Timeout
  BY <1>2 DEF Restart, Timeout
<1>3. CASE ScriptStep
  <2> USE DEF Goes, scriptFrame
  <2>1. CASE Fence \/ Check \/ Promote \/ Promoted \/ GiveUp
    BY <2>1 DEF Fence, Check, Promote, Promoted, GiveUp
  <2>2. CASE StartApi \/ StartNginx \/ PatchDns \/ Done
    BY <2>2 DEF StartApi, StartNginx, PatchDns, Done
  <2> QED BY <1>3, <2>1, <2>2 DEF ScriptStep
<1>4. CASE PgPromotes \/ PrimaryCrashes \/ PrimaryBoots
  BY <1>4 DEF PgPromotes, PrimaryCrashes, PrimaryBoots
<1>5. ASSUME NEW h \in Host, SocketActivates(h) PROVE LatchedWhileRunning'
  BY <1>5 DEF SocketActivates
<1>6. CASE UNCHANGED vars
  BY <1>6 DEF vars
<1> QED BY <1>1, <1>2, <1>3, <1>4, <1>5, <1>6 DEF Next

(* No script is started while another runs: OneScriptAtATime.              *)
THEOREM OneScript == Spec => OneScriptAtATime
<1> DEFINE Launch == launched' # launched /\ launched' # <<>>
<1>1. Init => LatchedWhileRunning
  BY DEF Init, LatchedWhileRunning, Running
<1>2. PairTypeOK /\ LatchedWhileRunning /\ [Next]_vars => [Launch => pc \in Ended]_vars
  <2> SUFFICES ASSUME PairTypeOK, LatchedWhileRunning, [Next]_vars, Launch
               PROVE  pc \in Ended
    OBVIOUS
  <2>1. CASE Sweep
    BY <2>1, SweepLatch DEF LatchedWhileRunning, PairTypeOK
  <2>2. CASE Restart
    BY <2>2 DEF Restart
  <2>3. CASE ScriptStep
    BY <2>3 DEF ScriptStep, scriptFrame, lbVars, Fence, Check, Promote, Promoted, GiveUp,
                StartApi, StartNginx, PatchDns, Done
  <2>4. CASE Timeout \/ PgPromotes \/ PrimaryCrashes \/ PrimaryBoots
    BY <2>4 DEF Timeout, PgPromotes, PrimaryCrashes, PrimaryBoots, lbVars
  <2>5. ASSUME NEW h \in Host, SocketActivates(h) PROVE FALSE
    BY <2>5 DEF SocketActivates, lbVars
  <2>6. CASE UNCHANGED vars
    BY <2>6 DEF vars, lbVars
  <2> QED BY <2>1, <2>2, <2>3, <2>4, <2>5, <2>6 DEF Next
<1> QED BY <1>1, <1>2, LatchStep, PairTyped, PTL DEF Spec, OneScriptAtATime

-----------------------------------------------------------------------------
(* The controller's own proofs, of the same variables.                     *)
LBP == INSTANCE LoadBalancerProofs

LEMMA SameOrigins == LBP!OriginAssumption
BY PairAssumption DEF LB!OriginAssumption, LBP!OriginAssumption, LB!RawConfig, LBP!RawConfig

LEMMA SameType == LB!TypeOK <=> LBP!TypeOK
BY DEF LB!TypeOK, LBP!TypeOK, LB!Config, LBP!Config, LB!OriginState, LBP!OriginState

LEMMA SameSweep ==
  ASSUME NEW answered, LB!Sweep(answered)
  PROVE  LBP!Sweep(answered)
<1>1. LB!reconcileLocked => LBP!reconcileLocked
  BY DEF LB!reconcileLocked, LB!NoOrigins, LB!AdoptPrimary, LB!StayLatched, LB!ServePrimary,
         LB!NoStandby, LB!FailOver, LB!PrimaryDown, LB!Preferred,
         LBP!reconcileLocked, LBP!NoOrigins, LBP!AdoptPrimary, LBP!StayLatched,
         LBP!ServePrimary, LBP!NoStandby, LBP!FailOver, LBP!PrimaryDown, LBP!Preferred
<1> QED BY <1>1 DEF LB!Sweep, LBP!Sweep, LB!observed, LBP!observed, LB!probe, LBP!probe,
                    LB!UpTo, LBP!UpTo

LEMMA ControllerInit == Init => LB!TypeOK
<1>1. LBP!Init => LBP!TypeOK
  BY LBP!TypeInit, SameOrigins
<1>2. LB!Init => LBP!Init
  BY DEF LB!Init, LBP!Init, LB!newController, LBP!newController, LB!Fresh, LBP!Fresh,
         LB!loadConfig, LBP!loadConfig, LB!Positive, LBP!Positive
<1> QED BY <1>1, <1>2, SameType DEF Init

(* Only a sweep and a restart touch the controller.                        *)
LEMMA StepOfController ==
  ASSUME [Next]_vars
  PROVE  Sweep \/ Restart \/ UNCHANGED lbVars
<1>1. ScriptStep => UNCHANGED lbVars
  BY DEF ScriptStep, scriptFrame, Fence, Check, Promote, Promoted, GiveUp, StartApi,
         StartNginx, PatchDns, Done
<1>2. Timeout \/ PgPromotes \/ PrimaryCrashes \/ PrimaryBoots => UNCHANGED lbVars
  BY DEF Timeout, PgPromotes, PrimaryCrashes, PrimaryBoots
<1>3. (\E h \in Host : SocketActivates(h)) => UNCHANGED lbVars
  BY DEF SocketActivates
<1>4. UNCHANGED vars => UNCHANGED lbVars
  BY DEF vars
<1> QED BY <1>1, <1>2, <1>3, <1>4 DEF Next

LEMMA ControllerStep == LB!TypeOK /\ [Next]_vars => LB!TypeOK'
<1> SUFFICES ASSUME LB!TypeOK, [Next]_vars PROVE LB!TypeOK'
  OBVIOUS
<1>1. CASE Sweep
  <2>1. PICK answered \in [cfg.origins -> SUBSET {"url", "alt"}] : LB!Sweep(answered)
    BY <1>1 DEF Sweep
  <2>2. LBP!Next
    BY <2>1, SameSweep DEF LBP!Next
  <2>3. LBP!TypeOK /\ [LBP!Next]_(LBP!vars) => LBP!TypeOK'
    BY LBP!TypeStep, SameOrigins
  <2>4. LBP!TypeOK'
    BY <2>2, <2>3, SameType
  <2> QED BY <2>4 DEF LB!TypeOK, LBP!TypeOK, LB!Config, LBP!Config, LB!OriginState,
                      LBP!OriginState
<1>2. CASE Restart
  <2>1. LB!Fresh \in LB!OriginState
    BY DEF LB!Fresh, LB!OriginState
  <2>2. cfg' = cfg /\ launched' \in Seq(Origin \X Origin)
    BY <1>2 DEF Restart
  <2> QED BY <1>2, <2>1, <2>2 DEF Restart, LB!TypeOK, LB!Config, LB!OriginState
<1>3. CASE UNCHANGED lbVars
  BY <1>3 DEF lbVars, LB!TypeOK
<1> QED BY <1>1, <1>2, <1>3, StepOfController

(* Every variable of the pair, the script and the controller keeps its     *)
(* type.                                                                   *)
THEOREM TypeCorrect == Spec => []TypeOK
<1>1. Init => TypeOK
  BY PairInit, ControllerInit DEF TypeOK
<1>2. TypeOK /\ [Next]_vars => TypeOK'
  BY PairStep, ControllerStep DEF TypeOK
<1> QED BY <1>1, <1>2, PTL DEF Spec

(* While ncn-lb is not restarted, the system is a controller's: whatever   *)
(* holds of LoadBalancer for every answer of its probes holds here.        *)
THEOREM ImplementsController == MaxRestarts = 0 => (Spec => LB!Spec)
<1> SUFFICES ASSUME MaxRestarts = 0 PROVE Spec => LB!Spec
  OBVIOUS
<1>1. Init => LB!Init
  BY DEF Init
<1>2. PairTypeOK /\ [Next]_vars => [LB!Next]_(LB!vars)
  <2> SUFFICES ASSUME PairTypeOK, [Next]_vars PROVE LB!Next \/ UNCHANGED lbVars
    BY DEF lbVars, LB!vars
  <2>1. Sweep => LB!Next
    BY DEF Sweep, LB!Next
  <2>2. ~Restart
    BY DEF Restart, PairTypeOK
  <2>3. Sweep \/ Restart \/ UNCHANGED lbVars
    BY StepOfController
  <2> QED BY <2>1, <2>2, <2>3
<1> QED BY <1>1, <1>2, PairTyped, PTL DEF Spec, LB!Spec
=============================================================================
