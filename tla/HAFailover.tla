----------------------------- MODULE HAFailover -----------------------------
(***************************************************************************)
(* The control plane's failover: the ncn-lb controller on the standby host *)
(* (LoadBalancer), the script it starts (core-console/lb/failover.sh), the *)
(* systemd units of the two hosts, the PostgreSQL pair and the DNS records *)
(* that decide which host clients reach.                                   *)
(*                                                                         *)
(* The script runs beside the sweeps, in a goroutine that kills it after   *)
(* two minutes and never starts it again; a restart of ncn-lb kills it too *)
(* and forgets the latch.  Every command of the script whose failure is    *)
(* only logged may fail.  The standby host itself does not crash.          *)
(***************************************************************************)
EXTENDS Integers, Sequences

CONSTANTS
  Origin, Priority, HasAlt, ConfigFile, NoOrigin,   \* see LoadBalancer
  Primary, Standby,   \* the two console origins
  Record,             \* the DNS records CF_RECORDS can list
  MaxCrashes,         \* bound: crashes of the primary host
  MaxRestarts         \* bound: restarts of ncn-lb

Host == {Primary, Standby}
Unit == {"pg", "api", "socket", "nginx"}

VARIABLES cfg, states, active, failing, launched, missed, everUp
lbVars == <<cfg, states, active, failing, launched, missed, everUp>>

LB == INSTANCE LoadBalancer

ASSUME PairAssumption ==
  /\ LB!OriginAssumption
  /\ Origin = Host
  /\ Primary # Standby
  /\ Priority[Primary] < Priority[Standby]
  /\ MaxCrashes \in Nat /\ MaxRestarts \in Nat

VARIABLES
  run,          \* the units running on each host; none while it is down
  replica,      \* the hosts whose PostgreSQL is in recovery
  promoting,    \* the standby's PostgreSQL has been told to promote
  pc,           \* the script's next step, or how it ended
  todo,         \* the records its DNS loop has still to patch
  dns,          \* the host each listed record points to
  fence,        \* history: what the last fence achieved
  interrupted,  \* history: some script did not get to its end
  crashes, restarts

hostVars == <<run, replica, promoting, dns>>
scriptFrame == <<lbVars, crashes, restarts>>
vars == <<lbVars, hostVars, pc, todo, fence, interrupted, crashes, restarts>>

Running == {"fence", "check", "promote", "wait", "api", "nginx", "dns"}
Ended   == {"none", "done", "failed"}

Init ==
  /\ LB!Init
  /\ \E units \in SUBSET {"pg"} :
       run = [h \in Host |-> IF h = Primary THEN Unit ELSE units]
  /\ replica = {Standby}
  /\ promoting = FALSE
  /\ pc = "none" /\ todo = {}
  /\ \E listed \in {{}, Record} : dns = [r \in listed |-> Primary]
  /\ fence = "none" /\ interrupted = FALSE
  /\ crashes = 0 /\ restarts = 0

-----------------------------------------------------------------------------
(* The controller.  A probe goes through nginx to the API and asks nothing *)
(* of the database; it can time out whatever the host's state.             *)
Answers(h) == IF {"api", "nginx"} \subseteq run[h] THEN {"url", "alt"} ELSE {}

(* A sweep, and the goroutine it starts when it launches the script.       *)
Sweep ==
  /\ \E answered \in [cfg.origins -> SUBSET {"url", "alt"}] :
       /\ \A h \in cfg.origins : answered[h] \subseteq Answers(h)
       /\ LB!Sweep(answered)
  /\ pc' = IF launched' = launched THEN pc ELSE "fence"
  /\ UNCHANGED <<hostVars, todo, fence, interrupted, crashes, restarts>>

(* ncn-lb fails or is reset: it starts afresh on the same configuration    *)
(* and its script, in the same control group, dies with it.                *)
Restart ==
  /\ restarts < MaxRestarts
  /\ restarts' = restarts + 1
  /\ cfg' = cfg
  /\ states' = [o \in cfg.origins |-> LB!Fresh] /\ active' = NoOrigin /\ failing' = FALSE
  /\ launched' = <<>> /\ missed' = [o \in cfg.origins |-> 0] /\ everUp' = {}
  /\ pc' = IF pc \in Running THEN "failed" ELSE pc
  /\ interrupted' = (interrupted \/ pc \in Running)
  /\ UNCHANGED <<hostVars, todo, fence, crashes>>

-----------------------------------------------------------------------------
(* failover.sh, one action per step.                                       *)
Goes(from, to) == pc = from /\ pc' = to

(* 1: stop the old primary's services over SSH.  The host may be out of    *)
(* reach and either command may fail; the script goes on in every case.    *)
MutFenceSkipped ==
  /\ Goes("fence", "check")
  /\ UNCHANGED <<run, fence, replica, promoting, dns, todo, interrupted, scriptFrame>>

Fence ==
  /\ Goes("fence", "check")
  /\ \E stopped \in SUBSET {"api", "pg"} :
       run' = [run EXCEPT ![Primary] = @ \ stopped]
  /\ fence' = IF run'[Primary] \cap {"api", "pg"} = {} THEN "stopped" ELSE "missed"
  /\ UNCHANGED <<replica, promoting, dns, todo, interrupted, scriptFrame>>

(* 2: go on only if the local server answers and is in recovery.           *)
Promotable == "pg" \in run[Standby] /\ Standby \in replica
MutCheckOnlyUp ==
  /\ Goes("check", IF "pg" \in run[Standby] THEN "promote" ELSE "failed")
  /\ UNCHANGED <<hostVars, todo, fence, interrupted, scriptFrame>>

Check ==
  /\ Goes("check", IF Promotable THEN "promote" ELSE "failed")
  /\ UNCHANGED <<hostVars, todo, fence, interrupted, scriptFrame>>

(* 3: issue the promotion, which the server completes on its own, and wait *)
(* for it; the command's failure is ignored and the wait is bounded.       *)
Promote ==
  /\ Goes("promote", "wait")
  /\ \E issued \in BOOLEAN :
       promoting' = (promoting \/ (issued /\ Standby \in replica))
  /\ UNCHANGED <<run, replica, dns, todo, fence, interrupted, scriptFrame>>

MutWaitUnchecked ==
  /\ Goes("wait", "api")
  /\ UNCHANGED <<hostVars, todo, fence, interrupted, scriptFrame>>

Promoted ==
  /\ Goes("wait", "api")
  /\ Standby \notin replica
  /\ UNCHANGED <<hostVars, todo, fence, interrupted, scriptFrame>>

GiveUp ==
  /\ Goes("wait", "failed")
  /\ Standby \in replica
  /\ interrupted' = TRUE
  /\ UNCHANGED <<hostVars, todo, fence, scriptFrame>>

(* 4, 4b: start the API and its socket, then nginx.                        *)
StartApi ==
  /\ Goes("api", "nginx")
  /\ \E started \in {{}, {"socket"}, {"socket", "api"}} :
       run' = [run EXCEPT ![Standby] = @ \cup started]
  /\ UNCHANGED <<replica, promoting, dns, todo, fence, interrupted, scriptFrame>>

StartNginx ==
  /\ Goes("nginx", "dns")
  /\ todo' = DOMAIN dns
  /\ \E started \in SUBSET {"nginx"} :
       run' = [run EXCEPT ![Standby] = @ \cup started]
  /\ UNCHANGED <<replica, promoting, dns, fence, interrupted, scriptFrame>>

(* 5: patch the listed records one by one.                                 *)
PatchDns ==
  /\ Goes("dns", "dns")
  /\ \E r \in todo :
       /\ todo' = todo \ {r}
       /\ dns' \in {dns, [dns EXCEPT ![r] = Standby]}
  /\ UNCHANGED <<run, replica, promoting, fence, interrupted, scriptFrame>>

(* 6: the closing health check only logs.                                  *)
Done ==
  /\ Goes("dns", "done")
  /\ todo = {}
  /\ UNCHANGED <<hostVars, todo, fence, interrupted, scriptFrame>>

ScriptStep ==
  \/ Fence \/ Check \/ Promote \/ Promoted \/ GiveUp
  \/ StartApi \/ StartNginx \/ PatchDns \/ Done

(* runFailover's context ends: the script is killed where it stands.       *)
Timeout ==
  /\ pc \in Running
  /\ pc' = "failed"
  /\ interrupted' = TRUE
  /\ UNCHANGED <<lbVars, hostVars, todo, fence, crashes, restarts>>

-----------------------------------------------------------------------------
(* The hosts.                                                              *)
PgPromotes ==
  /\ promoting
  /\ promoting' = FALSE
  /\ replica' = replica \ {Standby}
  /\ UNCHANGED <<lbVars, run, dns, pc, todo, fence, interrupted, crashes, restarts>>

(* The socket unit outlives the service: a request that nginx passes on    *)
(* starts it again.                                                        *)
SocketActivates(h) ==
  /\ {"socket", "nginx"} \subseteq run[h] /\ "api" \notin run[h]
  /\ run' = [run EXCEPT ![h] = @ \cup {"api"}]
  /\ UNCHANGED <<lbVars, replica, promoting, dns, pc, todo, fence, interrupted,
                 crashes, restarts>>

PrimaryCrashes ==
  /\ crashes < MaxCrashes
  /\ run[Primary] # {}
  /\ run' = [run EXCEPT ![Primary] = {}]
  /\ crashes' = crashes + 1
  /\ UNCHANGED <<lbVars, replica, promoting, dns, pc, todo, fence, interrupted, restarts>>

(* Every unit of the primary is enabled, so a boot starts them all.        *)
PrimaryBoots ==
  /\ run[Primary] = {}
  /\ run' = [run EXCEPT ![Primary] = Unit]
  /\ fence' = IF fence = "none" THEN "none" ELSE "undone"
  /\ UNCHANGED <<lbVars, replica, promoting, dns, pc, todo, interrupted, crashes, restarts>>

-----------------------------------------------------------------------------
Next ==
  \/ Sweep \/ Restart
  \/ ScriptStep \/ Timeout
  \/ PgPromotes \/ PrimaryCrashes \/ PrimaryBoots
  \/ \E h \in Host : SocketActivates(h)

Spec == Init /\ [][Next]_vars

(* The ticker goes on, the script's commands end, and a server told to     *)
(* promote does.                                                           *)
FairSpec == Spec /\ WF_vars(Sweep) /\ WF_vars(ScriptStep) /\ WF_vars(PgPromotes)

-----------------------------------------------------------------------------
PairTypeOK ==
  /\ run \in [Host -> SUBSET Unit]
  /\ replica \subseteq Host
  /\ promoting \in BOOLEAN
  /\ pc \in Running \cup Ended
  /\ todo \subseteq Record
  /\ dns \in UNION {[listed -> Host] : listed \in {{}, Record}}
  /\ fence \in {"none", "stopped", "missed", "undone"}
  /\ interrupted \in BOOLEAN
  /\ crashes \in 0 .. MaxCrashes /\ restarts \in 0 .. MaxRestarts

TypeOK == LB!TypeOK /\ PairTypeOK

Writers == {h \in Host : "pg" \in run[h] /\ h \notin replica}

(* The standby's API is "kept stopped until promotion" (DEPLOYMENT.md) and *)
(* no client is sent to a read-only replica: whatever is killed, retried   *)
(* or restarted, the API runs there and DNS points there only once its     *)
(* PostgreSQL has left recovery.                                           *)
ServesOnlyPromoted ==
  "api" \in run[Standby] \/ (\E r \in DOMAIN dns : dns[r] = Standby)
    => Standby \notin replica

(* The split-brain guard, as far as it goes: both databases accept writes  *)
(* only after a fence that did not stop the old primary, or after that     *)
(* host came back.  Promotion is never ahead of the fence.                 *)
SplitNeedsMissedFence ==
  Writers = Host => fence \in {"missed", "undone"}

(* The latch and the script's own life keep two scripts from running at    *)
(* once, across restarts of the controller.                                *)
OneScriptAtATime ==
  [][launched' # launched /\ launched' # <<>> => pc \in Ended]_vars

(* Promotion is the point of no return: once the standby is promoted and   *)
(* no script is past its recovery check, no later script moves a record,   *)
(* so records left behind by a killed script stay where they are.          *)
Settled == Standby \notin replica /\ pc \notin {"promote", "wait", "api", "nginx", "dns"}
NoSecondTakeover == [][Settled => Settled' /\ dns' = dns]_vars

(* A primary host that stays down is taken over: with a promotable standby *)
(* and an armed controller, if nothing interrupts a script then one ran to *)
(* its end and the standby stays writable.                                 *)
LossIsTakenOver ==
  (/\ Promotable /\ cfg.mode = "armed" /\ cfg.origins = Host
   /\ <>[](run[Primary] = {}) /\ []~interrupted)
    => <>(pc = "done") /\ <>[](Standby \in Writers)

-----------------------------------------------------------------------------
(* failover.sh's header: "only the DB must be single-writer, which the     *)
(* fence + promote ensure".                                                *)
SingleWriter == Writers # Host
=============================================================================
