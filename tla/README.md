# NCN platform: TLA+ models, model checks and proofs

This directory holds TLA+ specifications of the control logic of the NCN
platform, the TLC configurations that check them on small instances, and proofs
of their main properties that `tlapm` checks for every value of the constants.
Paths below are relative to the repository; `backend/` is
`src/core-console/backend/`, `lb/` is `src/core-console/lb/` and `webmail/` is
`src/webmail/backend/`.

`PROJECT.json` indexes the project: components, runs, the source lines behind
every definition (`map`), the mutated definitions that show each property can
fail, the disagreements between code and documentation that runs exhibit
(`findings`), the hazards of the code, and the theorems.

## 1. The system

One console process (`ncn-api`) supervises a fleet of points of presence, keeps
its own state in JSON files mirrored into PostgreSQL, and talks to operators
through a web front end and Telegram. A second host holds a cold standby with a
streaming replica, watched by a small controller (`ncn-lb`). The mail service is
a process of its own, which trusts the console's sign-in.

| Part | State it keeps | Operations that change it | Interacts with |
|---|---|---|---|
| **ncn-lb controller** (`lb/main.go`) | health counters per origin, the active origin, the failover latch | one sweep every `IntervalMs`; the start of the failover script | probes both consoles over HTTP; runs the script in a goroutine |
| **Failover script and hosts** (`lb/failover.sh`, `deploy/*.service`, `*.socket`) | running units, PostgreSQL role, DNS records | fence, check, promote, wait, start API and nginx, patch DNS | SSH to the old primary, systemd, PostgreSQL, the DNS provider |
| **Alert engine** (`backend/alerts.go`) | compiled rules, active incidents, two debounce counters, cooldowns, a 200-entry history ring | 30 s tick, acknowledge, reload, evict, history flush, triage marks | reads the fleet snapshot and the rule store; Telegram; the AI triage |
| **Alert rule store** (`alertrules.go`, `alertrules_api.go`) | groups and rules; one file, one database row | create, patch, delete, toggle; then a reload of the engine | alert engine |
| **Node lifecycle and scrape** (`nodes_api.go`, `noderegistry.go`, `fleet.go`) | registry (memory, file, table); live nodes, per-node memory, status cache, agent keys | add, update, decommission, recommission, delete; a scrape of all nodes every tick | alert engine (`evictNode`), ncn-agent, mesh and drain commands |
| **Single-document stores** (`db.go` and its users: accounts, invitations, billing, incidents, ...) | one JSON document each, in a file and in a row | save (file, then row); reconciliation at boot | PostgreSQL, which fails over under them |
| **Sign-in and identities** (`auth*.go`, `oauth*.go`, `passkey.go`, `invite.go`, `recover_bootstrap.go`) | operators with their secrets, identities and devices; challenges, pending sign-ins, tickets, sessions; invitations, API tokens, recovery links | sign in by six methods, bind and unbind, change, recover, invite, approve, mint, revoke | identity providers, mail, the shell's commands |
| **Terminal and rate limits** (`term.go`, `ratelimit.go`) | one-shot tickets with a counter, shells, sliding windows | issue, claim, reserve, use, time out | sign-in, SSH to nodes |
| **DDoS rules** (`ddos.go`, `ddosApply.go`) | rules with status, expiry and target nodes; the nftables set each router really has | draft, apply, revoke, expire; a sync per node | SSH to the routers |
| **Mesh, onboarding, drift, anycast** (`meshApply.go`, `nodes_onboard.go`, `configdrift.go`, `anycast.go`) | one job per node with its steps; baselines of configurations; cached session states | apply, roll back, check, adopt, drain | SSH to several nodes |
| **Peering** (`peering_apply.go`, `peergen.go`, `peerApply.go`, `peerRefresh.go`) | applications, generations of a peer's file, where each was applied | apply for peering, decide, generate, apply, withdraw, refresh | IRR, SSH to the routers |
| **On-call, Telegram queue, replication watch** (`oncall.go`, `notify_tg.go`, `replmon.go`) | tiers, the highest tier paged per incident; a bounded send queue; a streak and an alerted flag | a minute tick, edits, enqueue, send, poll | the engine's unacknowledged alerts, PostgreSQL |
| **Hijack and RPKI watchers** (`hijack.go`, `rpki.go`) | validity of each announced prefix, the last warning, the poll interval; the session and the origins seen | a ticker and a request that refresh, edits of the interval, live announcements, reconnection | public routing data, the Telegram queue |
| **Operation failures** (`opfailures.go`, `bot_opfail.go`) | a table and a ring, a suppression map | record, triage, tell, dismiss | every component, the assistant |
| **Measurements** (`capacity.go`, `sla.go`, `heartbeat.go`, and parsers) | a day's samples in memory, rows of finished days in memory and a table | sample, flush, change of day, forecast | scrape |
| **Documents** (`wikistore.go`, `billing.go`, `incidents.go`, `ai_user_store.go`, `model_config.go`) | pages with versions; subscriptions; incidents; conversations; models | save, revert, mark paid, update, remember | PostgreSQL |
| **Agent and drills in Telegram** (`agent.go`, `bot_agent_tg.go`, `bot_drill.go`) | agent sessions with a pending call, approval cards; a running drill, bans and dead-men on the boxes | step, tap, approve; ban, stop, undo | a language model, admins, SSH |
| **Audit log** (`audit.go`) | a table, and a file when the table refuses | record, rotate, read page by page | every component |
| **Webmail** (`webmail/*.go`) | invitations, mailboxes and passwords, stashed credentials, reset links, passkeys, API keys, forwards, drafts | complete an invitation, reset, sign in, mint and revoke, forward, send; the shell's commands | dovecot's files, sieve, SMTP, the console |
| **ncn-agent** (`agent/main.go`) | nonces seen | one read-only snapshot request | scrape |
| **Front ends, CLI, MCP, scripts** | none of the platform's control state | requests | API |

### What is hard in it

* **Two clocks and one latch (ncn-lb).** Health is debounced by two counters
  with two thresholds, the decision rests on the flag, and the latch is a
  process-wide promise: at most one failover, no failback.
* **A script that may stop anywhere (failover).** Every step is a remote or
  asynchronous command; several are best effort; the script is killed after two
  minutes or with its parent; the promotion completes on its own time; the
  sweeps, the crash of the other host and systemd's socket activation interleave.
* **A mutex released between related steps.** The alert engine reads its
  snapshot before the lock, saves after it, and hears from the triage a minute
  later; the registry and the live set have a lock each; a router's table is
  generated under a lock and loaded without it; a tap is checked in the bot's
  loop and carried out by a goroutine; a recovery code, an invitation or a link
  is looked up by one step and burnt by another.
* **File, then database (all stores).** Either write may fail, the next start
  prefers the database, and the database itself may have been failed over.
* **Two processes, one file.** The shell's commands edit the files of the
  running services.
* **Intention and router state (DDoS, mesh, peering, drains, drills).** A status
  is saved and a remote command may fail, be late, or overtake another; what was
  half done must be told apart, undone, or undo itself.
* **One chance to tell (alerts, failures, pages).** Debounces, cooldowns,
  suppression windows and marks decide once whether anybody is told.

`hazards` in `PROJECT.json` lists each of these at the line where it bites, with
the properties that cover it.

### What makes each part correct

* ncn-lb: a primary that was up is left only after the configured number of
  misses on every path, once and for good; a silent primary is eventually left.
* Failover: nothing is served from a database still in recovery; two writers
  never result from a complete fence; no takeover twice; a loss is in the end
  taken over.
* Alert engine: both debounces hold whatever is edited; ring and memory agree; a
  resolved nudge never outnumbers fire cards; root causes mute their dependents;
  what is in the ring and marked clean is saved; incidents of silenced rules close;
  an escalation is put to triage again.
* Node lifecycle: requests that do not overlap leave the live set as the registry
  says; a deleted node leaves nothing behind, however late its scrape ends; a
  node that stays live gets a current status; a node that leaves has its alerts
  evicted.
* Stores: a boot loads the newest document unless saves overlapped; the engine
  evaluates the rules that are stored; finished days and saved texts are kept.
* Accounts: somebody remains who may administer them; codes, and the tickets and
  challenges the console stores, work once; no later request is let in with what was
  revoked; an invited account waits for an admin; every shell ends.
* Routers: tables follow the active rules; a refused mesh file leaves file and
  tunnels as they were; a peer's generation is recorded only where it runs; a
  drill's cut has a dead-man unless its script was cut off.
* Being told: a failure marked as told was told, a tier marked as paged was paged, a
  warning remembered was sent, an audit reader meets every event once, a write of the
  agent was approved by an admin.
* Webmail: one mailbox per invitation, no replaced password in the stash after a reset
  by the service, keys as the shell set them, mail forwarded to confirmed addresses
  only.

## 2. Modules

| Module | Role |
|---|---|
| `LoadBalancer` | the controller of `lb/main.go` |
| `FailoverLatch` | abstract: adopt one origin, move at most once, stay |
| `MCLoadBalancer`, `LoadBalancerProofs` | configurations for TLC; theorems, the refinement of `FailoverLatch` among them |
| `HAFailover` | composes `LoadBalancer` with the script, hosts, PostgreSQL pair and DNS |
| `MCHAFailover`, `HAFailoverProofs` | model values; theorems, using those of `LoadBalancerProofs` |
| `FleetView` | abstract: what the fleet shows the alert engine, and when |
| `NodeLifecycle`, `NodeLifecycleProofs` | lifecycle requests, registry, live set and scrape; theorems |
| `AlertEngine` | the engine of `alerts.go` with `reloadRules` and `evictNode`, in the environment of `FleetView` |
| `MCAlertEngine`, `AlertEngineProofs` | rule stores, ranks and inhibition pairs for TLC; theorems |
| `ConfigDoc` | one document in memory, file and row: saves, boot, reconciliation |
| `Operators` | the accounts and every handler that changes one, over `ConfigDoc` |
| `OneShot` | abstract: a ticket is honoured at most once, and not after it lapsed |
| `SignIn` | the sign-in methods, their challenges, states and tickets; implements `OneShot` |
| `Invitations` | invitations, API tokens, recovery links, over `Operators` |
| `Terminal` | tickets and shells of the browser terminal |
| `MCSignIn`, `AccountProofs` | slices of `Operators`, `SignIn`, `Invitations` and `Terminal` for TLC; theorems |
| `OpFailures` | operation failures and how they are told |
| `Mitigation` | DDoS rules and the routers' tables, telling its failures through `OpFailures` |
| `Routers` | mesh apply, drift, onboarding, anycast, over `OpFailures` |
| `RuleStore` | the alert rules' store and its reloads |
| `Peering` | applications, generations, applies, refreshes |
| `Measurements` | capacity, SLA, heartbeats |
| `Notices` | on-call pages, the Telegram queue, the replication watch |
| `Watchers` | the hijack and RPKI watchers, over `Notices` |
| `Documents` | wiki, billing, incidents, the assistant's store and models |
| `Console` | composes `Measurements`, `Documents`, `Watchers` and with it `Notices`: one process, one restart |
| `BotAgent` | the agent of the Telegram bot |
| `Drills` | the drills of the bot |
| `AuditLog` | recording and paged reading |
| `MCConsole` | slices of the modules from `OpFailures` to here, for TLC |
| `RouterProofs` | theorems on what reaches routers and boxes: `OpFailures`, `Drills`, `Mitigation`, `Routers`, `Peering` |
| `ConsoleProofs` | theorems on what the console keeps and tells: `BotAgent`, `RuleStore`, `Console`, `AuditLog` |
| `Mailboxes`, `MailSettings` | the mail service |
| `MCWebmail`, `WebmailProofs` | its slices for TLC; theorems |

Definitions named `Mut...` are plausible mistakes placed before the definition
they stand in for. No action uses them; the run of each property must fail when
the definition is replaced by its mutant (`mutants` in `PROJECT.json`).

Modules that model one process keep its source's names for their actions. Where
a step of the code ends (a lock is released, a command leaves the process, a
goroutine starts), the action ends; a task record holds what the code keeps in
local variables until the next step. History variables are marked as such where
they are declared.

### LoadBalancer

`sweep` holds `controller.mu` from the first probe to the end of
`reconcileLocked`, and nothing else writes the controller, so a sweep is one
step. `Sweep(answered)` takes which paths of which origins replied. `observed`
is the counter update of one origin; `reconcileLocked` has a disjunct for each
return of the Go function (`NoOrigins`, `AdoptPrimary`, `StayLatched`,
`ServePrimary`, `NoStandby`, `FailOver`). `loadConfig` is modelled with its
defaults and the downgrade of an armed mode without a script that can run.
`launched` records the calls of `runFailover`; `missed` and `everUp` are history
variables. The counters are only compared with their thresholds, so they
saturate there.

`Preferred` is a set: the code sorts the keys of a Go map by priority with an
unstable sort, so equal priorities come out in any order (see section 7).

### HAFailover

`LB == INSTANCE LoadBalancer` shares the controller's variables. A `Sweep` of
this module is a sweep of that one whose answers are possible for the hosts'
running units (`Answers`: nginx and the API, and nothing about the database, as
in `handleHealth`), and which starts the script when it launches one. The
script has an action for each numbered step of `failover.sh`; where the script
logs a failure and goes on, the action chooses among the outcomes: a fence that
stops both services, one of them, or neither; a promotion not issued; an API
whose socket alone comes up; nginx not started; a record not patched.
`Timeout` is the two-minute context of `runFailover`; `Restart` is systemd
restarting `ncn-lb`, which kills the script in its control group and forgets the
latch. `PgPromotes` completes the promotion at any later time. `SocketActivates`
is systemd starting `ncn-api` on a request. `PrimaryBoots` starts every enabled
unit. `fence` records what the last fence achieved, and `interrupted` that some
script was killed or gave up.

### NodeLifecycle and FleetView

A request is two steps, one under each lock: `create`, `update`, `decommission`,
`recommission`, `deleteNode` change and save the registry (`change`), then
`applyAddNode`, `applyUpdateNode` or `applyDeactivateNode` changes the live set,
and `evict` is the call of `evictNode` after the fleet's lock is released. `req`
holds each operator's request in between. `persistLocked` chooses how far the
save got: not at all (the request is refused, and memory keeps the change, as in
the code), to the file, or to the file and PostgreSQL. `refreshAll` starts the
scrape of a snapshot, `cacheStatus` ends it for one node at any later time, and
no scrape starts before the last has ended, as `wg.Wait` has it. `cache` says of
which version of the node a status is. `Restart` drops requests and scrapes
where they are; `newNodeRegistry` reads PostgreSQL if it can, else the file.

`disputed` and each request's `alone` are history variables: a node is disputed
when requests on it overlapped or a save failed, until a request that had the
node to itself makes it live or takes it out. `dbMissed` says that the file is
ahead of PostgreSQL.

`FleetView` has the two variables the engine shares with the fleet: which live
nodes have a status, and which evictions are pending. `AlertEngine` instantiates
it and takes its environment's steps from it; `NodeLifecycle` implements it
(`ShowsFleetView`, proved as `ImplementsView`). So what is shown of the engine is
shown in an environment the fleet keeps to, late scrapes and overlapping
decommissions included.

### AlertEngine

One tick is: `TickSnapshot` (fleet snapshot, no lock), `TickBegin` (lock),
one of `Arm`, `NewFire`, `Continue`, `Resolve` for each node and rule in the
loops' order, `TickEnd` (`flushFires`, unlock), `FlushCopy` and `FlushSave`
(`flushHistory`). `phase = "tick"` means that `e.mu` is held: actions that take
it are disabled and those that do not interleave. The rest: `TriageExpected`,
`TriageSend`, `TriageMark` for each goroutine (the card is sent outside the
lock and the keys are marked under it, as two steps), `Ack`, `Reload`,
`NodeLeaves` then `evictNode` (two steps, as in `applyDeactivateNode`),
`NodeScraped`, and `Restart`, each with the step of `FleetView` it is.

A rule's metric, operator and threshold are abstracted to a verdict, which only
an applicable rule can make true. Times are in seconds, advance by 30 per tick
and saturate at `LongAgo`. Debounces are computed as in the code:
`ceil(seconds / 30)` ticks, at least one, with the group's default when the rule
has none. `matched`, `unmatched`, `owed`, `carded`, `answered` and `cards` are history
variables: consecutive verdicts, fire cards less resolved nudges, the incidents
that were named in a card, the incidents and severities on which a card was sent or
the triage said EXPECTED, and the cards of the tick that just ended. `Restart` loads the
saved history or, where loading fails, an empty one that counts as clean. A card is
sent when it is given to the queue; that the queue gives up after three seconds
(`notify_tg.go:228-232`) is in `Notices` only. `Reload` is one step: the snapshot of the
store and its swap (`alertrules_api.go:77-82`) are two in `RuleStore`, where requests
overlap, and no property of the engine tells them apart.


### ConfigDoc and Operators

`ConfigDoc` is the protocol every document store has. `LockedWrite` saves file and
row under the lock, `FileOnlyWrite` the file only (`persistLocked` of passkey.go),
and `BeginPersist`, `PersistCopy`, `PersistFile`, `PersistRow` a copy taken under
the lock and written later (auth.go). `newer` says which of the two a boot finds
newer; `Reconciled` is `reconcileConfigDocs`, which may fail quietly, and `Loaded`
what the store then reads. Stores whose properties do not tell file from row
have `saved' \in {new, old}` instead: with `BootFindsFile`, a start loads the
newest document that was written, and a save that failed leaves the old one.

`Operators` instantiates it with the accounts as the document. Every handler that
changes an account is an action; `changeThenPersist` is the common shape (change
under the lock, save after it), `adminSaveOps` the shell's edit of the file beside
the running service. `loadAuthStore` is the boot with its migrations and the
approval of accounts that were never invited. `checkDeviceTrust` keeps the list
arithmetic of the code (`ShiftedInPlace`, `MatchedAt`), which is where it goes
wrong.

### SignIn, OneShot, Invitations, Terminal

A challenge, an OAuth state, a bind ticket, a redeemable sign-in, a code of the
identity provider are all a ticket: held in memory, with a kind, an owner and a
lifetime. `put` issues it, `take` consumes it under the store's lock, `gc` and
`Lapse` drop it. A callback that asks a provider is two or three steps
(`handleCallback`, `identified`, `pictured`) with the ticket consumed by the first.
`OneShot` is the promise, and it is about what the console stores. Two signed tickets
are outside it: the webmail's, since its replay cache forgets, and the intent of a
sign-in that waits for its TOTP code. `intents` has the accounts with one that is valid;
`handleLoginVerifyTOTP` leaves it there, since nothing remembers the nonce
(`IntentsAreOneShot` states what the comments say instead).

`Invitations` has the handlers that create, preview, complete, revoke and approve an
invitation, with a password or with the passkey whose challenge
`handleInvitePasskeyBegin` issued, mint, use and revoke API tokens, and use a recovery
link (`submitSeen`, `submitSet`, `record`: looked up, set, burnt). The tokens are a
document of `ConfigDoc` with file and row. Using one is two steps: `candidates` copies
the records under the lock, and `verifyAPIToken` or `verifyFails` ends the comparison
made outside it. `late` marks a copy made after the token's revocation was answered,
`misread` a boot that loaded a row older than the file because it could not mend it.
`Terminal` has both locks: tickets and their counter behind one, shells behind the
other, and the cap read across both. `watch` is the watchdog: idle limit, maximal
session.

### OpFailures, Mitigation, Routers, Peering

`recordOpFailure` stores a failure and tells it at once or starts the triage,
whose end (`triaged`) tells it, whatever the model answered. `Mitigation` calls it
where a sync fails. `handleDDoSApply`, `handleDDoSRevoke` and `expire` save the rules
and start a task, which generates and loads the table of one node after the other
(`genNftFile`, `syncNode`); `unsynced` are nodes some sync missed.

In `Routers` a configuration is the set of blocks in it. `scriptEdits` backs the
file up and edits it, `scriptRefused` restores it and removes the tunnels the
script created, `scriptEnds` reports, and the console may lose the script in
between; `handEdit` is a person. `mixed` are nodes where two hands were at the file.
Drift checks read the file in one step and compare it in a later one.

In `Peering` a generation is an object with a number, because the store hands out
pointers that requests put back minutes later: `current` says which is the peer's.

### RuleStore, Measurements, Notices, Watchers, Documents

`RuleStore`: an edit changes rules or groups and saves them; if that succeeded a
reload takes a snapshot (`snapshot`) and swaps it in (`reloadRules`), each under
its lock. A rule and a group are the number of their last edit. `unloaded` is set
when a save failed or reloads overlapped, until a lone edit.

`Measurements`: `capAcc` and `slaAcc` hold the current day, `capRows` and `slaRows`
the rows; flushes overwrite the day's row, the first sample of a day closes the
day before, and old rows are pruned. `recomputeForecast` keeps the sign of the
least-squares slope, computed as in the code.

`Notices`: `tick` takes the plan and the alerts, `pageAlert` works one of them off,
marking before it queues (under the lock, the queueing after it; only a restart comes
between, and it forgets the marks too, so they are one step); `enqueue` waits for room
or gives up, and `runLoop` is the one consumer.

`Watchers`: a refresh of the RPKI watcher is asking (`announced`, `validityOf`), then
published, then compared with the last warning (`compareWarn`) and written to it
(`maybeAlertRPKI`), each a step of its own, since a ticker and a request may refresh
at once and `lastWarn` has no lock. `setInterval` changes the interval, `persistInterval`
writes both copies and signals, `tickerReset` adopts. Of the hijack watcher, the
sessions and what it remembers of each prefix and origin: seen within six hours,
longer ago, or not at all.

`Documents`: a wiki save reads the page and writes it with its history in a later
step, as a read-committed transaction does; the other stores change and save under
one lock.

### BotAgent, Drills, AuditLog

A conversation is what `agentAdvance` reads of it: the calls of the model's last
turn and those that were answered. A step copies the messages, asks the model, and
puts the result back (`agentStepReads`, `agentStep`, `finish`); a tap is checked
(`startTap`) and carried out later (`tapReads`, `agentExecuteApproved`, `tapEnds`),
and each looks the session up again. `granted` counts the approvals of a call,
`ran` its executions.

`Drills` has the goroutine of a drill with its stages, the bot's own undoing beside
it, the dead-man each ban leaves on its box, and the restart of the backend,
with which systemd kills what runs in its unit. A script inserts its DROP rules first
and leaves the dead-man last, and may be cut off anywhere: `startBlackout` chooses how
far it got, and `unarmed` counts, per box, the scripts cut off before the last line
that no undoing script has answered.

`Console` adds nothing but the restart they share. `AuditLog`: an event is its time
stamp; `auditQuery` is one page, from the table or from the file, and a walk is a
sequence of them.

### Mailboxes and MailSettings

A mailbox is the list of its rows in dovecot's users file; a completion appends one, a
reset rewrites the first, and passwords are numbered. Handlers are tasks whose steps
end where they release a lock: `completeByInvite`, `provisionMailbox`, `markUsed`;
`handleAdminResetPassword`, `forgetStashEverywhere`, `persistCopy`, `persistWrite`.
Resets exclude one another by `provisionMu`; the saves of the stash do not, so a task
keeps which resets its copy is `behind`, and that a newer copy was written before its
own (`late`). `unforgotten` are the mailboxes whose forgetting did not reach the file,
because its write failed or an older copy was written over it; `revived` those whose
old password a boot then read. The shell's `ncn-mail admin` is another process, which
shares files and no locks: `adminCmdResetPassword` and `adminCmdSetupNoreply` (the
rotation of a mailbox that exists) edit the users file (`cliWrites`), then read the
stash's file and write it back without the entry (`cliReadsStash`, `cliForgets`) or
with a new one (`cliStashes`), two steps with the service's saves between them;
`keyCommandReads`, `keyCommandSaves` are for API keys. `verify` reloads the keys if
the file is newer, as the code does before each comparison.

## 3. Runs

Passing runs (sizes are distinct states):

| Run | States | Shows |
|---|---|---|
| `LoadBalancer` | 496 | warrant of a failover, refinement of `FailoverLatch`, and that a loss is acted on |
| `HAFailover` | 55,283 | nothing served ahead of the promotion, no split behind a complete fence, no second takeover, a loss is taken over |
| `NodeLifecycle` | 412,912 | live set and registry agree; a deleted node stays gone; live nodes get a current status; refinement of `FleetView` |
| `AlertDebounce` | 174,818 | both debounces under edits; silenced rules' incidents close; an escalation ends in a card or in the verdict EXPECTED on it |
| `AlertNudges` | 107,524 | resolved nudges pair with cards; saved history; with slow triage, refused saves and loads, evictions, restarts |
| `AlertDispatch` | 354,682 | inhibition, with coalescing and storms; ring and memory |
| `SignIn` | 180,342 | an admin remains, codes work once, the boot finds the newest accounts, invited accounts wait, revocations hold, refinement of `OneShot`, shells end |
| `Console` | 884,765 | the ten properties of the console's stores and jobs, one slice at a time |
| `Webmail` | 1,747,184 | one mailbox per invitation, no replaced password in the stash after a reset by the service, keys as the shell left them, confirmed forwards |

Runs that end in a violation; each checks a sentence of the repository:

| Run | Sentence | What the code does |
|---|---|---|
| `AgentStaleTap` | `backend/agent.go:26`, writes are approved by a human before they run | a second tap on one card, or a tap just before the next `/agent`, executes whatever call is pending by then |
| `SignInTrustedBrowser` | `auth.go:928-930`, a browser whose cookie matches is trusted | the index of the match is used after expired entries were pruned: another entry is touched, or the handler panics |
| `WebmailStaleStash` | `webmail/mail.go:247-253`, the shell's reset wipes the stash | it edits the file; the service keeps the old password in memory and writes it back |

Some components have properties the code violates that no listed run checks; they are
stated beside the model, with the sentence they come from, and putting one into its
component's configuration shows the trace:
`LoadBalancer!FailoverNeedsConsecutiveFails`, `HAFailover!SingleWriter`,
`NodeLifecycle!CachedIsLive`, `AlertEngine!GoneNodesHaveNoAlerts`,
`AlertEngine!ResolvePairsWithItsFire`, `AlertEngine!ClosedEntriesAreFinal`,
`AlertEngine!HistorySurvives` (in `AlertNudges.cfg`),
`Invitations!LinkSetsOnePassword`, `Invitations!RevokeIsImmediate`,
`SignIn!IntentsAreOneShot`, `Drills!BansHaveDeadMen` and
`Mailboxes!ForgettingIsPersisted` (see section 7).

### Slices

`MCSignIn`, `MCConsole` and `MCWebmail` compose several modules that share little
state. A variable chosen in the initial state names the slice whose handlers run, so
that the state spaces add up instead of multiplying. A slice is a set of handlers
that change the same state: what a slice leaves out changes other variables
only. Every slice that has something to restart has its restart.

### Bounds, and why they are enough

* `LoadBalancer`: up to three origins (a primary, the standby chosen, and one
  not chosen), six configuration files: defaults, thresholds 1 to 3 on either
  side of each other, both modes and the downgrade, one origin and none. The
  counters are bounded by the thresholds, so the state space is complete.
* `HAFailover`: one pair, two records (a partial patch needs two), one crash and
  one restart: a second restart meets a script in no state the first cannot.
  Thresholds 2 and 1 keep a miss that does not count and one that does.
* `NodeLifecycle`: two operators, since a third request meets no state two
  cannot leave; the console's node, which restarts rely on, and one that comes
  and goes; two versions of its record, an old and a new one. Only that node is
  patched (`Patched`). One restart: a second would only start from fewer
  requests. The proofs have no such bounds.
* `AlertDebounce`: one rule on one node, three stores with sustain times 31, 90
  (the group's) and 31 seconds, resolve 60 and 0, a mute and a change of
  scope, so each edit moves a requirement up and down during an incident;
  `LongAgo` 90 and `StreakCap` 3 exceed every requirement. `Cooldown` 60 is two
  ticks, so an escalation falls inside it. Two incidents: the second meets what
  the first left.
* `AlertNudges`: one key, two incidents, a ring of one entry (so that entries
  are dropped while their incident is active), a repeat shorter than the
  minute to which the code raises it, saves that fail.
* `AlertDispatch`: two rules on three nodes, the dependent evaluated first,
  three incidents, a storm threshold of three and a ring of two: one card below
  the threshold, the storm at it, and an entry lost to the ring.
* `SignIn`: two users of whom one is the first admin, two saves that overlap
  (one in the slice of devices, which has no restart either), one restart
  (`MaxBoots`; the terminal has its own, which ends tickets and shells), two
  tickets of any kind, two uses of a link (`MaxUses`), three generations of codes
  (`MaxMints`), two devices of which one may have expired. The terminal has two
  users, three tickets, two sockets, a cap of one, an idle limit of one tick and a
  maximal session of two.
* `Console`: three events (requests, ticks, restarts) per behaviour, two where two
  routers are concerned (`nodes`, `mesh`) and for refreshes, which overlap with two,
  four where the interesting case needs a generation before it (`MaxEvents`); the
  steps of what an event started are not counted. Two of each kind of thing that
  requests can confuse (rules, routers, groups, reloads, applies, alerts, pages, taps,
  steps), one of what only multiplies. Tables and caps are as small as the case they
  exist for: a queue of one message, one application per address, three days with one
  kept, a page of two events out of five. The agent has an admin and an operator who
  is none, and three calls.
* `Webmail`: two mailboxes, one a role's; two invitations, links, requests and
  tasks; three passwords; one restart (none where forwards are edited, whose
  lists are files); one passkey with a counter up to three; two keys with two
  verifications; two addresses with two editors; three letters.
* The real constants (cooldown 1800 s, storm 6, ring 200, a queue of 128) differ by
  scale only: the code compares them and does nothing else with them.

Deadlock is checked in the runs of the first four components. The slices of the
others stop when their events are used up, so those configurations do not check it.

### Fairness

* `LoadBalancer!FairSpec`: a sweep always follows. `main` loops on a
  `time.Ticker`, and each probe has a timeout.
* `HAFailover!FairSpec`: sweeps as above; the script's commands end, or its
  two-minute limit kills it, which counts as an interruption; a PostgreSQL told
  to promote does. Nothing is assumed of the hosts. `LossIsTakenOver` states its
  other conditions: the primary stays down, and no script is interrupted.
* `NodeLifecycle!FairSpec`: the ticker goes on and every scrape ends (`scrapeBudget`
  is below `fleetTick`). Nothing is assumed of requests, which may stop half way.
* `AlertEngine!FairSpec`: the ticker goes on and its steps end, and an
  `evictNode` call in progress ends. For each key, a triage with a fire on it
  concludes: the agent is given up after 60 s (`alerts.go:988`), and then the card is
  sent. Nothing is assumed of operators, of what the agent answers or of metrics.
* `Terminal!TermFairness`: each shell's watchdog goes on; it is a goroutine on a
  30-second ticker that ends with its shell. Nothing is assumed of the program in
  the shell, which may write for ever.

## 4. Proofs

All theorems are for every value of the constants that satisfies the module's
named `ASSUME`, which TLC also evaluates in the runs.

**LoadBalancerProofs.** `TypeCorrect` by induction (`TypeInit`, `TypeStep`).
`HealthDebounced`: the counters equal the history of misses, so the property is
inductive with the types. `LaunchedOnce` and `NeverFailsBack` rest on
`LatchInv`, which adds to "a launch sets the latch" that a set latch has an
active origin: without it the step that adopts the first origin could move a
latched one. `LossNeverPending`, `FailoverWarranted` and `RefinesLatch` assume
`DistinctPriorities`. Without it the prover is left with a failover away from a
primary that was not the one adopted: with ties the sort may pick another
primary in each sweep, and these properties are then false of the code.

**HAFailoverProofs.** `TypeCorrect` uses the controller's type theorem for the
sweep. `PromotedBeforeServing` needs `PromotedFirst`: past the wait the standby
has left recovery, and its socket counts like its API, since it can start the
API by itself. `NoSplitBehindAFence` needs `FencedFirst`: no promotion is
pending or done before some fence ran, and after a complete one the old
PostgreSQL stays down until a boot, which marks the fence undone.
`PointOfNoReturn`: once the standby left recovery, `Check` leads nowhere.
`OneScript` needs `LatchedWhileRunning`: a running script implies the latch, also
across restarts, because a restart kills what it forgets. `ImplementsController`:
without restarts (`MaxRestarts = 0`) the composed system implements
`LoadBalancer!Spec`; a restart is not a step of the controller.

**NodeLifecycleProofs.** `IInv` is the type invariant with what keeps the
console's own node live: it is active in all three copies, and no request in
progress takes it out (`LocalActive`, `ReqSound`); `TypeCorrect` and
`NothingIsLeftOver` follow. `LiveSetFollows` needs three facts about requests in
progress. A request marked alone is the only one on its node (`AloneIsAlone`);
what it has still to apply agrees with the record (`ApplyAgrees`); and a node
with nothing left to apply is as its record says (`AppliedAgrees`). The second
carries the third from the registry's step to the fleet's. `RestartsKeepRecords`
needs `CopiesAgree`: while no save has missed PostgreSQL, both copies are the
same and hold every undisputed record and every record whose request is alone, so
that settling a node later does not assume what it should show. `ImplementsView`
maps each step to one of `FleetView` or to none.

**AlertEngineProofs.** `IInv` is the type invariant in named parts with `TodoCompiled`
(the keys still to evaluate are of compiled rules, which the lock protects from
reloads); one lemma per action. `IncidentIds`: ids are at most `lastSeq` and a new one
is above all; a restart clears both. `SustainRespected` needs `Counted`: each match
counted in `pending` is one of the current run of verdicts. It assumes `SteadyKeys`
(no removable node, and stores that compile the same rules): a node or rule that
leaves and returns finds its old `pending` count, and the property is then false of
the code. `ResolveRespected` has the same condition and the same argument for the
clear ticks (`Cleared`). `CleanIsSaved` needs that the copy a save writes is the ring
as long as nothing made it dirty (`SavedInv`). It speaks of a ring that is not empty:
after a load that failed the ring is empty and clean while PostgreSQL has the old one.
`CausesMute`: a fire's key has had its turn and is active (`FiresStand`), so
dependents that come later find it, and no cause of a fire is both active and still to
come (`CausesAreOver`). `NudgesArePaid` counts, per key, the cards that no resolved
nudge has answered: they cover the incident marked posted and each triage goroutine
that has sent its card and not yet marked (`Marking`). `RingMirrors` adds that no id
in the ring is above `lastSeq`, and assumes `SteadyFleet`: an eviction and a restart
drop incidents whose entries stay firing.

**AccountProofs.** `AccountInv` is an invariant of every handler of `Operators`,
`SignIn` and `Invitations` at once. Any of four copies of the accounts may be the next
one in use: memory, the file, the row, and the document of a save under way. So what
must hold of the accounts is said of a copy (`Sound`: an admin is in it, and its codes
are of a generation that was minted; `Clean`: no code in it was honoured, and who is
approved was vetted), and `CopiesInv` says it of all four, the second part while no
save was lost. One lemma per handler then shows what it does to one account (`Tame`),
and one what each way to save does to the copies. `AdminsRemain`, `CodesWorkOnce` and
`InviteesAreVetted` follow. `BootsFindTheFile` needs in addition that the row is never
ahead of the file, also in the middle of a save (`RowIsOlder`). `RevocationsHold` has
an invariant of its own (`TokensInv`: neither memory nor file has a token whose
revocation was answered, nor the row unless it is known to be older than the file; and
no comparison at work copied one after that). It is said of requests that come after
the answer: one that copied the tokens before is let in. `TicketsWorkOnce` is the
refinement of `OneShot`: a stored ticket that is not gone was never honoured
(`TicketsInv`), so each handler maps to a step of `OneShot` or to none.

**WebmailProofs.** `MailTypeCorrect` gives each task the fields its stage uses
(`HasFields`). `InvitationsMakeOneMailbox` needs who holds which lock (`Claims`): a
completion by invitation holds that of the invitations from its look-up to its mark,
so an invitation is unmade or made once at every step, in memory and in the file.
`ResetsWipeStash` needs four facts of each mailbox. A password somebody signed in with
and is about to stash is still the mailbox's (`Proved`). One reset runs at a time
(`OneReset`). Once it has forgotten, the memory holds no old password (`Forgot`,
`StashOK`). And a copy of the memory that waits to be written holds none either,
unless a newer copy was written before it or a reset that has yet to write comes after
it (`CopyOK`, `Overtaken`): so whatever order overlapping saves end in, an old
password in the file is one whose forgetting is on record as not saved.
`KeysAreTheShells` and `ForwardsWereConfirmed` rest on `KeysInv` and `ForwardsInv`, on
what a reload, a save or an editor carries from one step to the next.

**RouterProofs.** `FailuresAreTold` is inductive with the types: a card, whichever it
is, goes to the error channel, and a triage that comes to nothing falls back to one
(`CardToldErrors`, `TriagedKeepsInv`). `JobsUseTheFunnel` and `RequestsUseTheFunnel`
show that `Routers` and `Mitigation` implement `OpFailures`: each of their steps is
one of its steps or changes none of its variables, so what it promises is true of
their failures. `DrillsAreUndone` needs two facts: a blackout is on only during a
drill that will lift it or after a restart (`FlagIsTheDrills`), and the bans of a box
are covered by its dead-men and the scripts that were cut off there
(`BansAreCovered`).

`TablesAreRight` rests on two invariants per node. `Settled`: its
table is right for the rules as they are, or a sync of it is under way or due, or it
missed one. `OnItsWay`: a table on its way that no other sync has overtaken is right,
or the node will be synced again; without it a table generated before a rule changed
could be loaded last. A request queues the nodes whose rules it changes
(`MitRequestStep`), and a step on one node leaves the others as they were (`OneNode`).

`MeshCanBeUndone` is an action property of a script with two steps. Its backup is the
file it found (`ScriptsBackUp`); and where no second hand is at the router, the
tunnels are those it found and those it made, and the two are disjoint
(`ScriptsAreAlone`), so that removing the second leaves the first. `mixed` is set by
whichever step makes a second hand possible. `RecordsAreTrue` rests on one invariant
per peer on which no two jobs crossed (`Uncrossed`): what is recorded is deployed, one
job at most writes, and what that job would record is true of the routers it has
reached (`Truthful`). The crossing histories need no ordering between jobs, because a
second writer sets `crossed` as it begins.

**ConsoleProofs.** `WritesNeedAdmins` counts. `Outstanding(k, c)` is the set of taps
at work that approve call `c` and have not run it; `Covered` says that runs and
outstanding approvals together never exceed the approvals admins gave. It also needs
that an operator who is no admin never has a card to approve himself
(`CardsAreAdmins`), so that a tap at work on his call is an admin's (`TapsAreAdmins`).
It is why a card tapped twice, which the code does not prevent, still runs no more
often than admins tapped.

`RuleStoreTypeCorrect` is by induction. `RulesAreEvaluated` rests on `WellGrouped`
(every rule is in a group that exists, in memory and in the document the next start
loads, which `removeGroup` keeps by refusing a group that still has rules) and on
`RulesAreLoaded`: where no request is under way and nothing went wrong, the engine has
what the store has. A request that is alone carries its own snapshot into the engine,
and one that is not sets `unloaded`.

`NothingGoesMissing` is three invariants of `ConsoleSpec`. `DaysInv` adds to "finished
rows are whole" what the current day's accumulators hold, per store, and that no row
is of a day to come, so that the change of day closes a row with everything in it.
`WikiInv` adds what a save between its read and its write carries. `IntervalInv` is
nearly the property. `WarningsArrive` rests on `TellInv`: a step of the queue keeps
everything that was queued, being sent, told or excused (`TellsOn`; `EnqueueTells`
needs that the code's order of the messages, whatever it is, has each of them), and a
set of problems that is shown but not yet told is still being compared by some refresh
(`ProblemsTold`). Without the last part the fact that two refreshes share `lastWarn`
breaks the induction.

`ReadersSeeEverything` is about pages cut out of a sorted sequence while events
arrive. A reader was given, newest first, every event down to its cursor
(`GivenSoFar`); a page starts just behind the cursor wherever newer events have pushed
it (`PageFollows`), and no event can arrive older than the cursor and be owed, because
what is owed is what was there at the start. That a finite set of numbers has a sorted
sequence at all (`EventsCanBeSorted`) and that a finite set has a sequence of its
members (`SequenceOfSet`) are proved by a least counterexample, with the minimum that
the library's well-foundedness of the naturals gives; the induction rules themselves
cannot be applied.

Every safety property that a passing run lists, invariant or action property, and every
refinement is a theorem.

**Only model-checked.** Liveness and what needs fairness (`LossIsActedOn`,
`LossIsTakenOver`, `StatusCatchesUp`, `NoHangingAlerts`, `EscalationIsAnswered`,
`ShellsEnd`): the prover has no rule for fairness here. The forecast's recursive
sums: induction over data is out of its reach, and no theorem reads them. The type
invariants of `Routers`, `Peering`, `Measurements`, `Documents`, `Notices`, `BotAgent`,
`AuditLog`, `Operators`, `SignIn` and `Terminal` hold in the slices of `Console` and
`SignIn` when they are added to those configurations; the proofs contain the parts of
them they use.

The theorems on types, ids and latches that no run lists as a property (`TypeOK`,
`DrillTypeOK`, `MitTypeOK`, `HealthIsDebounced`, `LaunchMatchesLatch`,
`LossIsNeverPending`, `NoFailback`, `OneScriptAtATime`, `RestartKeepsRecords`,
`IncidentsAreDistinct`) hold for every value of the constants and need no instance.

### What the constants are assumed to be

Each `ASSUME` is in the module that declares the constants, and says no more than that
names are distinct from the marks for "none", that a bound or a threshold is a number,
positive where the code uses it as a count, and that sets the configuration lists are
finite. Three are worth naming. `UsersAssumption`: the first account exists, and the
sorted order of names lists every name. `WatchersAssumption`: an alert, a suspect
and a set of problems are told apart, as the code's messages are by their text.
`RoutersAssumption` and `MitigationAssumption`: the failures that jobs report are kinds
`OpFailures` knows. `DistinctPriorities`, `SteadyKeys` and `SteadyFleet` are conditions of
single theorems, explained with them above.

## 5. Not modelled

* Of the node lifecycle: probe targets, agent keys and the certificate sweep,
  which the same steps rebuild from the live set, and the figures of a status, its
  failure streak included.
* Of the alert engine: metric evaluation and anomaly baselines (a verdict stands
  for them), the webhook, message text. Of it and of operation failures: the queue's
  giving up, which `Notices` has.
* Of the failover: the `-once` mode and status page of `ncn-lb`, replication lag,
  the proxy unit the script stops on the standby, and a child process that
  outlives a killed shell.
* Of sign-in: hashing, signatures, cookies and the providers' own protocols, whose
  outcomes are choices; the limits per address (`ratelimit.go`) outside the
  terminal, which only refuse.
* Of the routers: the text of configurations (blocks stand for it), tunnel
  addresses, and the figures of a flow.
* Of the bots: the menus of `bot_tg.go`, `bot_manage.go` and `bot_netadmin.go`, front
  ends over operations modelled elsewhere; the web's agent endpoints, which keep
  no state between requests.
* Of the watchers: the figures of a router's own validation, paths and peers, and a
  watcher without Telegram, which only shows. Netflow and the exporters: series
  and parsers.
* Of the mail service: rendering, search, folders, attachments, limits per
  address, flags of letters, and what dovecot and postfix do with their files.
* ncn-agent, routing and proxying, command-line clients, the MCP proxy, the
  front ends: they keep no control state of the platform.

## 6. Plan

1. The type invariants no theorem states yet, in the proof modules there are.
2. The lemmas behind liveness that need no fairness: from which states an action that
   the fairness names is the only way on, and what it leaves behind.
3. `LinkSetsOnePassword` and the other properties the code violates: what does hold in
   their place, and under which history.

## 7. Behaviours noted while modelling

They are in the model, or the property says under which condition it holds
because of them.

ncn-lb and failover:

* Equal priorities are ordered by chance in each sweep (`lb/main.go:276`, and
  218-219), so a controller may leave an origin that serves.
* A freshly started controller fails over after one missed probe, because an
  origin starts unhealthy (`lb/main.go:243`; "consecutive fails → down", line 47).
* A fence that does not reach a live primary, or that primary's later boot, leaves
  two writable databases (`lb/failover.sh:37`; lines 14-16 say otherwise).
* `/health` does not ask the database, so a primary with PostgreSQL down is
  healthy to the controller (`backend/main.go:217`).
* A script killed after the promotion leaves DNS as it is, and no later script
  repairs it; a record that fails to patch splits clients (`failover.sh:99`).
* The fence stops `ncn-api.service` and leaves `ncn-api.socket` listening behind
  nginx (`lb/failover.sh:34`), so the next request starts ncn-api on the fenced
  primary again.

Alert engine and fleet:

* A tick on a snapshot taken before a node left re-creates the alert `evictNode`
  dropped (`alerts.go:519`; 1017-1020). `evictNode` leaves `pending` and `clearing`
  (1021), so a returning node can fire or resolve early.
* A triage that outlives its incident marks the key's next one as sent
  (`alerts.go:971`; 44-46).
* The tick only claims the card of a critical alert (`alerts.go:171-176`); the triage may
  call it EXPECTED, and then the chat never hears of the escalation. So the property asks
  for a card or that verdict.
* A start that cannot load the history has an empty one that counts as clean
  (`alerts.go:253-256`); the next flush writes the new ring over the saved history
  (`HistorySurvives`).
* After a restart ids start over and rewrite restored history entries
  (`alerts.go:260`; 212-214).
* `reloadRules` copies `GroupKey` in the anomaly branch only (`alerts.go:393`):
  threshold rules that share one are carded apart.
* Deleting a rule drops it from the loop, so an incident it had open is not
  closed before a restart (`alerts.go:549`).
* The comment on `MinSeverity` gives the empty value as crit only
  (`alertrules.go:43-44`); the gate defaults to info (`alerts.go:723-731`).
* A scrape that a decommission overtakes caches its status: the guard looks at the
  memory, which is kept (`fleet.go:809`; 807-808). The failure streak survives too.
* Two concurrent requests on one node may leave the live set as the first says
  and the registry as the second (`nodes_api.go:260`). A save that fails leaves the
  change in memory (`noderegistry.go:463`); a change that PostgreSQL missed is undone
  by the next restart that can read it (146-151), though it was answered OK.

Accounts:

* `persistLocked` of `passkey.go:288` writes the file only, although `auth.go:373-377`
  says that `writeOperatorsBlob` funnels all saves.
* The bootstrap account is unapproved until the next restart.
* A login intent is signed and not stored: within its life the same intent signs in
  again, although its nonce is there to prevent "same ticket replay" (`auth.go:876`)
  and line 1557 calls it a "one-shot ticket" (`IntentsAreOneShot`).
* A request that copied the tokens before a revocation is let in after the answer
  (`auth_apitoken.go:159-194`; line 22: "Revoke is immediate", "No grace window",
  `RevokeIsImmediate`). A revocation whose row could not be written is answered with OK
  (138-143); a boot that then reads the row and cannot mend it accepts the token
  again (`misread`).
* A recovery link is checked, used and burnt in three steps: two submissions at
  once both set a password (`recover_bootstrap.go:273`), and a crash before the mark
  leaves the link usable until it expires (324-327).
* The replay cache of webmail tickets forgets at the expiry, while verification
  accepts five seconds more. `checkDeviceTrust` does not save what it prunes.

Routers and measurements:

* An apply of a mesh locks its own node only, so two jobs may edit one router
  (`mixed`); where there was no file, a refused full file stays
  (`meshApply.go:96`). Onboarding's SSH commands have no timeout
  (`nodes_onboard.go:482`, 525). A drift check compares an old read with a newer
  baseline (`configdrift.go:195`).
* A router that misses the sync of an expiry keeps the table until another sync
  (`ddos.go:273`); applying an active rule to other nodes forgets the first
  (`ddosApply.go:148`). The property leaves such routers out (`unsynced`).
* A generation without a neighbour's address is not applied (`peerApply.go:122`); the
  model, which has no addresses, leaves this refusal out.
* A generation may be put back over a newer one by the watch or an apply that held
  its pointer (`peerRefresh.go:84`, `peerApply.go:156`).
* `capacity.go:269` says that a flush at the end "keeps today's partial trend": the
  first flush after a restart replaces the day's row by the samples since then (so
  does `sla.go:265`). If the table cannot be read at the start, the fallback is a
  file that is not written while there is a database.

Being told:

* A suppressed repeat restarts its window, so a failure that repeats faster is told
  once (`opfailures.go:250`); ring entries vanish from the list once the table
  answers.
* A tier of admins pages nobody if none has Telegram (`oncall.go:189`); counts of
  sent pages survive a change of the plan (161).
* A refresh whose request is given up counts the prefixes it did not ask about as
  unknown and warns that they have no ROA (`rpki.go:318`, 404, 435; `WarnsOfProblems` in
  `Watchers` states the comment at 365). `refresh` is called safe beside the ticker
  (425), but `lastWarn` is read and written without the lock (379-382), so one
  problem may be posted twice.
* Each sighting renews the time kept for a prefix and origin, warned of or not
  (`hijack.go:232`; "last alert", 58): who is seen every hour is told of once and
  not every six hours. A session watches the prefixes announced when it began, and
  each leaves a goroutine waiting for the end of the process (130).
* `replmon` posts "recovered" though nothing was archived meanwhile.
* Two `/agent` in a row step one session twice, so a call can get two cards and run
  twice, each time approved. `agentMaxTurns` is never reached in Telegram.
* The dead-man of the backend's own box dies with the backend (the unit has no
  `KillMode`), although `bot_drill.go:275` counts on it when the bot dies; a crash in a
  drill leaves the console's blackout flag; a dead-man may lift a later drill's ban.
  The dead-man is armed by the script's last line, so a script that is cut off after
  its DROP leaves a ban that only an undoing script lifts (`bot_drill.go:289-298`; lines
  276-278 say that each node restores itself, `BansHaveDeadMen`); cut off between the
  DROP and the ACCEPT of the bot's own address, it keeps that script out too.
* Events written to the audit file during an outage are not shown once the table
  answers (`audit.go:134-136`); a malformed line makes the file's scan loop
  (255-262); a cursor not found, after a change of store, starts over (340).

Documents and webmail:

* Two wiki saves at once read the same version: one text is then neither the page
  nor in its history (`wikistore.go:107-110`). A patch refused half way has changed
  memory (`billing.go:344-384`, `incidents.go:498`).
* A reset link's preview consumes nothing and two submissions both set a password
  (`forgot.go:224`, 421); a request may be approved twice (402).
* Two completions with the operator's token may append two rows (`invite.go:611`);
  provisioning that fails half way leaves the invitation open
  (657); sessions survive a password reset.
* `forgetStashEverywhere` is to persist what it drops (`mail.go:256-258`), but the
  error is dropped (263), and saves copy the map under the lock and write it without
  (146-163): an older copy may be written over the forgetting, and the next start then
  stashes the old password again (`ForgettingIsPersisted`). The comment on the reset's
  handler says "No effect on stashed cred" (`invite.go:385-386`); line 491 forgets it.
  The shell's edits of the stash's file can lose an entry the service saves meanwhile
  (`mail.go:269-298`), and the service's saves undo them.
* A key minted or revoked by the shell during a verification may be lost
  (`api_token.go:262`, history `crossed`). The shell's reset rewrites the users file
  beside the service's own lock. Saves of the stash share one `.tmp` file
  (`mail.go:158`). A pending address kept by a new list is not mailed again
  (`forward.go:230`).

## 8. Running

    tlc -workers 2 -config LoadBalancer.cfg MCLoadBalancer.tla
    tlc -workers 2 -config HAFailover.cfg MCHAFailover.tla
    tlc -workers 2 -config NodeLifecycle.cfg NodeLifecycle.tla
    tlc -workers 2 -config AlertDebounce.cfg MCAlertEngine.tla
    tlc -workers 2 -config SignIn.cfg MCSignIn.tla
    tlc -workers 2 -config Console.cfg MCConsole.tla
    tlc -workers 2 -config Webmail.cfg MCWebmail.tla
    tlapm LoadBalancerProofs.tla
    tlapm HAFailoverProofs.tla
    tlapm NodeLifecycleProofs.tla
    tlapm AlertEngineProofs.tla
    tlapm AccountProofs.tla
    tlapm RouterProofs.tla
    tlapm ConsoleProofs.tla
    tlapm WebmailProofs.tla

The other configurations are named after their runs and use the module of the
same component. Each run takes between a few seconds and three minutes on two
cores. To look at one slice, put its name alone into `Slices` (or `MailSlices`).
