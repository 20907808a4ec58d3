------------------------------ MODULE Operators ------------------------------
(***************************************************************************)
(* The operator accounts of the console: the records of authStore          *)
(* (backend/auth.go), every handler that changes one (auth.go, passkey.go, *)
(* auth_ssh.go, oauth.go, invite.go) and the break-glass commands of       *)
(* admincli.go, over the document of ConfigDoc.                            *)
(*                                                                         *)
(* A secret is the value a user would present: hashing and signatures are  *)
(* not modelled, an entry either is the one presented or not.              *)
(***************************************************************************)
EXTENDS Naturals, Sequences, FiniteSets, TLC

CONSTANTS
    Users,          \* usernames that isValidUsername accepts
    FirstUser,      \* "NOC", the account bootstrap() creates
    AlphaOrder,     \* the usernames, sorted
    None,
    Passwords, Secrets, Passkeys, SshKeys, Codes,
    Providers, Subjects,
    Devices,        \* tokens of trusted browsers
    Savers,
    SshMaxKeys,     \* sshMaxKeysPerUser
    MaxDevices,     \* maxTrustedDevices
    TrustDays,      \* deviceTrustTTL
    MaxDay, MaxMints   \* bounds of the clock and of code generations

ASSUME UsersAssumption ==
    /\ FirstUser \in Users
    /\ None \notin Secrets \cup Subjects
    /\ \A u \in Users : \E i \in DOMAIN AlphaOrder : AlphaOrder[i] = u

VARIABLES
    operators,      \* authStore.operators
    file, row, newer, saves, adrift, overlapped,   \* of ConfigDoc
    sessions,       \* users whose browser holds a session that verifies
    day,            \* the clock, in the unit of TrustDays
    mints,          \* history: generations of recovery codes so far
    spent,          \* history: codes that were honoured
    reused,         \* history: a spent code was honoured again
    lossy           \* history: at some time a save was lost or undone

storeVars == <<operators, file, row, newer, saves, adrift, overlapped>>
history == <<mints, spent, reused, lossy>>
vars == <<storeVars, sessions, day, history>>

Operator == [role : {"admin", "operator"}, approved : BOOLEAN, invited : BOOLEAN,
             pw : Passwords, totp : Secrets \cup {None},
             passkeys : SUBSET Passkeys, keys : SUBSET SshKeys,
             codes : [gen : 0 .. MaxMints, left : SUBSET Codes],
             ids : [Providers -> Subjects \cup {None}],
             devices : Seq([token : Devices, seen : 0 .. MaxDay])]

Absent == [role |-> "none"]      \* no account
Known(ops) == {u \in Users : ops[u] # Absent}
Admins(ops) == {u \in Known(ops) : ops[u].role = "admin"}
Unbound == [p \in Providers |-> None]

Account(role, pw, gen) ==
    [role |-> role, approved |-> FALSE, invited |-> FALSE, pw |-> pw, totp |-> None,
     passkeys |-> {}, keys |-> {}, codes |-> [gen |-> gen, left |-> Codes],
     ids |-> Unbound, devices |-> <<>>]

------------------------------------------------------------------------------
(* Boot.  An empty store gets the first operator; else accounts without    *)
(* recovery codes get a set, and accounts nobody invited are approved.     *)
(* Then the first name becomes an admin if there is none.  The codes that  *)
(* are minted are of generation gen.                                       *)

bootstrap(gen) ==
    [u \in Users |-> IF u = FirstUser
        THEN [Account("operator", CHOOSE pw \in Passwords : TRUE, gen)
                EXCEPT !.totp = CHOOSE x \in Secrets : TRUE]
        ELSE Absent]

migrateRecoveryCodes(ops, gen) ==
    [u \in Users |-> IF u \in Known(ops) /\ ops[u].codes.left = {}
        THEN [ops[u] EXCEPT !.codes = [gen |-> gen, left |-> Codes]]
        ELSE ops[u]]

(* A mutant: everybody the boot finds is approved. *)
MutApproveAll(ops) ==
    [u \in Users |-> IF u \in Known(ops) THEN [ops[u] EXCEPT !.approved = TRUE] ELSE ops[u]]

approveUninvited(ops) ==
    [u \in Users |-> IF u \in Known(ops) /\ ~ops[u].invited
        THEN [ops[u] EXCEPT !.approved = TRUE]
        ELSE ops[u]]

promoteFirstAdminIfNone(ops) ==
    IF Admins(ops) # {} THEN ops
    ELSE LET first == CHOOSE i \in DOMAIN AlphaOrder :
                 /\ AlphaOrder[i] \in Known(ops)
                 /\ \A j \in 1 .. i - 1 : AlphaOrder[j] \notin Known(ops)
         IN  [ops EXCEPT ![AlphaOrder[first]].role = "admin"]

loadAuthStore(doc, gen) ==
    promoteFirstAdminIfNone(
        IF Known(doc) = {} THEN bootstrap(gen)
        ELSE approveUninvited(migrateRecoveryCodes(doc, gen)))

(* A missing copy loads as one without accounts does.                      *)
NoDoc == [u \in Users |-> Absent]
Doc == INSTANCE ConfigDoc WITH
    mem <- operators, Docs <- [Users -> Operator \cup {Absent}]

(* Every way a change of the accounts is saved; the history notes a write  *)
(* that failed and writes that overlapped.                                 *)
NoteLoss == lossy' = (lossy \/ adrift' \/ overlapped')

writeOperatorsBlob(ops) == Doc!LockedWrite(ops) /\ NoteLoss
persistLocked(ops) == Doc!FileOnlyWrite(ops) /\ NoteLoss
changeThenPersist(w, ops) == Doc!BeginPersist(w, ops) /\ UNCHANGED lossy
adminSaveOps(ops) == Doc!ExternalEdit(ops) /\ NoteLoss

persist(w) ==
    /\ Doc!PersistCopy(w) \/ Doc!PersistFile(w) \/ Doc!PersistRow(w)
    /\ NoteLoss
    /\ UNCHANGED <<sessions, day, mints, spent, reused>>

(* The bound on code generations also bounds the boots that mint one.      *)
Minted(ops) == \E u \in Known(ops) : ops[u].codes.gen = mints

Restart(attached) ==
    \E readable \in BOOLEAN, how \in {"ok", "failed", "blind"} :
        /\ Doc!Boot(attached, how, readable, loadAuthStore(Doc!Loaded(attached, how, readable), mints))
        /\ mints' = IF Minted(operators') THEN mints + 1 ELSE mints
        /\ mints' <= MaxMints
        /\ lossy' = (lossy \/ (attached /\ how = "failed" /\ newer))
        /\ UNCHANGED <<sessions, day, spent, reused>>

With(u, rec) == [operators EXCEPT ![u] = rec]
calm == UNCHANGED <<sessions, day, mints, spent, reused>>
mint == mints < MaxMints /\ mints' = mints + 1 /\ UNCHANGED <<sessions, day, spent, reused>>

(* requireAuth: the session verifies, whether or not the account exists.   *)
(* requireRole reads the role from the account at each request.            *)
requireAuth(u) == u \in sessions
requireRole(u) == requireAuth(u) /\ u \in Admins(operators)
loggedIn(u) == requireAuth(u) /\ u \in Known(operators)

------------------------------------------------------------------------------
(* Passwords and recovery codes.                                           *)

(* A mutant: the code is compared and kept. *)
MutCodeKept(u, c, pw) ==
    /\ u \in Known(operators) /\ c \in operators[u].codes.left
    /\ writeOperatorsBlob(With(u, [operators[u] EXCEPT !.pw = pw]))
    /\ LET code == <<u, operators[u].codes.gen, c>>
       IN  reused' = (reused \/ code \in spent) /\ spent' = spent \cup {code}
    /\ UNCHANGED <<sessions, day, mints>>

handleRecoverPassword(u, c, pw) ==
    /\ u \in Known(operators) /\ c \in operators[u].codes.left
    /\ writeOperatorsBlob(With(u, [operators[u] EXCEPT !.pw = pw, !.codes.left = @ \ {c}]))
    /\ LET code == <<u, operators[u].codes.gen, c>>
       IN  reused' = (reused \/ code \in spent) /\ spent' = spent \cup {code}
    /\ UNCHANGED <<sessions, day, mints>>

handleChangePassword(u, old, pw) ==
    /\ loggedIn(u) /\ old = operators[u].pw /\ pw # old
    /\ writeOperatorsBlob(With(u, [operators[u] EXCEPT !.pw = pw]))
    /\ calm

handleTOTPSetupConfirm(u, secret) ==
    /\ loggedIn(u)
    /\ writeOperatorsBlob(With(u, [operators[u] EXCEPT !.totp = secret]))
    /\ calm

------------------------------------------------------------------------------
(* Accounts.                                                               *)

handleOperatorsCreate(caller, u, role, pw) ==
    /\ requireRole(caller) /\ u \notin Known(operators)
    /\ writeOperatorsBlob(With(u, [Account(role, pw, mints) EXCEPT !.approved = TRUE]))
    /\ mint

handleOperatorsDelete(caller, u) ==
    /\ requireRole(caller) /\ u # caller /\ u \in Known(operators)
    /\ u \in Admins(operators) => Cardinality(Admins(operators)) > 1
    /\ writeOperatorsBlob(With(u, Absent))
    /\ calm

(* A mutant: the last admin may step down. *)
MutLastAdmin(caller, u, role) ==
    /\ requireRole(caller) /\ u \in Known(operators) /\ operators[u].role # role
    /\ writeOperatorsBlob(With(u, [operators[u] EXCEPT !.role = role]))
    /\ calm

handleOperatorsUpdate(caller, u, role) ==
    /\ requireRole(caller) /\ u \in Known(operators) /\ operators[u].role # role
    /\ u \in Admins(operators) => Cardinality(Admins(operators)) > 1
    /\ writeOperatorsBlob(With(u, [operators[u] EXCEPT !.role = role]))
    /\ calm

handleOperatorsApprove(caller, u) ==
    /\ requireRole(caller) /\ u \in Known(operators) /\ ~operators[u].approved
    /\ persistLocked(With(u, [operators[u] EXCEPT !.approved = TRUE]))
    /\ calm

------------------------------------------------------------------------------
(* External identities.  touchIdentity, setAvatar and setBotNick save a    *)
(* field that is not modelled.                                             *)

OwnersOf(ops, p, x) == {u \in Known(ops) : ops[u].ids[p] = x}

findOperatorByIdentity(p, x, u) == u \in OwnersOf(operators, p, x)

bindIdentity(w, u, p, x) ==
    /\ u \in Known(operators) /\ OwnersOf(operators, p, x) \subseteq {u}
    /\ changeThenPersist(w, With(u, [operators[u] EXCEPT !.ids[p] = x]))

unbindIdentity(w, u, p) ==
    /\ loggedIn(u)
    /\ changeThenPersist(w, With(u, [operators[u] EXCEPT !.ids[p] = None]))
    /\ calm

touchIdentity(w) == changeThenPersist(w, operators)

setAvatar(w, u) == u \in Known(operators) /\ changeThenPersist(w, operators)

setBotNick(w, u) == u \in Known(operators) /\ changeThenPersist(w, operators) /\ calm

------------------------------------------------------------------------------
(* Passkeys and SSH keys: saved to the file only.                          *)

addPasskey(u, k) ==
    /\ u \in Known(operators)
    /\ persistLocked(With(u, [operators[u] EXCEPT !.passkeys = @ \cup {k}]))

handlePasskeyDelete(u, k) ==
    /\ loggedIn(u) /\ k \in operators[u].passkeys
    /\ persistLocked(With(u, [operators[u] EXCEPT !.passkeys = @ \ {k}]))
    /\ calm

handleSSHKeyAdd(u, k) ==
    /\ loggedIn(u) /\ Cardinality(operators[u].keys) < SshMaxKeys
    /\ k \notin operators[u].keys
    /\ persistLocked(With(u, [operators[u] EXCEPT !.keys = @ \cup {k}]))
    /\ calm

handleSSHKeyDelete(u, k) ==
    /\ loggedIn(u) /\ k \in operators[u].keys
    /\ persistLocked(With(u, [operators[u] EXCEPT !.keys = @ \ {k}]))
    /\ calm

------------------------------------------------------------------------------
(* Trusted browsers.  A list is ordered, as the code's index into it is.   *)

cutoff == IF day > TrustDays THEN day - TrustDays ELSE 0
Pruned(list) == SelectSeq(list, LAMBDA d : d.seen >= cutoff)

(* What the stored list becomes when the kept entries are moved to the     *)
(* front of its array but the shorter slice is not stored.                 *)
ShiftedInPlace(list) ==
    LET kept == Pruned(list) IN kept \o SubSeq(list, Len(kept) + 1, Len(list))

MatchedAt(list, t) ==
    {i \in DOMAIN list : list[i].token = t /\ list[i].seen >= cutoff
        /\ \A j \in 1 .. i - 1 : list[j].token # t \/ list[j].seen < cutoff}

(* The index of the match is that of the list before pruning.  Where it    *)
(* still is an index the entry there is touched and the list stored; where *)
(* it is not the handler panics.                                           *)
checkDeviceTrust(w, u, t) ==
    /\ u \in Known(operators)
    /\ \E i \in MatchedAt(operators[u].devices, t) :
         LET kept == Pruned(operators[u].devices)
         IN  /\ i <= Len(kept)
             /\ changeThenPersist(w, With(u, [operators[u] EXCEPT
                    !.devices = [kept EXCEPT ![i].seen = day]]))

TrustPanics(u, t) ==
    /\ u \in Known(operators)
    /\ \E i \in MatchedAt(operators[u].devices, t) : i > Len(Pruned(operators[u].devices))

(* Without a match, and after a panic, the array has changed and the       *)
(* slice has not: len(pruned) is compared with itself, so nothing is saved.*)
TrustRefused(u, t) ==
    /\ u \in Known(operators)
    /\ MatchedAt(operators[u].devices, t) = {} \/ TrustPanics(u, t)
    /\ operators' = With(u, [operators[u] EXCEPT !.devices = ShiftedInPlace(@)])
    /\ saves' = Doc!Disturbed
    /\ adrift' = (adrift \/ operators' # operators)
    /\ overlapped' = (overlapped \/ Doc!Writing # {})
    /\ UNCHANGED <<file, row, newer, lossy>>

BySeen(list) == SortSeq(list, LAMBDA d, e : d.seen < e.seen)

registerTrustedDevice(w, u, t) ==
    /\ u \in Known(operators)
    /\ LET list == Append(operators[u].devices, [token |-> t, seen |-> day])
           kept == IF Len(list) > MaxDevices
                   THEN SubSeq(BySeen(list), Len(list) - MaxDevices + 1, Len(list))
                   ELSE list
       IN  changeThenPersist(w, With(u, [operators[u] EXCEPT !.devices = kept]))

handleRevokeDevice(w, u, t) ==
    /\ loggedIn(u)
    /\ changeThenPersist(w, With(u, [operators[u] EXCEPT
            !.devices = SelectSeq(@, LAMBDA d : d.token # t)]))
    /\ calm

Tomorrow ==
    /\ day < MaxDay /\ day' = day + 1
    /\ UNCHANGED <<storeVars, sessions, history>>

------------------------------------------------------------------------------
(* Break-glass commands, run by root on the host, on the file.             *)

InFile(u) == u \in Known(file)
Edited(u, rec) == adminSaveOps([file EXCEPT ![u] = rec])

adminCmdSetRole(u, role) ==
    /\ InFile(u) /\ file[u].role # role
    /\ role = "operator" => Cardinality(Admins(file)) > 1
    /\ Edited(u, [file[u] EXCEPT !.role = role])
    /\ calm

adminCmdResetPassword(u, pw) ==
    /\ InFile(u)
    /\ Edited(u, [file[u] EXCEPT !.pw = pw])
    /\ calm

adminCmdResetMFA(u) ==
    /\ InFile(u)
    /\ Edited(u, [file[u] EXCEPT !.totp = None, !.passkeys = {}, !.codes.left = {}])
    /\ calm

adminCmdRegenRecovery(u) ==
    /\ InFile(u)
    /\ Edited(u, [file[u] EXCEPT !.codes = [gen |-> mints, left |-> Codes]])
    /\ mint

AccountSteps ==
    \/ \E caller, u \in Users :
         \/ \E role \in {"admin", "operator"}, pw \in Passwords :
              handleOperatorsCreate(caller, u, role, pw)
         \/ handleOperatorsDelete(caller, u)
         \/ \E role \in {"admin", "operator"} : handleOperatorsUpdate(caller, u, role)
    \/ \E u \in Users, role \in {"admin", "operator"} : adminCmdSetRole(u, role)

SecretSteps(u) ==
    \/ \E pw \in Passwords :
         \/ \E c \in Codes : handleRecoverPassword(u, c, pw)
         \/ adminCmdResetPassword(u, pw)
         \/ \E old \in Passwords : handleChangePassword(u, old, pw)
    \/ adminCmdResetMFA(u) \/ adminCmdRegenRecovery(u)
    \/ \E x \in Secrets : handleTOTPSetupConfirm(u, x)

------------------------------------------------------------------------------
(* A console that was set up earlier, its copies equal.                    *)
OperatorsInit(ops, users) ==
    /\ operators = ops /\ file = ops /\ row = ops /\ newer = FALSE
    /\ saves = [w \in Savers |-> Doc!Idle]
    /\ adrift = FALSE /\ overlapped = FALSE
    /\ sessions = users /\ day = 0 /\ mints = 1 /\ spent = {} /\ reused = FALSE /\ lossy = FALSE

OperatorsTypeOK ==
    /\ Doc!TypeOK
    /\ sessions \subseteq Users /\ day \in 0 .. MaxDay /\ mints \in 0 .. MaxMints
    /\ spent \subseteq Users \X (0 .. MaxMints) \X Codes
    /\ reused \in BOOLEAN /\ lossy \in BOOLEAN

(* There is always somebody who may administer the accounts, whatever the  *)
(* handlers and the host's commands do and whichever copy is loaded.       *)
AdminRemains == Admins(operators) # {}

(* A recovery code works once, unless a save failed or was overtaken.      *)
CodesHonouredOnce == reused => lossy

BootFindsFile == Doc!BootFindsFile

(* checkDeviceTrust (auth.go:928) "returns true (and bumps LastSeen* on a  *)
(* match)": a browser whose entry matches never makes the handler panic.   *)
TrustedBrowsersSignIn == \A u \in Users, t \in Devices : ~TrustPanics(u, t)
==============================================================================
