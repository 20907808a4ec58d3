----------------------------- MODULE Invitations -----------------------------
(***************************************************************************)
(* What lets somebody in from outside: invitations (backend/invite.go),    *)
(* API tokens (auth_apitoken.go) and recovery links minted on the host     *)
(* (recover_bootstrap.go, admincli.go).  Each store saves its whole        *)
(* document under its own lock: the tokens to a file and a row, as         *)
(* ConfigDoc says; the file and the row of invitations and of burnt links  *)
(* are one durable copy here, which a save may miss.                       *)
(***************************************************************************)
EXTENDS SignIn

CONSTANTS
    Invites, ApiTokens, Links,
    InviteMax, TokenMax,     \* inviteMaxLen, apiTokenMaxPer
    MaxUses                  \* bound of linkUses

(* No file, or no row, is not a document of tokens.                        *)
ASSUME TokensAssumption == None \notin [ApiTokens -> Users \cup {None}]

VARIABLES
    invites, invitesSaved,   \* inviteTokens, and its durable copy
    apiTokens,               \* apiTokenStore.tokens
    apiFile, apiRow, apiNewer, apiAdrift,   \* its copies, as in ConfigDoc
    bearers,                 \* requests whose token is being compared
    burnt, burntSaved,       \* usedNonceStore.entries, and its durable copy
    resets,                  \* submissions of a recovery link in progress
    joins,                   \* completions of an invitation in progress
    linkUses,                \* history: passwords each link has set
    vetted,                  \* history: accounts an admin approved
    answered,                \* history: revocations that were answered with OK
    misread                  \* history: a boot loaded a row older than the file

invitationVars ==
    <<invites, invitesSaved, apiTokens, apiFile, apiRow, apiNewer, apiAdrift, bearers,
      burnt, burntSaved, resets, joins, linkUses, vetted, answered, misread>>
inviteStore == <<invites, invitesSaved>>
tokenStore == <<apiTokens, apiFile, apiRow, apiNewer, apiAdrift, bearers, misread>>
recovery == <<burnt, burntSaved, resets, linkUses>>

(* vetted and answered follow the actions of the modules below this one.   *)
sameOutside == UNCHANGED <<inviteStore, tokenStore, recovery, joins, vetted, answered>>
sameAccounts == UNCHANGED <<vars, signInVars>>

NoInvite == "none"
InviteStates == {NoInvite, "open", "lapsed", "used", "deleted"}

------------------------------------------------------------------------------
(* Invitations.  A save that fails is only logged.                         *)

persistInvitesLocked(next) ==
    /\ invites' = next
    /\ invitesSaved' \in {next, invitesSaved}

sameButInvites == UNCHANGED <<tokenStore, recovery, joins, vetted, answered>>
Collected == [i \in Invites |-> IF invites[i] = "lapsed" THEN "deleted" ELSE invites[i]]
Pending == {i \in Invites : invites[i] \in {"open", "lapsed", "used"}}

handleInviteCreate(u, i) ==
    /\ requireRole(u) /\ invites[i] = NoInvite
    /\ Cardinality({j \in Invites : Collected[j] \in {"open", "used"}}) < InviteMax
    /\ persistInvitesLocked([Collected EXCEPT ![i] = "open"])
    /\ sameButInvites /\ sameAccounts

handleInviteList(u) ==
    /\ requireRole(u) /\ Collected # invites
    /\ invites' = Collected /\ UNCHANGED invitesSaved
    /\ sameButInvites /\ sameAccounts

handleInviteRevoke(u, i) ==
    /\ requireRole(u) /\ i \in Pending /\ invites[i] # "used"
    /\ persistInvitesLocked([invites EXCEPT ![i] = "deleted"])
    /\ sameButInvites /\ sameAccounts

gcInvites(i) ==
    /\ \/ invites[i] = "open" /\ invites' = [invites EXCEPT ![i] = "lapsed"]
       \/ invites[i] = "used" /\ invites' = [invites EXCEPT ![i] = "deleted"]
    /\ UNCHANGED invitesSaved
    /\ sameButInvites /\ sameAccounts

(* The invitation and the name are checked, and the locks released ...     *)
handleInvitePreview(w, i, u) ==
    /\ invites[i] = "open" /\ u \notin Known(operators) /\ joins[w] = None
    /\ joins' = [joins EXCEPT ![w] = [invite |-> i, user |-> u]]
    /\ sameAccounts /\ UNCHANGED <<inviteStore, tokenStore, recovery, vetted, answered>>

(* A challenge for a passkey, which the invitee must answer under the name *)
(* it was asked for.                                                       *)
handleInvitePasskeyBegin(i, u, t) ==
    /\ invites[i] = "open" /\ u \notin Known(operators)
    /\ put(t, "register", u) /\ sameCalls
    /\ UNCHANGED <<vars, invitationVars>>

(* ... then the passkey's challenge is taken, the name looked up again, and *)
(* the account saved, or taken back if it cannot be; the invitation is     *)
(* marked as used if it still exists.                                      *)
handleInviteComplete(w, pw, secret, key, t) ==
    /\ joins[w] # None /\ joins' = [joins EXCEPT ![w] = None]
    /\ secret # None \/ key # None
    /\ LET u == joins[w].user
           i == joins[w].invite
       IN  \/ /\ u \notin Known(operators)
              /\ IF key = None THEN sameTickets ELSE take(t, "register", u)
              /\ persistLocked(With(u, [Account("operator", pw, mints) EXCEPT
                     !.invited = TRUE, !.totp = secret, !.passkeys = {key} \ {None}]))
              /\ ~adrift' /\ mint
              /\ persistInvitesLocked(IF i \in Pending THEN [invites EXCEPT ![i] = "used"]
                                      ELSE invites)
              /\ vetted' = vetted \ {u}
           \/ /\ UNCHANGED <<vars, inviteStore, vetted>>
              /\ sameTickets \/ (key # None /\ consumeState(t))
    /\ sameCalls /\ UNCHANGED <<tokenStore, recovery, answered>>

approves(caller, u) ==
    /\ handleOperatorsApprove(caller, u) /\ vetted' = vetted \cup {u}
    /\ UNCHANGED <<inviteStore, tokenStore, recovery, joins, answered, signInVars>>

------------------------------------------------------------------------------
(* API tokens.  A change whose file could not be written is answered with  *)
(* an error and kept in memory; a row that was missed is only logged.      *)

TokenDoc == INSTANCE ConfigDoc WITH
    mem <- apiTokens, file <- apiFile, row <- apiRow, newer <- apiNewer, adrift <- apiAdrift,
    saves <- <<>>, overlapped <- FALSE, Savers <- {},
    Docs <- [ApiTokens -> Users \cup {None}], NoDoc <- None

persistTokensLocked(next) == TokenDoc!LockedWrite(next)

sameButTokens == UNCHANGED <<inviteStore, recovery, joins, vetted>>

handleAPITokenCreate(u, id) ==
    /\ requireAuth(u) /\ apiTokens[id] = None /\ id \notin answered
    /\ Cardinality({a \in ApiTokens : apiTokens[a] = u}) < TokenMax
    /\ persistTokensLocked([apiTokens EXCEPT ![id] = u])
    /\ sameButTokens /\ UNCHANGED <<answered, bearers, misread>> /\ sameAccounts

(* A mutant: OK is answered although the save failed. *)
MutAnswersAnyway(u, id) ==
    /\ requireAuth(u) /\ apiTokens[id] = u
    /\ persistTokensLocked([apiTokens EXCEPT ![id] = None])
    /\ answered' = answered \cup {id}
    /\ sameButTokens /\ UNCHANGED <<bearers, misread>> /\ sameAccounts

handleAPITokenDelete(u, id) ==
    /\ requireAuth(u) /\ apiTokens[id] = u
    /\ persistTokensLocked([apiTokens EXCEPT ![id] = None])
    /\ answered' = IF apiAdrift' THEN answered ELSE answered \cup {id}
    /\ sameButTokens /\ UNCHANGED <<bearers, misread>> /\ sameAccounts

(* A token opens the same handlers as its owner's session.  The tokens are *)
(* copied under the lock and compared without it ...                       *)
candidates(w, id) ==
    /\ bearers[w] = None /\ apiTokens[id] # None
    /\ bearers' = [bearers EXCEPT ![w] =
                     [token |-> id, owner |-> apiTokens[id], late |-> id \in answered]]
    /\ UNCHANGED <<apiTokens, apiFile, apiRow, apiNewer, apiAdrift, misread, answered>>
    /\ sameButTokens /\ sameAccounts

(* ... and one that was recognised is honoured, whether or not it is there *)
(* still; its use is saved if it is.                                       *)
verifyAPIToken(w) ==
    /\ bearers[w] # None /\ Approved(bearers[w].owner)
    /\ \/ apiTokens[bearers[w].token] # None /\ persistTokensLocked(apiTokens)
       \/ /\ apiTokens[bearers[w].token] = None
          /\ UNCHANGED <<apiTokens, apiFile, apiRow, apiNewer, apiAdrift>>
    /\ bearers' = [bearers EXCEPT ![w] = None]
    /\ sameButTokens /\ UNCHANGED <<answered, misread>> /\ sameAccounts

verifyFails(w) ==
    /\ bearers[w] # None /\ ~Approved(bearers[w].owner)
    /\ bearers' = [bearers EXCEPT ![w] = None]
    /\ UNCHANGED <<apiTokens, apiFile, apiRow, apiNewer, apiAdrift, misread, answered>>
    /\ sameButTokens /\ sameAccounts

newAPITokenStore(attached) ==
    \E readable \in BOOLEAN, how \in {"ok", "failed", "blind"} :
        /\ TokenDoc!Boot(attached, how, readable, TokenDoc!Loaded(attached, how, readable))
        /\ misread' = (misread \/ (apiNewer /\ how = "failed"
                                     /\ TokenDoc!FromRow(attached, how, readable)))

------------------------------------------------------------------------------
(* Recovery links.  A submission checks that the link is unburnt, sets the *)
(* password, saves the accounts and burns the link; only the steps that    *)
(* change something hold a lock.                                           *)

NoReset == [at |-> "idle", link |-> None]

submitSeen(w, l) ==
    /\ resets[w] = NoReset /\ l \notin burnt
    /\ resets' = [resets EXCEPT ![w] = [at |-> "checked", link |-> l]]
    /\ UNCHANGED <<burnt, burntSaved, linkUses>>
    /\ UNCHANGED <<inviteStore, tokenStore, joins, vetted, answered>> /\ sameAccounts

submitSet(w, u, pw) ==
    /\ resets[w].at = "checked" /\ u \in Known(operators)
    /\ linkUses[resets[w].link] < MaxUses
    /\ changeThenPersist(w, With(u, [operators[u] EXCEPT !.pw = pw])) /\ calm
    /\ resets' = [resets EXCEPT ![w].at = "set"]
    /\ linkUses' = [linkUses EXCEPT ![resets[w].link] = @ + 1]
    /\ UNCHANGED <<burnt, burntSaved, signInVars>>
    /\ UNCHANGED <<inviteStore, tokenStore, joins, vetted, answered>>

record(w) ==
    /\ resets[w].at = "set" /\ saves[w].at = "idle"
    /\ \/ burnt' = burnt \cup {resets[w].link} /\ burntSaved' \in {burnt', burntSaved}
       \/ UNCHANGED <<burnt, burntSaved>>       \* the accounts were not saved
    /\ resets' = [resets EXCEPT ![w] = NoReset]
    /\ UNCHANGED linkUses
    /\ UNCHANGED <<inviteStore, tokenStore, joins, vetted, answered>> /\ sameAccounts

InvitationsRestart ==
    /\ \E attached \in BOOLEAN : SignInRestart(attached) /\ newAPITokenStore(attached)
    /\ bearers' = [w \in Savers |-> None]
    /\ invites' = [i \in Invites |-> IF invitesSaved[i] = NoInvite /\ invites[i] # NoInvite
                                     THEN "deleted" ELSE invitesSaved[i]]
    /\ invitesSaved' = invites' /\ burnt' = burntSaved
    /\ resets' = [w \in Savers |-> NoReset] /\ joins' = [w \in Savers |-> None]
    /\ UNCHANGED <<vetted, burntSaved, linkUses, answered>>

InviteSteps(t) ==
    \/ \E u \in Users, i \in Invites :
         handleInviteCreate(u, i) \/ handleInviteRevoke(u, i) \/ gcInvites(i)
    \/ \E u \in Users : handleInviteList(u)
    \/ \E w \in Savers, i \in Invites, u \in Users : handleInvitePreview(w, i, u)
    \/ \E i \in Invites, u \in Users : handleInvitePasskeyBegin(i, u, t)
    \/ \E w \in Savers, pw \in Passwords, x \in Secrets \cup {None}, k \in Passkeys \cup {None} :
         handleInviteComplete(w, pw, x, k, t)
    \/ \E caller, u \in Users : approves(caller, u)

TokenSteps(w) ==
    \/ \E u \in Users, id \in ApiTokens : handleAPITokenCreate(u, id) \/ handleAPITokenDelete(u, id)
    \/ verifyAPIToken(w) \/ verifyFails(w) \/ \E id \in ApiTokens : candidates(w, id)

LinkSteps(u) ==
    \/ \E w \in Savers : record(w) \/ \E l \in Links : submitSeen(w, l)
    \/ \E w \in Savers, pw \in Passwords : submitSet(w, u, pw)

------------------------------------------------------------------------------
InvitationsInit ==
    /\ invites = [i \in Invites |-> NoInvite] /\ invitesSaved = invites
    /\ apiTokens = [id \in ApiTokens |-> None] /\ apiFile = apiTokens /\ apiRow = apiTokens
    /\ apiNewer = FALSE /\ apiAdrift = FALSE /\ bearers = [w \in Savers |-> None]
    /\ burnt = {} /\ burntSaved = {} /\ linkUses = [l \in Links |-> 0]
    /\ resets = [w \in Savers |-> NoReset] /\ joins = [w \in Savers |-> None]
    /\ vetted = {} /\ answered = {} /\ misread = FALSE

(* An earlier console has an admin, and no invited account is approved yet. *)
SetUp(ops) ==
    /\ Admins(ops) # {}
    /\ \A u \in Known(ops) : ops[u].codes.gen = 0 /\ ~(ops[u].invited /\ ops[u].approved)

AccountsInit ==
    /\ \E ops \in [Users -> Operator \cup {Absent}], users \in SUBSET Users :
         SetUp(ops) /\ OperatorsInit(ops, users)
    /\ SignInInit /\ InvitationsInit

OperatorWork ==
    /\ AccountSteps \/ \E u \in Users : SecretSteps(u)
    /\ UNCHANGED <<signInVars, invitationVars>>
SignInWork ==
    /\ \/ \E p \in Providers : IdentitySteps(p)
       \/ TelegramSteps \/ TicketOnlySteps \/ TicketSteps \/ Persisting
       \/ \E u \in Users : PasskeySteps(u) \/ KeySteps(u) \/ \E w \in Savers : DeviceSteps(u, w)
    /\ UNCHANGED invitationVars
InvitationWork ==
    \/ \E t \in Tickets : InviteSteps(t)
    \/ \E w \in Savers : TokenSteps(w)
    \/ \E u \in Users : LinkSteps(u)

AccountsNext == OperatorWork \/ SignInWork \/ InvitationWork \/ InvitationsRestart
AccountsSpec == AccountsInit /\ [][AccountsNext]_<<vars, signInVars, invitationVars>>

(* invite.go:430: an invited account stays unapproved until an admin       *)
(* approves it; the boot that approves every account it finds must not     *)
(* take it for one from before approval existed.                           *)
InviteeNeedsApproval ==
    ~lossy => \A u \in Known(operators) :
        operators[u].invited /\ operators[u].approved => u \in vetted

(* A token whose revocation was answered with OK is not accepted from any  *)
(* request that comes after the answer, whatever fails to be saved and     *)
(* through restarts, unless a boot could not mend a row older than the     *)
(* file and loaded it.                                                     *)
RevokedStaysRevoked ==
    ~misread => /\ \A id \in answered : apiTokens[id] = None
                /\ \A w \in Savers : bearers[w] # None => ~bearers[w].late

(* auth_apitoken.go:22: "Revoke is immediate (in-memory + persisted). No   *)
(* grace window."  The code does not keep this: a request that copied the  *)
(* tokens before the revocation is honoured after it was answered.         *)
RevokeIsImmediate ==
    [][\A w \in Savers : verifyAPIToken(w) => bearers[w].token \notin answered]_invitationVars

(* recover_bootstrap.go:273: success "replaces the password hash and burns *)
(* the nonce", so that a link sets one password.                           *)
LinkSetsOnePassword == \A l \in Links : linkUses[l] <= 1
==============================================================================
