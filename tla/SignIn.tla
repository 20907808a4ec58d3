-------------------------------- MODULE SignIn --------------------------------
(***************************************************************************)
(* Signing in to the console and linking identities: password, TOTP and    *)
(* trusted browser (backend/auth.go), passkey (passkey.go), SSH key        *)
(* (auth_ssh.go), GitHub (oauth.go), Telegram (oauth_telegram.go), webmail *)
(* (auth_sso.go), and the console as identity provider (idp_provider.go).  *)
(* A challenge, a state, a ticket and a code are all a ticket here: held   *)
(* in memory, with a kind, an owner and a lifetime.                        *)
(***************************************************************************)
EXTENDS Operators

CONSTANT Tickets

VARIABLES
    tickets,    \* every ticket that was ever issued, and what became of it
    uses,       \* history: times each ticket was honoured
    intents,    \* users whose browser holds a login intent that verifies
    calls,      \* OAuth callbacks in progress, by goroutine
    nonces      \* ssoNonceCache.seen

signInVars == <<tickets, uses, intents, calls, nonces>>

Kinds == {"telegram", "register", "login", "ssh", "sshTicket", "state", "bindState",
          "code", "sso", "stepUp"}
Ticket == [at : {"none"}, kind : {None}, who : {None}]
    \cup [at : {"open", "lapsed", "gone"}, kind : Kinds, who : Users \cup Subjects \cup {None}]
NoCall == [at |-> "idle", user |-> None]
Call == [at : {"idle", "exchange", "identified"}, user : Users \cup {None}]

Unissued == [at |-> "none", kind |-> None, who |-> None]
Open == {t \in Tickets : tickets[t].at = "open"}

put(t, kind, who) ==
    /\ tickets[t] = Unissued
    /\ tickets' = [tickets EXCEPT ![t] = [at |-> "open", kind |-> kind, who |-> who]]
    /\ UNCHANGED uses

(* Taking a ticket removes it, whatever the handler then makes of it: one  *)
(* that is live and of the right kind and owner is honoured, any other is  *)
(* wasted.                                                                 *)
(* A mutant: the ticket is looked at and left. *)
MutPeek(t, kind, who) ==
    /\ tickets[t] = [at |-> "open", kind |-> kind, who |-> who]
    /\ UNCHANGED tickets /\ uses' = [uses EXCEPT ![t] = @ + 1]

take(t, kind, who) ==
    /\ tickets[t] = [at |-> "open", kind |-> kind, who |-> who]
    /\ tickets' = [tickets EXCEPT ![t].at = "gone"]
    /\ uses' = [uses EXCEPT ![t] = @ + 1]

consumeState(t) ==
    /\ tickets[t].at \in {"open", "lapsed"}
    /\ tickets' = [tickets EXCEPT ![t].at = "gone"]
    /\ UNCHANGED uses

gc == [t \in Tickets |->
    IF tickets[t].at = "lapsed" /\ tickets[t].kind # "sso"
    THEN [tickets[t] EXCEPT !.at = "gone"] ELSE tickets[t]]

sameTickets == UNCHANGED <<tickets, uses>>
sameCalls == UNCHANGED <<intents, calls, nonces>>

issueAndSetSession(u) ==
    sessions' = sessions \cup {u} /\ UNCHANGED <<day, mints, spent, reused>>

Approved(u) == u \in Known(operators) /\ operators[u].approved

------------------------------------------------------------------------------
(* Password, with TOTP or a trusted browser.  A login intent is signed and *)
(* not stored: it verifies until it expires, also after the code it waited *)
(* for was entered, which only clears the browser's cookie.                *)

handleLogin(w, u, pw) ==
    /\ Approved(u) /\ operators[u].pw = pw
    /\ sameTickets /\ UNCHANGED <<calls, nonces>>
    /\ \/ /\ operators[u].totp = None /\ operators[u].passkeys = {}
          /\ issueAndSetSession(u) /\ UNCHANGED <<storeVars, lossy, intents>>
       \/ /\ operators[u].totp # None          \* the code came with the password
          /\ issueAndSetSession(u) /\ UNCHANGED <<storeVars, lossy, intents>>
       \/ /\ operators[u].totp # None
          /\ \E t \in Devices : checkDeviceTrust(w, u, t)
          /\ issueAndSetSession(u) /\ UNCHANGED intents
       \/ /\ operators[u].totp # None
          /\ \E t \in Devices : TrustRefused(u, t)
          /\ \E panics \in BOOLEAN : intents' = IF panics THEN intents ELSE intents \cup {u}
          /\ calm

handleLoginVerifyTOTP(w, u) ==
    /\ u \in intents /\ u \in Known(operators) /\ operators[u].totp # None
    /\ issueAndSetSession(u) /\ sameTickets /\ sameCalls
    /\ \/ UNCHANGED <<storeVars, lossy>>
       \/ \E t \in Devices : registerTrustedDevice(w, u, t)

IntentExpires(u) ==
    /\ u \in intents /\ intents' = intents \ {u}
    /\ sameTickets /\ UNCHANGED <<calls, nonces, vars>>

handleLogout(u) ==
    /\ u \in sessions /\ sessions' = sessions \ {u}
    /\ sameTickets /\ sameCalls /\ UNCHANGED <<storeVars, day, history>>

------------------------------------------------------------------------------
(* Passkeys.  The challenge to register one is also given to an invitee    *)
(* (Invitations); who answers it is not asked whose it is: the passkey     *)
(* becomes the one of the account it was issued for, if there is one.      *)

handlePasskeyRegBegin(u, t) ==
    loggedIn(u) /\ put(t, "register", u) /\ sameCalls /\ UNCHANGED vars

handlePasskeyRegFinish(u, t, k) ==
    /\ requireAuth(u) /\ sameCalls /\ calm
    /\ \/ \E owner \in Users : take(t, "register", owner) /\ addPasskey(owner, k)
       \/ consumeState(t) /\ UNCHANGED <<storeVars, lossy>>

handlePasskeyLoginBegin(t) ==
    put(t, "login", None) /\ sameCalls /\ UNCHANGED vars

handlePasskeyLoginFinish(t, u, k) ==
    /\ sameCalls
    /\ \/ /\ take(t, "login", None)
          /\ Approved(u) /\ k \in operators[u].passkeys
          /\ persistLocked(operators)
          /\ issueAndSetSession(u)
       \/ consumeState(t) /\ UNCHANGED vars

------------------------------------------------------------------------------
(* SSH keys: a signed challenge is exchanged for a ticket, and the ticket  *)
(* for a session.                                                          *)

handleSSHLoginBegin(u, t) ==
    put(t, "ssh", u) /\ sameCalls /\ UNCHANGED vars

handleSSHLoginFinish(u, s, t) ==
    /\ sameCalls /\ calm
    /\ \/ /\ tickets[s] = [at |-> "open", kind |-> "ssh", who |-> u]
          /\ Approved(u) /\ operators[u].keys # {}
          /\ tickets[t] = Unissued
          /\ tickets' = [gc EXCEPT ![s].at = "gone",
                                   ![t] = [at |-> "open", kind |-> "sshTicket", who |-> u]]
          /\ uses' = [uses EXCEPT ![s] = @ + 1]
          /\ persistLocked(operators)
       \/ consumeState(s) /\ UNCHANGED <<storeVars, lossy>>

handleSSHLoginRedeem(u, t) ==
    take(t, "sshTicket", u) /\ issueAndSetSession(u) /\ sameCalls /\ UNCHANGED <<storeVars, lossy>>

------------------------------------------------------------------------------
(* GitHub.  A callback consumes its state, asks the provider who the user  *)
(* is, and acts on the accounts as they are by then.                       *)

handleStart(t) ==
    put(t, "state", None) /\ sameCalls /\ UNCHANGED vars

handleBindStart(u, t) ==
    requireAuth(u) /\ put(t, "bindState", u) /\ sameCalls /\ UNCHANGED vars

handleCallback(w, t) ==
    /\ calls[w] = NoCall /\ UNCHANGED <<intents, nonces, vars>>
    /\ \/ \E u \in Users \cup {None} :
            /\ take(t, IF u = None THEN "state" ELSE "bindState", u)
            /\ calls' = [calls EXCEPT ![w] = [at |-> "exchange", user |-> u]]
       \/ consumeState(t) /\ UNCHANGED calls

exchangeFails(w) ==
    /\ calls[w].at = "exchange" /\ calls' = [calls EXCEPT ![w] = NoCall]
    /\ sameTickets /\ UNCHANGED <<intents, nonces, vars>>

identified(w, u, p, x) ==
    /\ calls[w].at = "exchange" /\ sameTickets /\ UNCHANGED <<intents, nonces>>
    /\ \/ /\ calls[w].user = u /\ bindIdentity(w, u, p, x) /\ calm
          /\ calls' = [calls EXCEPT ![w].at = "identified"]
       \/ /\ calls[w].user = None /\ findOperatorByIdentity(p, x, u) /\ Approved(u)
          /\ issueAndSetSession(u) /\ touchIdentity(w)
          /\ calls' = [calls EXCEPT ![w] = [at |-> "identified", user |-> u]]

pictured(w) ==
    /\ calls[w].at = "identified" /\ setAvatar(w, calls[w].user)
    /\ calls' = [calls EXCEPT ![w] = NoCall]
    /\ sameTickets /\ UNCHANGED <<intents, nonces>> /\ calm

handleIdentities(w, u, p) ==
    calls[w] = NoCall /\ unbindIdentity(w, u, p) /\ sameTickets /\ sameCalls

------------------------------------------------------------------------------
(* Telegram: the bot mints a ticket for its user, the browser spends it,   *)
(* also when the identity turns out to be somebody else's.                 *)

mintTGBindTicket(t, x) ==
    put(t, "telegram", x) /\ sameCalls /\ UNCHANGED vars

handleTGBindTicket(w, u, t, x) ==
    /\ requireAuth(u) /\ sameCalls /\ calm /\ calls[w] = NoCall
    /\ \/ take(t, "telegram", x) /\ bindIdentity(w, u, "telegram", x)
       \/ consumeState(t) /\ UNCHANGED <<storeVars, lossy>>

------------------------------------------------------------------------------
(* The webmail's sign-in to the console, and the console's to the wiki.    *)
(* A webmail ticket is signed, not stored: the console remembers those it  *)
(* took until they lapse, and accepts a lapsed one for five more seconds.  *)

mintSSOTicket(t, u) == put(t, "sso", u) /\ sameCalls /\ UNCHANGED vars

claim(t) ==
    LET seen == nonces \cap Open IN t \notin seen /\ nonces' = seen \cup {t}

handleIngest(t, u) ==
    /\ tickets[t].kind = "sso" /\ tickets[t].at \in {"open", "lapsed"} /\ tickets[t].who = u
    /\ claim(t)
    /\ IF Approved(u) THEN issueAndSetSession(u) ELSE calm
    /\ sameTickets /\ UNCHANGED <<intents, calls, storeVars, lossy>>

handleAuthorize(u, t) ==
    requireAuth(u) /\ put(t, "code", u) /\ sameCalls /\ UNCHANGED vars

handleToken(t) ==
    /\ sameCalls /\ UNCHANGED vars
    /\ (\E u \in Users : take(t, "code", u)) \/ consumeState(t)

------------------------------------------------------------------------------
(* Time, and a restart, which forgets all but the signed tickets.          *)

Lapse(t) ==
    /\ \/ t \in Open /\ tickets' = [tickets EXCEPT ![t].at = "lapsed"]
       \/ /\ tickets[t].at = "lapsed" /\ tickets[t].kind = "sso"
          /\ tickets' = [tickets EXCEPT ![t].at = "gone"]
    /\ UNCHANGED uses /\ sameCalls /\ UNCHANGED vars

collect == gc # tickets /\ tickets' = gc /\ UNCHANGED uses /\ sameCalls /\ UNCHANGED vars

SignInRestart(attached) ==
    /\ Restart(attached)
    /\ tickets' = [t \in Tickets |->
            IF tickets[t].at = "none" \/ tickets[t].kind = "sso" THEN tickets[t]
            ELSE [tickets[t] EXCEPT !.at = "gone"]]
    /\ calls' = [w \in Savers |-> NoCall] /\ nonces' = {}
    /\ UNCHANGED <<uses, intents>>

IdentitySteps(p) ==
    \/ \E t \in Tickets : handleStart(t)
    \/ \E u \in Users, t \in Tickets : handleBindStart(u, t)
    \/ \E w \in Savers, t \in Tickets : handleCallback(w, t)
    \/ \E w \in Savers : exchangeFails(w) \/ pictured(w)
    \/ \E w \in Savers, u \in Users, x \in Subjects : identified(w, u, p, x)

TelegramSteps ==
    \/ \E t \in Tickets, x \in Subjects : mintTGBindTicket(t, x)
    \/ \E w \in Savers, u \in Users, t \in Tickets, x \in Subjects : handleTGBindTicket(w, u, t, x)
    \/ \E w \in Savers, u \in Users : setBotNick(w, u) /\ UNCHANGED signInVars
    \/ \E w \in Savers, u \in Users : handleIdentities(w, u, "telegram")

TicketOnlySteps ==
    \/ \E u \in Users, t \in Tickets :
         handleAuthorize(u, t) \/ mintSSOTicket(t, u) \/ handleIngest(t, u)
    \/ \E t \in Tickets : handleToken(t)
    \/ \E u \in Users : handleLogout(u)

PasskeySteps(u) ==
    \/ \E t \in Tickets, k \in Passkeys :
         \/ handlePasskeyLoginFinish(t, u, k)
         \/ \E caller \in Users : handlePasskeyRegFinish(caller, t, k)
    \/ \E t \in Tickets : handlePasskeyLoginBegin(t) \/ handlePasskeyRegBegin(u, t)
    \/ \E k \in Passkeys : handlePasskeyDelete(u, k) /\ UNCHANGED signInVars

KeySteps(u) ==
    \/ \E t \in Tickets :
         \/ handleSSHLoginBegin(u, t) \/ handleSSHLoginRedeem(u, t)
         \/ \E s \in Tickets : handleSSHLoginFinish(u, s, t)
    \/ \E k \in SshKeys :
         (handleSSHKeyAdd(u, k) \/ handleSSHKeyDelete(u, k)) /\ UNCHANGED signInVars

DeviceSteps(u, w) ==
    \/ \E pw \in Passwords : handleLogin(w, u, pw)
    \/ handleLoginVerifyTOTP(w, u) \/ IntentExpires(u)
    \/ \E t \in Devices : handleRevokeDevice(w, u, t) /\ UNCHANGED signInVars
    \/ Tomorrow /\ UNCHANGED signInVars

TicketSteps == collect \/ \E t \in Tickets : Lapse(t)
Persisting == (\E w \in Savers : persist(w)) /\ UNCHANGED signInVars

------------------------------------------------------------------------------
SignInInit ==
    /\ tickets = [t \in Tickets |-> Unissued] /\ uses = [t \in Tickets |-> 0]
    /\ intents = {} /\ calls = [w \in Savers |-> NoCall] /\ nonces = {}

SignInTypeOK ==
    /\ tickets \in [Tickets -> Ticket] /\ uses \in [Tickets -> Nat]
    /\ intents \subseteq Users /\ calls \in [Savers -> Call] /\ nonces \subseteq Tickets

(* What the console stores to be taken, which neither the webmail's ticket *)
(* nor a login intent is, is one-shot: the handlers implement OneShot.     *)
Promise == INSTANCE OneShot WITH open <- {t \in Open : tickets[t].kind # "sso"}
TicketsAreOneShot == Promise!Spec

(* auth.go:876 and 1557 call a login intent one-shot, its nonce a guard    *)
(* against "same ticket replay".  The code does not keep this: nothing     *)
(* remembers the nonce, and the intent signs in until it expires.          *)
IntentsAreOneShot ==
    [][\A w \in Savers, u \in Users : handleLoginVerifyTOTP(w, u) => u \notin intents']_vars
==============================================================================
