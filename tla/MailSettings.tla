----------------------------- MODULE MailSettings -----------------------------
(***************************************************************************)
(* What a mailbox's owner and the host's shell set up besides passwords:   *)
(* passkeys (webmail/backend/passkey.go), API keys (api_token.go,          *)
(* admincli_apikey.go), forwarding (forward.go, mail_forward_verify.go),   *)
(* and the owner's letters (mail_drafts.go, mail_move.go, mail_send.go).   *)
(* One mailbox, as the files and folders of two share nothing.             *)
(***************************************************************************)
EXTENDS Mailboxes

CONSTANTS
    MailKeys,                \* passkeys
    Challenges,
    MaxCount,                \* bound of the authenticators' counters
    SendKeys, Calls,         \* API keys, and requests that carry one
    Addresses, Editors,      \* forward addresses, and requests that change them
    Letters

VARIABLES
    counts, countsSaved,     \* passkeyService.creds (sign counts), and passkeysPath
    challenges, asserted,    \* pending challenges, validated assertions
    authCount,               \* the counter of each key's authenticator
    keyFile, keyMem, keyNewer, \* apiTokensPath, apiTokenStore.tokens, mtime later than modTime
    calls, keyEdit,          \* keys being verified, a command rewriting the file
    granted, crossed,        \* history: what the commands left; keys saved during a verification
    sieve, pending, mailed,  \* forward list, pending list, verification links out
    edits,                   \* requests that change the lists
    opened,                  \* history: addresses whose link was opened
    folder, saving           \* where each letter is, a draft save in progress

passkeyVars == <<counts, countsSaved, challenges, asserted, authCount>>
keyVars == <<keyFile, keyMem, keyNewer, calls, keyEdit, granted, crossed>>
forwardVars == <<sieve, pending, mailed, edits, opened>>
letterVars == <<folder, saving>>
settingVars == <<passkeyVars, keyVars, forwardVars, letterVars>>

------------------------------------------------------------------------------
(* Passkeys.  A challenge is consumed by its first use; the assertion is   *)
(* checked against a copy of the records, its counter then under the lock, *)
(* and it signs in even if its record is gone by then.                     *)

Unregistered == MaxCount + 1
Registered == {k \in MailKeys : counts[k] # Unregistered}

persistPasskeys(next) ==
    /\ counts' = next
    /\ countsSaved' \in {next, countsSaved}

handleRegBegin(c) ==
    /\ challenges[c] = None /\ challenges' = [challenges EXCEPT ![c] = "register"]
    /\ UNCHANGED <<counts, countsSaved, asserted, authCount>>

handleRegFinish(c, k) ==
    /\ challenges[c] = "register" /\ challenges' = [challenges EXCEPT ![c] = None]
    /\ k \notin Registered
    /\ persistPasskeys([counts EXCEPT ![k] = authCount[k]])
    /\ UNCHANGED <<asserted, authCount>>

handleLoginBegin(c, b) ==
    /\ challenges[c] = None /\ Registered # {} /\ creds[b] # 0
    /\ challenges' = [challenges EXCEPT ![c] = "login"]
    /\ UNCHANGED <<counts, countsSaved, asserted, authCount>>

(* The authenticator answers with its next count, or 0 if it keeps none; a *)
(* copy of it answers with a count already given.                          *)
handleLoginFinish(c, k) ==
    /\ challenges[c] = "login" /\ k \in Registered
    /\ challenges' = [challenges EXCEPT ![c] = None]
    /\ \/ authCount[k] \in 1 .. MaxCount - 1 /\ authCount' = [authCount EXCEPT ![k] = @ + 1]
       \/ UNCHANGED authCount
    /\ asserted' = asserted \cup {[key |-> k, count |-> authCount'[k]]}
    /\ UNCHANGED <<counts, countsSaved>>

signsIn(a) ==
    /\ a \in asserted /\ asserted' = asserted \ {a}
    /\ IF a.key \notin Registered \/ (a.count > 0 /\ a.count <= counts[a.key])
       THEN UNCHANGED <<counts, countsSaved>>
       ELSE persistPasskeys([counts EXCEPT ![a.key] = a.count])
    /\ UNCHANGED <<challenges, authCount>>

passkeyDelete(k) ==
    /\ k \in Registered /\ persistPasskeys([counts EXCEPT ![k] = Unregistered])
    /\ UNCHANGED <<challenges, asserted, authCount>>

gcChallenges(c) ==
    /\ challenges[c] # None /\ challenges' = [challenges EXCEPT ![c] = None]
    /\ UNCHANGED <<counts, countsSaved, asserted, authCount>>

------------------------------------------------------------------------------
(* API keys.  The command loads the file and writes back its whole copy;   *)
(* the service reloads a file that is newer than its memory, compares the  *)
(* secret without the lock, and then saves its memory with the time of use. *)

keyCommandReads(k, op) ==
    /\ keyEdit = None
    /\ IF op = "mint" THEN k \notin granted \cup keyFile \cup keyMem ELSE k \in keyFile
    /\ keyEdit' = [key |-> k, op |-> op,
                   copy |-> IF op = "mint" THEN keyFile \cup {k} ELSE keyFile \ {k}]
    /\ UNCHANGED <<keyFile, keyMem, keyNewer, calls, granted, crossed>>

keyCommandSaves ==
    /\ keyEdit # None /\ keyEdit' = None
    /\ keyFile' = keyEdit.copy /\ keyNewer' = TRUE
    /\ granted' = IF keyEdit.op = "mint" THEN granted \cup {keyEdit.key}
                  ELSE granted \ {keyEdit.key}
    /\ crossed' = IF \E c \in Calls : calls[c] # None THEN crossed \cup {keyEdit.key}
                  ELSE crossed
    /\ UNCHANGED <<keyMem, calls>>

(* A mutant: the service trusts its memory. *)
MutTrustsMemory(c, k) ==
    /\ calls[c] = None /\ k \in keyMem /\ calls' = [calls EXCEPT ![c] = k]
    /\ UNCHANGED <<keyFile, keyMem, keyNewer, keyEdit, granted, crossed>>

verify(c, k) ==
    /\ calls[c] = None
    /\ keyMem' = IF keyNewer THEN keyFile ELSE keyMem
    /\ keyNewer' = FALSE
    /\ calls' = IF k \in keyMem' THEN [calls EXCEPT ![c] = k] ELSE calls
    /\ UNCHANGED <<keyFile, keyEdit, granted, crossed>>

verified(c) ==
    /\ calls[c] # None /\ calls' = [calls EXCEPT ![c] = None]
    /\ \/ keyFile' = keyMem /\ keyNewer' = FALSE
       \/ UNCHANGED <<keyFile, keyNewer>>
    /\ UNCHANGED <<keyMem, keyEdit, granted, crossed>>

------------------------------------------------------------------------------
(* Forwarding.  A request reads both lists, writes the addresses it keeps  *)
(* to the active one and the rest to the pending one, and mails a link to  *)
(* those that are new; opening the link moves its address.  No lock.       *)

NoEdit == [at |-> "idle", want |-> {}, seen |-> {}, fresh |-> {}]

handleForwardPut(e, want) ==
    /\ edits[e] = NoEdit
    /\ edits' = [edits EXCEPT ![e] = [NoEdit EXCEPT !.at = "put", !.want = want, !.seen = sieve]]
    /\ UNCHANGED <<sieve, pending, mailed, opened>>

(* A mutant: a pending address counts as a verified one. *)
MutReadPending(e) ==
    /\ edits[e].at = "put"
    /\ edits' = [edits EXCEPT ![e].at = "putSieve", ![e].seen = @ \cup pending]
    /\ UNCHANGED <<sieve, pending, mailed, opened>>

readPendingForwards(e) ==
    /\ edits[e].at = "put"
    /\ edits' = [edits EXCEPT ![e].at = "putSieve",
                             ![e].fresh = (edits[e].want \ edits[e].seen) \ pending]
    /\ UNCHANGED <<sieve, pending, mailed, opened>>

writeForwardAddresses(e) ==
    /\ edits[e].at = "putSieve"
    /\ \/ /\ sieve' = edits[e].want \cap edits[e].seen
          /\ edits' = [edits EXCEPT ![e].at = "putPending"]
       \/ UNCHANGED sieve /\ edits' = [edits EXCEPT ![e] = NoEdit]
    /\ UNCHANGED <<pending, mailed, opened>>

(* Mailing follows the write; an address whose mail fails stays pending.   *)
writePendingForwards(e) ==
    /\ edits[e].at = "putPending"
    /\ \/ /\ pending' = edits[e].want \ edits[e].seen
          /\ \E sent \in SUBSET edits[e].fresh : mailed' = mailed \cup sent
       \/ UNCHANGED <<pending, mailed>>
    /\ edits' = [edits EXCEPT ![e] = NoEdit]
    /\ UNCHANGED <<sieve, opened>>

handleForwardVerify(e, a) ==
    /\ edits[e] = NoEdit /\ a \in mailed
    /\ edits' = [edits EXCEPT ![e] =
           [NoEdit EXCEPT !.at = IF a \in sieve THEN "unpend" ELSE "verify",
                          !.want = {a}, !.seen = sieve]]
    /\ opened' = opened \cup {a}
    /\ UNCHANGED <<sieve, pending, mailed>>

verifyPending(e) ==
    /\ edits[e].at = "verify"
    /\ edits' = [edits EXCEPT ![e] = IF edits[e].want \subseteq pending
                                     THEN [@ EXCEPT !.at = "activate"] ELSE NoEdit]
    /\ UNCHANGED <<sieve, pending, mailed, opened>>

verifyActivates(e) ==
    /\ edits[e].at = "activate"
    /\ \/ /\ sieve' = edits[e].seen \cup edits[e].want
          /\ edits' = [edits EXCEPT ![e].at = "unpend"]
       \/ UNCHANGED sieve /\ edits' = [edits EXCEPT ![e] = NoEdit]
    /\ UNCHANGED <<pending, mailed, opened>>

removePendingReads(e) ==
    /\ edits[e].at = "unpend"
    /\ edits' = [edits EXCEPT ![e].at = "unpending", ![e].fresh = pending \ edits[e].want]
    /\ UNCHANGED <<sieve, pending, mailed, opened>>

removePendingForward(e) ==
    /\ edits[e].at = "unpending" /\ edits' = [edits EXCEPT ![e] = NoEdit]
    /\ pending' \in {edits[e].fresh, pending}
    /\ UNCHANGED <<sieve, mailed, opened>>

(* A pending entry and a link each last forwardVerifyTTL; a request that   *)
(* keeps the entry renews it, and never the link.                          *)
forwardTTL(a) ==
    /\ \/ a \in pending /\ pending' = pending \ {a} /\ UNCHANGED mailed
       \/ a \in mailed /\ mailed' = mailed \ {a} /\ UNCHANGED pending
    /\ UNCHANGED <<sieve, edits, opened>>

------------------------------------------------------------------------------
(* Letters.  A draft is appended before the one it replaces is expunged,   *)
(* and its failures after the append are not reported; a deletion moves to *)
(* the trash, or expunges where that fails; a sent letter leaves by SMTP   *)
(* before its copy is filed.                                               *)

NoSave == [old |-> None, new |-> None]
Folders == {"none", "INBOX", "Drafts", "Sent", "Trash", "expunged"}
Filed == {m \in Letters : folder[m] \in {"INBOX", "Drafts", "Sent", "Trash"}}

handleDraftSave(new, old) ==
    /\ saving = NoSave /\ folder[new] = "none"
    /\ old = None \/ (old \in Filed /\ folder[old] = "Drafts")
    /\ folder' = [folder EXCEPT ![new] = "Drafts"]
    /\ saving' = IF old = None THEN NoSave ELSE [old |-> old, new |-> new]

draftReplaces ==
    /\ saving # NoSave /\ saving' = NoSave
    /\ folder' \in {folder} \cup (IF folder[saving.old] = "Drafts"
                                  THEN {[folder EXCEPT ![saving.old] = "expunged"]} ELSE {})

handleDraftDelete(m) ==
    /\ folder[m] = "Drafts" /\ folder' = [folder EXCEPT ![m] = "expunged"] /\ UNCHANGED saving

handleMove(m, to) ==
    /\ m \in Filed /\ to # folder[m] /\ folder' = [folder EXCEPT ![m] = to] /\ UNCHANGED saving

handleDelete(m) ==
    /\ m \in Filed /\ folder' \in {[folder EXCEPT ![m] = f] : f \in {"Trash", "expunged"}}
    /\ UNCHANGED saving

handleSend(m) ==
    /\ folder[m] = "none" /\ folder' \in {[folder EXCEPT ![m] = f] : f \in {"Sent", "expunged"}}
    /\ UNCHANGED saving

(* A letter that arrives is the mail server's doing.                       *)
delivered(m) ==
    /\ folder[m] = "none" /\ folder' = [folder EXCEPT ![m] = "INBOX"] /\ UNCHANGED saving

------------------------------------------------------------------------------
SettingsInit ==
    /\ counts = [k \in MailKeys |-> Unregistered] /\ countsSaved = counts
    /\ challenges = [c \in Challenges |-> None] /\ asserted = {}
    /\ authCount \in [MailKeys -> {0, 1}]
    /\ keyFile = {} /\ keyMem = {} /\ keyNewer = FALSE
    /\ calls = [c \in Calls |-> None] /\ keyEdit = None /\ granted = {} /\ crossed = {}
    /\ sieve = {} /\ pending = {} /\ mailed = {} /\ opened = {}
    /\ edits = [e \in Editors |-> NoEdit]
    /\ folder = [m \in Letters |-> "none"] /\ saving = NoSave

(* A restart reads the files; what was in progress stops where it was.     *)
SettingsRestart ==
    /\ counts' = countsSaved /\ challenges' = [c \in Challenges |-> None] /\ asserted' = {}
    /\ keyMem' = keyFile /\ keyNewer' = FALSE /\ calls' = [c \in Calls |-> None]
    /\ edits' = [e \in Editors |-> NoEdit] /\ saving' = NoSave
    /\ UNCHANGED <<countsSaved, authCount, keyFile, keyEdit, granted, crossed, sieve, pending,
                   mailed, opened, folder>>

PasskeySteps(b) ==
    \/ \E c \in Challenges : handleRegBegin(c) \/ handleLoginBegin(c, b) \/ gcChallenges(c)
    \/ \E c \in Challenges, k \in MailKeys : handleRegFinish(c, k) \/ handleLoginFinish(c, k)
    \/ \E a \in asserted : signsIn(a)
    \/ \E k \in MailKeys : passkeyDelete(k)

KeySteps ==
    \/ \E k \in SendKeys, op \in {"mint", "revoke"} : keyCommandReads(k, op)
    \/ keyCommandSaves
    \/ \E c \in Calls : verified(c) \/ \E k \in SendKeys : verify(c, k)

ForwardSteps(e) ==
    \/ \E want \in SUBSET Addresses : handleForwardPut(e, want)
    \/ readPendingForwards(e) \/ writeForwardAddresses(e) \/ writePendingForwards(e)
    \/ \E a \in Addresses : handleForwardVerify(e, a) \/ forwardTTL(a)
    \/ verifyPending(e) \/ verifyActivates(e) \/ removePendingReads(e) \/ removePendingForward(e)

LetterSteps(m) ==
    \/ \E old \in Letters \cup {None} : handleDraftSave(m, old)
    \/ \E to \in {"INBOX", "Trash"} : handleMove(m, to)
    \/ draftReplaces \/ handleDraftDelete(m) \/ handleDelete(m) \/ handleSend(m) \/ delivered(m)

------------------------------------------------------------------------------
(* The whole service: its requests, the shell's commands and the passing   *)
(* of time in any order, and restarts at any point.                        *)
AccountSteps ==
    \/ \E t \in Tasks : InviteSteps(t) \/ StashSteps(t) \/ ForgotSteps(t) \/ LinkSteps(t)
    \/ ShellSteps

SettingSteps ==
    \/ (\E b \in Boxes : PasskeySteps(b)) /\ UNCHANGED <<keyVars, forwardVars, letterVars>>
    \/ KeySteps /\ UNCHANGED <<passkeyVars, forwardVars, letterVars>>
    \/ (\E e \in Editors : ForwardSteps(e)) /\ UNCHANGED <<passkeyVars, keyVars, letterVars>>
    \/ (\E m \in Letters : LetterSteps(m)) /\ UNCHANGED <<passkeyVars, keyVars, forwardVars>>

MailNext ==
    \/ AccountSteps /\ UNCHANGED settingVars
    \/ SettingSteps /\ UNCHANGED mailboxVars
    \/ MailRestart /\ SettingsRestart

MailSpec == MailboxesInit /\ SettingsInit /\ [][MailNext]_<<mailboxVars, settingVars>>

------------------------------------------------------------------------------
(* The keys that open the sending endpoint are the ones the shell minted   *)
(* and did not revoke: the service takes a command's change up on the next *)
(* request and never writes it back, except for a command whose save fell  *)
(* inside a verification (api_token.go:117-136, 261).                       *)
KeysFollowTheCommands ==
    \A k \in SendKeys \ crossed :
        /\ k \in keyFile <=> k \in granted
        /\ ~keyNewer => (k \in keyMem <=> k \in granted)

(* Mail is forwarded only to addresses whose owner opened a verification   *)
(* link, whatever requests overlap (forward.go:194-228).                    *)
ForwardsAreConfirmed == sieve \subseteq opened
==============================================================================
