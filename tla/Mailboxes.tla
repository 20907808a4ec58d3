------------------------------ MODULE Mailboxes ------------------------------
(***************************************************************************)
(* The mail service's accounts (webmail/backend/invite.go, forgot.go,      *)
(* mailbox_recover.go, role_recover.go, mail.go, admincli.go).             *)
(*                                                                         *)
(* A mailbox is its rows in dovecot's users file: a completion appends     *)
(* one, a reset rewrites the first, and the first is the one that signs    *)
(* in.  Passwords are numbered in the order they are chosen.  The server's *)
(* handlers run as tasks whose steps end where they release a lock or      *)
(* leave the process; `ncn-mail admin` is another process, which shares    *)
(* the files and none of the locks.                                        *)
(***************************************************************************)
EXTENDS Naturals, FiniteSets, Sequences

CONSTANTS
    Boxes, RoleBoxes,        \* mailboxes, and those of roleMailboxes
    Invites, Links, Requests, Tasks,
    forgotMaxPerMbox,
    MaxPw,                   \* bound of nextPw
    None

ASSUME MailboxesAssumption ==
    /\ RoleBoxes \subseteq Boxes /\ MaxPw \in Nat
    /\ None \notin Boxes \cup Invites \cup Links

VARIABLES
    rows,                    \* managedUsersPath: the passwords of each mailbox's rows
    mapped,                  \* mailboxes postfix delivers to
    nextPw,
    tasks,                   \* handlers in progress
    invites, invitesSaved,   \* inviteStore.invites, and invitesPath
    creds, credsSaved,       \* mailService.creds (0: none), and mailCredsPath
    cliEdit,                 \* a command that changes a password
    forgot, forgotSaved,     \* forgotStore.requests, and forgotPath
    links, used, usedSaved,  \* recovery links, and the nonces burnt
    madeBy,                  \* history: mailboxes made with each invitation
    spoiled,                 \* history: invitations whose use was not recorded
    overlapped,              \* history: mailboxes reset during a sign-in or a crash
    shelled,                 \* history: mailboxes reset from the host's shell
    unforgotten,             \* history: mailboxes whose forgetting is not in the file
    revived                  \* history: mailboxes whose old stash a boot may have read

accounts == <<rows, mapped, nextPw>>
inviteVars == <<invites, invitesSaved, madeBy, spoiled>>
stashVars == <<creds, credsSaved>>
resetHistory == <<overlapped, shelled, unforgotten, revived>>
forgotVars == <<forgot, forgotSaved>>
linkVars == <<links, used, usedSaved>>
mailboxVars ==
    <<accounts, tasks, inviteVars, stashVars, cliEdit, forgotVars, linkVars, resetHistory>>

InviteStates == {"none", "open", "expired", "used", "gone"}
Steps == {"idle", "claimed", "made", "reset", "signedIn", "persist", "write", "checked",
          "record", "approved"}
Idle == [at |-> "idle", locks |-> {}, box |-> None, pw |-> 0, copy |-> None,
         behind |-> {}, late |-> FALSE,     \* tasks that copied after it, has one ended
         invite |-> None, link |-> None, req |-> None]

Free(lock) == \A t \in Tasks : lock \notin tasks[t].locks
Start(t, task) == tasks[t] = Idle /\ tasks' = [tasks EXCEPT ![t] = task]
Continue(t, at) == tasks' = [tasks EXCEPT ![t].at = at]
End(t) == tasks' = [tasks EXCEPT ![t] = Idle]

Exists(b) == rows[b] # <<>>
ChoosePassword == nextPw <= MaxPw /\ nextPw' = nextPw + 1

------------------------------------------------------------------------------
(* Invitations, under inviteStore.mu.                                      *)

persistInvites(next) ==
    /\ invites' = next
    /\ invitesSaved' \in {next, invitesSaved}

sameButInvites == UNCHANGED <<accounts, tasks, madeBy, spoiled, stashVars, cliEdit,
                              forgotVars, linkVars, resetHistory>>

(* gcLocked drops what ended more than 30 days ago, which some of them did. *)
issue(i) ==
    /\ Free("invites") /\ invites[i] = "none"
    /\ \E old \in SUBSET {j \in Invites : invites[j] \in {"expired", "used"}} :
         persistInvites([j \in Invites |-> IF j = i THEN "open"
                                           ELSE IF j \in old THEN "gone" ELSE invites[j]])
    /\ sameButInvites

inviteExpires(i) ==
    /\ invites[i] = "open"
    /\ invites' = [invites EXCEPT ![i] = "expired"]
    /\ invitesSaved' = [invitesSaved EXCEPT ![i] = IF @ = "open" THEN "expired" ELSE @]
    /\ sameButInvites

revokeByPrefix(i) ==
    /\ Free("invites") /\ invites[i] \in {"open", "expired", "used"}
    /\ persistInvites([invites EXCEPT ![i] = "gone"])
    /\ sameButInvites

sameButTasks == UNCHANGED <<accounts, inviteVars, stashVars, cliEdit, forgotVars, linkVars,
                            resetHistory>>

(* A mutant: the lock is released once the invitation has been looked at.   *)
MutReleasesInvite(t, i, b) ==
    /\ Free("invites") /\ invites[i] = "open" /\ ~Exists(b)
    /\ Start(t, [Idle EXCEPT !.at = "claimed", !.box = b, !.invite = i])
    /\ sameButTasks

(* A completion by invitation keeps inviteStore.mu from here to its end.    *)
completeByInvite(t, i, b) ==
    /\ Free("invites") /\ invites[i] = "open" /\ ~Exists(b)
    /\ Start(t, [Idle EXCEPT !.at = "claimed", !.box = b, !.invite = i, !.locks = {"invites"}])
    /\ sameButTasks

(* ... one by an operator's signed token holds nothing meanwhile.           *)
completeByToken(t, b) ==
    /\ ~Exists(b)
    /\ Start(t, [Idle EXCEPT !.at = "claimed", !.box = b])
    /\ sameButTasks

(* A failure after the row was appended is answered as an error and leaves *)
(* the row; the invitation stays open.                                     *)
provisionMailbox(t) ==
    /\ tasks[t].at = "claimed" /\ Free("provision") /\ ChoosePassword
    /\ LET b == tasks[t].box
           i == tasks[t].invite
           appended == [rows EXCEPT ![b] = Append(@, nextPw)]
           made == IF i = None THEN madeBy ELSE [madeBy EXCEPT ![i] = @ \cup {b}]
       IN  \/ /\ rows' = appended /\ mapped' = mapped \cup {b} /\ madeBy' = made
              /\ IF i = None THEN End(t) ELSE Continue(t, "made")
              /\ UNCHANGED spoiled
           \/ /\ rows' = appended /\ UNCHANGED mapped /\ madeBy' = made
              /\ spoiled' = spoiled \cup ({i} \ {None}) /\ End(t)
           \/ UNCHANGED <<rows, mapped, madeBy, spoiled>> /\ End(t)
    /\ UNCHANGED <<invites, invitesSaved, stashVars, cliEdit, forgotVars, linkVars, resetHistory>>

markUsed(t) ==
    /\ tasks[t].at = "made"
    /\ LET i == tasks[t].invite
       IN  IF invites[i] \in {"open", "expired", "used"}
           THEN /\ persistInvites([invites EXCEPT ![i] = "used"])
                /\ spoiled' = IF invitesSaved'[i] = "used" THEN spoiled ELSE spoiled \cup {i}
           ELSE UNCHANGED <<invites, invitesSaved, spoiled>>
    /\ End(t)
    /\ UNCHANGED <<accounts, madeBy, stashVars, cliEdit, forgotVars, linkVars, resetHistory>>

------------------------------------------------------------------------------
(* Passwords and the stash.  A reset holds provisionMu until the stash is  *)
(* forgotten on disk; a sign-in that asks to be remembered stashes the     *)
(* password it has just proved.                                            *)

SigningIn(b) == \E t \in Tasks : tasks[t].at = "signedIn" /\ tasks[t].box = b
Resets(t) == "provision" \in tasks[t].locks

replaceMailboxPassword(t, b) ==
    /\ Free("provision") /\ Exists(b) /\ ChoosePassword
    /\ rows' = [rows EXCEPT ![b][1] = nextPw]
    /\ tasks' = [tasks EXCEPT ![t].at = "reset", ![t].box = b, ![t].locks = {"provision"}]
    /\ overlapped' = IF SigningIn(b) THEN overlapped \cup {b} ELSE overlapped
    /\ UNCHANGED <<mapped, inviteVars, stashVars, cliEdit, forgotVars, linkVars,
                   shelled, unforgotten, revived>>

handleAdminResetPassword(t, b) == tasks[t] = Idle /\ replaceMailboxPassword(t, b)

sameButStash == UNCHANGED <<accounts, inviteVars, cliEdit, forgotVars, linkVars, shelled>>

(* A mutant: the reset leaves the stash alone. *)
MutKeepsStash(t) ==
    /\ tasks[t].at = "reset" /\ Continue(t, "persist")
    /\ UNCHANGED <<stashVars, overlapped, unforgotten, revived>> /\ sameButStash

forgetStashEverywhere(t) ==
    /\ tasks[t].at = "reset"
    /\ creds' = [creds EXCEPT ![tasks[t].box] = 0] /\ revived' = revived \ {tasks[t].box}
    /\ Continue(t, "persist")
    /\ UNCHANGED <<credsSaved, overlapped, unforgotten>> /\ sameButStash

handleAuth(t, b) ==
    /\ Exists(b)
    /\ Start(t, [Idle EXCEPT !.at = "signedIn", !.box = b, !.pw = Head(rows[b])])
    /\ overlapped' = IF \E s \in Tasks : tasks[s].at = "reset" /\ tasks[s].box = b
                     THEN overlapped \cup {b} ELSE overlapped
    /\ UNCHANGED <<stashVars, unforgotten, revived>> /\ sameButStash

stash(t) ==
    /\ tasks[t].at = "signedIn"
    /\ creds' = [creds EXCEPT ![tasks[t].box] = tasks[t].pw]
    /\ Continue(t, "persist")
    /\ UNCHANGED <<credsSaved, overlapped, unforgotten, revived>> /\ sameButStash

(* persist copies the map under its lock and writes the copy without: a    *)
(* copy may be overtaken by younger ones.  The caller's reset does not ask *)
(* whether the write failed.                                               *)
persistCopy(t) ==
    /\ tasks[t].at = "persist"
    /\ tasks' = [s \in Tasks |->
                   IF s = t THEN [tasks[t] EXCEPT !.at = "write", !.copy = creds]
                   ELSE IF tasks[s].at = "write" THEN [tasks[s] EXCEPT !.behind = @ \cup {t}]
                   ELSE tasks[s]]
    /\ UNCHANGED <<stashVars, overlapped, unforgotten, revived>> /\ sameButStash

AfterPersist(t) ==
    IF tasks[t].link = None THEN Idle ELSE [Idle EXCEPT !.at = "record", !.link = tasks[t].link]

persistWrite(t) ==
    /\ tasks[t].at = "write"
    /\ LET task == tasks[t]
       IN  \/ /\ credsSaved' = task.copy
              /\ unforgotten' = IF task.late
                                THEN unforgotten \cup {b \in Boxes : task.copy[b] \notin {0, creds[b]}}
                                ELSE {}
           \/ /\ UNCHANGED credsSaved
              /\ unforgotten' = IF Resets(t) THEN unforgotten \cup {task.box} ELSE unforgotten
    /\ tasks' = [s \in Tasks |->
                   IF s = t THEN AfterPersist(t)
                   ELSE IF t \in tasks[s].behind THEN [tasks[s] EXCEPT !.late = TRUE]
                   ELSE tasks[s]]
    /\ UNCHANGED <<creds, overlapped, revived>> /\ sameButStash

(* ncn-mail admin reset-password, and setup-noreply, which keeps the new   *)
(* password stashed (here for a mailbox that exists).  The whole users     *)
(* file is read, and later written back with one row changed; the same is  *)
(* then done to the stash's file, and the running service's memory is left *)
(* alone.                                                                  *)
cliReplaces(b, keeps) ==
    /\ cliEdit = None /\ Exists(b) /\ ChoosePassword
    /\ cliEdit' = [at |-> "users", box |-> b, pw |-> nextPw, keeps |-> keeps,
                   copy |-> [rows EXCEPT ![b][1] = nextPw], stash |-> None]
    /\ UNCHANGED <<rows, mapped, tasks, inviteVars, stashVars, forgotVars, linkVars, resetHistory>>

adminCmdResetPassword(b) == cliReplaces(b, FALSE)
adminCmdSetupNoreply(b) == cliReplaces(b, TRUE)

cliWrites ==
    /\ cliEdit # None /\ cliEdit.at = "users"
    /\ rows' = cliEdit.copy /\ cliEdit' = [cliEdit EXCEPT !.at = "forget"]
    /\ overlapped' = overlapped \cup {b \in Boxes : SigningIn(b)}
                       \cup {b \in Boxes \ {cliEdit.box} : rows[b] # cliEdit.copy[b]}
    /\ shelled' = shelled \cup {cliEdit.box}
    /\ UNCHANGED <<mapped, nextPw, tasks, inviteVars, stashVars, forgotVars, linkVars,
                   unforgotten, revived>>

sameButShell == UNCHANGED <<accounts, tasks, inviteVars, creds, forgotVars, linkVars,
                            overlapped, shelled, revived>>
cliGoesOn(at) == cliEdit' = IF cliEdit.keeps THEN [cliEdit EXCEPT !.at = at] ELSE None

(* It forgets nothing when there is nothing to forget.                     *)
cliReadsStash ==
    /\ cliEdit # None /\ cliEdit.at \in {"forget", "load"}
    /\ IF cliEdit.at = "forget" /\ credsSaved[cliEdit.box] = 0 THEN cliGoesOn("load")
       ELSE cliEdit' = [cliEdit EXCEPT !.stash = credsSaved,
                                       !.at = IF @ = "forget" THEN "forgets" ELSE "stashes"]
    /\ UNCHANGED <<credsSaved, unforgotten>> /\ sameButShell

(* The file is written back as it was read, whatever the service has saved *)
(* since.                                                                  *)
cliWritesStash(pw) ==
    \/ /\ credsSaved' = [cliEdit.stash EXCEPT ![cliEdit.box] = pw]
       /\ unforgotten' = unforgotten \cup
            {b \in Boxes \ {cliEdit.box} : cliEdit.stash[b] \notin {0, credsSaved[b]}}
    \/ UNCHANGED <<credsSaved, unforgotten>>

cliForgets ==
    /\ cliEdit # None /\ cliEdit.at = "forgets"
    /\ cliWritesStash(0) /\ cliGoesOn("load") /\ sameButShell

cliStashes ==
    /\ cliEdit # None /\ cliEdit.at = "stashes"
    /\ cliWritesStash(cliEdit.pw) /\ cliEdit' = None /\ sameButShell

------------------------------------------------------------------------------
(* Forgotten passwords: requests wait for an admin; role mailboxes get     *)
(* their link at once.  A link is its signed claims, so minting one        *)
(* changes nothing but that it exists; it ends after 15 minutes.           *)

NoLink == [box |-> None, live |-> FALSE]

mintMailboxRecoverURL(l, b) ==
    /\ links[l] = NoLink
    /\ links' = [links EXCEPT ![l] = [box |-> b, live |-> TRUE]]

sameButForgot == UNCHANGED <<accounts, inviteVars, stashVars, cliEdit, used, usedSaved,
                             resetHistory>>
persistForgot(next) ==
    /\ forgot' = next
    /\ forgotSaved' \in {next, forgotSaved}

(* A mailbox's requests of a day are capped, and the surplus silently      *)
(* dropped; a request is kept when its record cannot be saved.             *)
handleRequest(q, l, b) ==
    /\ \A p \in forgot : p.id # q
    /\ Cardinality({p \in forgot : p.box = b}) < forgotMaxPerMbox
    /\ IF b \in RoleBoxes THEN mintMailboxRecoverURL(l, b) ELSE UNCHANGED links
    /\ persistForgot(forgot \cup {[id |-> q, box |-> b, self |-> b \in RoleBoxes]})
    /\ UNCHANGED tasks /\ sameButForgot

dismissByID(p) ==
    /\ persistForgot(forgot \ {p})
    /\ UNCHANGED <<tasks, links>> /\ sameButForgot

gcLocked(p) ==
    /\ forgot' = forgot \ {p} /\ UNCHANGED <<forgotSaved, tasks, links>> /\ sameButForgot

(* The request is read under the lock, the link minted and mailed without, *)
(* and the request removed under it again if the mail went out.            *)
approveByID(t, p) ==
    /\ Start(t, [Idle EXCEPT !.at = "approved", !.req = p])
    /\ UNCHANGED <<forgotVars, links>> /\ sameButForgot

approvalMailed(t, l) ==
    /\ tasks[t].at = "approved" /\ mintMailboxRecoverURL(l, tasks[t].req.box)
    /\ persistForgot(forgot \ {tasks[t].req}) \/ UNCHANGED forgotVars
    /\ End(t) /\ sameButForgot

handleRoleRecover(l, b) ==
    /\ b \in RoleBoxes /\ mintMailboxRecoverURL(l, b)
    /\ UNCHANGED <<tasks, forgotVars>> /\ sameButForgot

adminCmdMintRecover(l, b) ==
    /\ Exists(b) /\ mintMailboxRecoverURL(l, b)
    /\ UNCHANGED <<tasks, forgotVars>> /\ sameButForgot

linkExpires(l) ==
    /\ links[l].live /\ links' = [links EXCEPT ![l].live = FALSE]
    /\ UNCHANGED <<tasks, forgotVars>> /\ sameButForgot

(* A submission checks the link, resets, and then burns it.                *)
handleSubmit(t, l) ==
    /\ links[l].live /\ l \notin used
    /\ Start(t, [Idle EXCEPT !.at = "checked", !.box = links[l].box, !.link = l])
    /\ sameButTasks

submitResets(t) ==
    /\ tasks[t].at = "checked"
    /\ \/ replaceMailboxPassword(t, tasks[t].box)
       \/ End(t) /\ sameButTasks     \* there is no such row, or a file operation failed

record(t) ==
    /\ tasks[t].at = "record"
    /\ used' = used \cup {tasks[t].link} /\ usedSaved' \in {used', usedSaved}
    /\ End(t)
    /\ UNCHANGED <<accounts, inviteVars, stashVars, cliEdit, forgotVars, links, resetHistory>>

------------------------------------------------------------------------------
(* A restart of the service drops its tasks and reads the files.           *)
MailRestart ==
    /\ invites' = invitesSaved /\ creds' = credsSaved /\ forgot' = forgotSaved
    /\ used' = usedSaved /\ tasks' = [t \in Tasks |-> Idle]
    /\ spoiled' = spoiled \cup {tasks[t].invite : t \in {s \in Tasks : tasks[s].at = "made"}}
    /\ overlapped' = overlapped \cup {tasks[t].box : t \in {s \in Tasks : Resets(s)}}
    /\ revived' = revived \cup unforgotten
    /\ UNCHANGED <<accounts, invitesSaved, credsSaved, forgotSaved, usedSaved, links, cliEdit,
                   madeBy, shelled, unforgotten>>

MailboxesInit ==
    /\ rows \in {[b \in Boxes |-> IF b \in have THEN <<1>> ELSE <<>>] : have \in {{}, Boxes}}
    /\ mapped = {b \in Boxes : rows[b] # <<>>} /\ nextPw = 2
    /\ tasks = [t \in Tasks |-> Idle]
    /\ invites = [i \in Invites |-> "none"] /\ invitesSaved = invites
    /\ creds \in {[b \in Boxes |-> 0], [b \in Boxes |-> Len(rows[b])]} /\ credsSaved = creds
    /\ cliEdit = None /\ forgot = {} /\ forgotSaved = {}
    /\ links = [l \in Links |-> NoLink] /\ used = {} /\ usedSaved = {}
    /\ madeBy = [i \in Invites |-> {}] /\ spoiled = {}
    /\ overlapped = {} /\ shelled = {} /\ unforgotten = {} /\ revived = {}

InviteSteps(t) ==
    \/ \E i \in Invites : issue(i) \/ inviteExpires(i) \/ revokeByPrefix(i)
    \/ \E b \in Boxes : completeByToken(t, b)
    \/ \E i \in Invites, b \in Boxes : completeByInvite(t, i, b)
    \/ provisionMailbox(t) \/ markUsed(t)

StashSteps(t) ==
    \/ \E b \in Boxes : handleAdminResetPassword(t, b) \/ handleAuth(t, b)
    \/ stash(t) \/ forgetStashEverywhere(t) \/ persistCopy(t) \/ persistWrite(t)

ShellSteps ==
    \/ \E b \in Boxes : adminCmdResetPassword(b) \/ adminCmdSetupNoreply(b)
    \/ cliWrites \/ cliReadsStash \/ cliForgets \/ cliStashes

ForgotSteps(t) ==
    \/ \E q \in Requests, l \in Links, b \in Boxes : handleRequest(q, l, b)
    \/ \E p \in forgot : dismissByID(p) \/ gcLocked(p) \/ (~p.self /\ approveByID(t, p))
    \/ \E l \in Links : approvalMailed(t, l)

LinkSteps(t) ==
    \/ \E l \in Links, b \in Boxes : handleRoleRecover(l, b) \/ adminCmdMintRecover(l, b)
    \/ \E l \in Links : linkExpires(l) \/ handleSubmit(t, l)
    \/ submitResets(t) \/ record(t)
    \/ forgetStashEverywhere(t) \/ persistCopy(t) \/ persistWrite(t)

------------------------------------------------------------------------------
(* An invitation makes one mailbox, whoever completes it and however often, *)
(* as long as its use was recorded (invite.go:630-669).                     *)
InviteMakesOneMailbox ==
    \A i \in Invites \ spoiled : Cardinality(madeBy[i]) <= 1

Settled(b) == \A t \in Tasks : Resets(t) => tasks[t].box # b
Current(pw, b) == pw = 0 \/ (Exists(b) /\ pw = Head(rows[b]))

(* Once a reset of the service is over, the password it replaced is in the *)
(* stash's memory no more, and not in its file unless this forgetting's    *)
(* save failed or an older copy of the file was written over it            *)
(* (invite.go:491, mail.go:146-163); after a boot that read such a file,   *)
(* nothing is promised until the next reset, and nothing of a reset that   *)
(* ran beside a sign-in.                                                   *)
ServerResetWipesStash ==
    \A b \in Boxes \ (overlapped \cup shelled \cup revived) :
        Settled(b) => /\ Current(creds[b], b)
                      /\ b \notin unforgotten => Current(credsSaved[b], b)

(* What mail.go:256-258 says of a reset, that it drops the cached          *)
(* credential and persists the change: it does not hold, since the error   *)
(* is dropped and copies overtake one another.                             *)
ForgettingIsPersisted ==
    \A b \in Boxes \ (overlapped \cup shelled) :
        Settled(b) => Current(creds[b], b) /\ Current(credsSaved[b], b)

(* The memory is wiped after a reset from the shell too, as mail.go:247-253 *)
(* says of the command.                                                     *)
ShellResetWipesStash ==
    \A b \in Boxes \ (overlapped \cup revived) :
        Settled(b) /\ cliEdit = None => Current(creds[b], b)
==============================================================================
