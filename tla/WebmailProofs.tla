---------------------------- MODULE WebmailProofs ----------------------------
(* For any mailboxes, invitations, keys, addresses and number of requests: *)
(* an invitation makes one mailbox, a replaced password is stashed         *)
(* nowhere, the keys are the shell's, and mail goes to confirmed addresses.*)
EXTENDS MailSettings, FiniteSetTheorems, SequenceTheorems, TLAPS

------------------------------------------------------------------------------
(* The accounts.                                                           *)

Requested == [id : Requests, box : Boxes, self : BOOLEAN]
TaskRec == [at : Steps, locks : SUBSET {"invites", "provision"}, box : Boxes \cup {None},
            pw : Nat, copy : [Boxes -> Nat] \cup {None}, behind : SUBSET Tasks, late : BOOLEAN,
            invite : Invites \cup {None}, link : Links \cup {None}, req : Requested \cup {None}]
ShellEdit == [at : {"users", "forget", "forgets", "load", "stashes"}, box : Boxes, pw : Nat,
              keeps : BOOLEAN, copy : [Boxes -> Seq(Nat)], stash : [Boxes -> Nat] \cup {None}]

(* A task has the fields that its stage uses.                              *)
HasFields(task) ==
    /\ task.at \in {"claimed", "made", "reset", "signedIn", "checked"} => task.box \in Boxes
    /\ task.at = "made" => task.invite \in Invites
    /\ task.at = "write" => task.copy \in [Boxes -> Nat]
    /\ task.at = "record" => task.link \in Links
    /\ task.at = "approved" => task.req \in Requested
    /\ task.at = "reset" => "provision" \in task.locks
    /\ "provision" \in task.locks => task.at \in {"reset", "persist", "write"} /\ task.box \in Boxes

TypedTask == {task \in TaskRec : HasFields(task)}

MailTypeOK ==
    /\ rows \in [Boxes -> Seq(Nat)] /\ nextPw \in Nat
    /\ tasks \in [Tasks -> TypedTask]
    /\ invites \in [Invites -> InviteStates] /\ invitesSaved \in [Invites -> InviteStates]
    /\ madeBy \in [Invites -> SUBSET Boxes]
    /\ creds \in [Boxes -> Nat] /\ credsSaved \in [Boxes -> Nat]
    /\ cliEdit \in ShellEdit \cup {None}
    /\ cliEdit # None /\ cliEdit.at \in {"forgets", "stashes"} => cliEdit.stash \in [Boxes -> Nat]
    /\ forgot \subseteq Requested /\ forgotSaved \subseteq Requested
    /\ links \in [Links -> [box : Boxes, live : BOOLEAN] \cup {NoLink}]

(* A completion by invitation holds the invitations' lock ...              *)
Completing(t, i) == tasks[t].at \in {"claimed", "made"} /\ tasks[t].invite = i
Claims ==
    /\ \A t \in Tasks, i \in Invites : Completing(t, i) => 
         "invites" \in tasks[t].locks /\ invites[i] \in {"open", "expired"}
    /\ \A s, t \in Tasks : "invites" \in tasks[s].locks \cap tasks[t].locks => s = t

(* ... and has made its mailbox, the only one, by the time the invitation  *)
(* is marked, in memory and in the file.                                   *)
Ended == {"used", "gone"}
Unmade(i) == madeBy[i] = {} /\ \A t \in Tasks : Completing(t, i) => tasks[t].at = "claimed"
MadeOnce(i) ==
    /\ \E b \in Boxes : madeBy[i] = {b}
    /\ \A t \in Tasks : Completing(t, i) => tasks[t].at = "made"
    /\ \/ invites[i] \in Ended /\ invitesSaved[i] \in Ended
       \/ \E t \in Tasks : Completing(t, i)

InvitationsInv == Claims /\ \A i \in Invites \ spoiled : Unmade(i) \/ MadeOnce(i)

(* A password that a sign-in proved is the mailbox's.                      *)
Proved(b) == \A t \in Tasks : tasks[t].at = "signedIn" /\ tasks[t].box = b =>
                 rows[b] # <<>> /\ tasks[t].pw = Head(rows[b])

(* One reset runs at a time.  Once it has forgotten, the memory holds no   *)
(* old password; a copy that nothing has overtaken holds none either, or   *)
(* was made before a reset that has yet to write; and so does the file.    *)
OneReset == \A s, t \in Tasks : Resets(s) /\ Resets(t) => s = t
Forgot(b) == \A t \in Tasks : tasks[t].at = "reset" => tasks[t].box # b
Overtaken(t, b) ==
    \E s \in Tasks \ {t} : /\ Resets(s) /\ tasks[s].box = b
                           /\ tasks[s].at = "write" => s \in tasks[t].behind
CopyOK(t, b) == tasks[t].at = "write" /\ ~tasks[t].late =>
                    Current(tasks[t].copy[b], b) \/ Overtaken(t, b)
StashOK(b) ==
    /\ Forgot(b) => Current(creds[b], b)
    /\ \A t \in Tasks : CopyOK(t, b)
    /\ Settled(b) /\ b \notin unforgotten => Current(credsSaved[b], b)

StashInv ==
    /\ OneReset
    /\ \A b \in Boxes \ (overlapped \cup shelled) : Proved(b) /\ (b \notin revived => StashOK(b))

(* A command edits the stash of a mailbox whose row it has changed.        *)
ShellInv == cliEdit # None /\ cliEdit.at # "users" => cliEdit.box \in shelled

MailInv == MailTypeOK /\ InvitationsInv /\ StashInv /\ ShellInv

------------------------------------------------------------------------------
(* The API keys and the forwarding.                                        *)

(* A command's copy of the file is right but for the key it changes; the   *)
(* memory is right unless it has a newer file to reload and no request     *)
(* under way.                                                              *)
KeysInv ==
    /\ calls \in [Calls -> SendKeys \cup {None}] /\ keyNewer \in BOOLEAN
    /\ keyEdit # None =>
         \A k \in SendKeys \ crossed : k \in keyEdit.copy <=>
             IF k = keyEdit.key THEN keyEdit.op = "mint" ELSE k \in granted
    /\ \A k \in SendKeys \ crossed :
         /\ k \in keyFile <=> k \in granted
         /\ ~keyNewer \/ (\E c \in Calls : calls[c] # None) => (k \in keyMem <=> k \in granted)

(* What a request read as the active list, and an address it will add to   *)
(* it, had been opened.                                                    *)
EditStages == {"idle", "put", "putSieve", "putPending", "verify", "activate", "unpend", "unpending"}
EditRec == [at : EditStages, want : SUBSET Addresses, seen : SUBSET Addresses,
            fresh : SUBSET Addresses]
ForwardsInv ==
    /\ edits \in [Editors -> EditRec]
    /\ pending \subseteq Addresses
    /\ sieve \subseteq opened /\ opened \subseteq Addresses
    /\ \A e \in Editors :
         /\ edits[e].seen \subseteq opened
         /\ edits[e].at \in {"verify", "activate"} => edits[e].want \subseteq opened

LEMMA KeyStepKeepsKeys == KeysInv /\ KeySteps => KeysInv'
<1> SUFFICES ASSUME KeysInv, KeySteps PROVE KeysInv'
  OBVIOUS
<1>1. CASE \E k \in SendKeys, op \in {"mint", "revoke"} : keyCommandReads(k, op)
  <2> PICK k \in SendKeys, op \in {"mint", "revoke"} : keyCommandReads(k, op)
    BY <1>1
  <2>1. /\ keyEdit' = [key |-> k, op |-> op,
                       copy |-> IF op = "mint" THEN keyFile \cup {k} ELSE keyFile \ {k}]
        /\ UNCHANGED <<keyFile, keyMem, keyNewer, calls, granted, crossed>>
    BY DEF keyCommandReads
  <2> QED BY <2>1 DEF KeysInv
<1>2. CASE keyCommandSaves
  <2>1. /\ keyEdit # None /\ keyEdit' = None /\ keyFile' = keyEdit.copy /\ keyNewer' = TRUE
        /\ granted' = IF keyEdit.op = "mint" THEN granted \cup {keyEdit.key}
                      ELSE granted \ {keyEdit.key}
        /\ crossed' = IF \E c \in Calls : calls[c] # None THEN crossed \cup {keyEdit.key}
                      ELSE crossed
        /\ UNCHANGED <<keyMem, calls>>
    BY <1>2 DEF keyCommandSaves
  <2>2. ASSUME NEW k \in SendKeys \ crossed'
        PROVE  /\ k \in keyFile' <=> k \in granted'
               /\ (\E c \in Calls : calls'[c] # None) => (k \in keyMem' <=> k \in granted')
    <3>1. k \notin crossed
      BY <2>1
    <3>2. CASE k = keyEdit.key
      BY <2>1, <3>1, <3>2 DEF KeysInv
    <3>3. CASE k # keyEdit.key
      BY <2>1, <3>1, <3>3 DEF KeysInv
    <3> QED BY <3>2, <3>3
  <2> QED BY <2>1, <2>2 DEF KeysInv
<1>3. CASE \E c \in Calls : verified(c)
  <2> PICK c \in Calls : verified(c)
    BY <1>3
  <2>1. /\ calls[c] # None /\ calls' = [calls EXCEPT ![c] = None]
        /\ \/ keyFile' = keyMem /\ keyNewer' = FALSE
           \/ UNCHANGED <<keyFile, keyNewer>>
        /\ UNCHANGED <<keyMem, keyEdit, granted, crossed>>
    BY DEF verified
  <2>2. (\E d \in Calls : calls'[d] # None) => \E d \in Calls : calls[d] # None
    BY <2>1
  <2> QED BY <2>1, <2>2 DEF KeysInv
<1>4. CASE \E c \in Calls, k \in SendKeys : verify(c, k)
  <2> PICK c \in Calls, key \in SendKeys : verify(c, key)
    BY <1>4
  <2>1. /\ calls[c] = None
        /\ keyMem' = IF keyNewer THEN keyFile ELSE keyMem
        /\ keyNewer' = FALSE
        /\ calls' = [calls EXCEPT ![c] = key] \/ calls' = calls
        /\ UNCHANGED <<keyFile, keyEdit, granted, crossed>>
    BY DEF verify
  <2>2. \A k \in SendKeys \ crossed : k \in keyMem' <=> k \in granted
    BY <2>1 DEF KeysInv
  <2> QED BY <2>1, <2>2 DEF KeysInv
<1> QED BY <1>1, <1>2, <1>3, <1>4 DEF KeySteps

LEMMA EditKeepsForwards ==
  ASSUME ForwardsInv, NEW e \in Editors, NEW edit \in EditRec, edits' = [edits EXCEPT ![e] = edit],
         UNCHANGED <<sieve, pending>>, opened \subseteq opened', opened' \subseteq Addresses,
         edit.seen \subseteq opened', edit.at \in {"verify", "activate"} => edit.want \subseteq opened'
  PROVE  ForwardsInv'
<1>1. edits' \in [Editors -> EditRec]
  BY DEF ForwardsInv
<1>2. \A d \in Editors : edits'[d] = IF d = e THEN edit ELSE edits[d]
  BY DEF ForwardsInv
<1> QED BY <1>1, <1>2 DEF ForwardsInv

LEMMA ForwardStepKeepsForwards ==
  ASSUME ForwardsInv, NEW e \in Editors, ForwardSteps(e)
  PROVE  ForwardsInv'
<1>0. sieve \in SUBSET Addresses /\ sieve \subseteq opened /\ opened \subseteq Addresses
  BY DEF ForwardsInv
<1>1. CASE \E want \in SUBSET Addresses : handleForwardPut(e, want)
  <2> PICK want \in SUBSET Addresses : handleForwardPut(e, want)
    BY <1>1
  <2> DEFINE edit == [NoEdit EXCEPT !.at = "put", !.want = want, !.seen = sieve]
  <2>1. edits' = [edits EXCEPT ![e] = edit] /\ UNCHANGED <<sieve, pending, opened>>
    BY DEF handleForwardPut
  <2>2. edit \in EditRec /\ edit.at = "put" /\ edit.seen = sieve
    BY <1>0 DEF EditStages, EditRec, NoEdit
  <2> HIDE DEF edit
  <2> QED BY <1>0, <2>1, <2>2, EditKeepsForwards
<1>2. CASE readPendingForwards(e)
  <2>1. (edits[e].want \ edits[e].seen) \ pending \in SUBSET Addresses
    BY DEF ForwardsInv, EditRec
  <2> QED BY <1>2, <2>1 DEF readPendingForwards, ForwardsInv, EditStages, EditRec
<1>3. CASE writeForwardAddresses(e)
  BY <1>3 DEF writeForwardAddresses, ForwardsInv, EditStages, EditRec, NoEdit
<1>4. CASE writePendingForwards(e)
  BY <1>4 DEF writePendingForwards, ForwardsInv, EditStages, EditRec, NoEdit
<1>5. CASE \E a \in Addresses : handleForwardVerify(e, a)
  <2> PICK a \in Addresses : handleForwardVerify(e, a)
    BY <1>5
  <2> DEFINE edit(at) == [NoEdit EXCEPT !.at = at, !.want = {a}, !.seen = sieve]
  <2>1. PICK at \in {"unpend", "verify"} : edits' = [edits EXCEPT ![e] = edit(at)]
    BY DEF handleForwardVerify
  <2>2. opened' = opened \cup {a} /\ UNCHANGED <<sieve, pending>>
    BY DEF handleForwardVerify
  <2>3. edit(at) \in EditRec /\ edit(at).at = at /\ edit(at).want = {a} /\ edit(at).seen = sieve
    BY <1>0 DEF EditStages, EditRec, NoEdit
  <2> HIDE DEF edit
  <2> QED BY <1>0, <2>1, <2>2, <2>3, EditKeepsForwards
<1>6. CASE \E a \in Addresses : forwardTTL(a)
  BY <1>6 DEF forwardTTL, ForwardsInv, EditStages, EditRec
<1>7. CASE verifyPending(e)
  BY <1>7 DEF verifyPending, ForwardsInv, EditStages, EditRec, NoEdit
<1>8. CASE verifyActivates(e)
  BY <1>8 DEF verifyActivates, ForwardsInv, EditStages, EditRec, NoEdit
<1>9. CASE removePendingReads(e)
  <2>1. pending \ edits[e].want \in SUBSET Addresses
    BY DEF ForwardsInv, EditRec
  <2> QED BY <1>9, <2>1 DEF removePendingReads, ForwardsInv, EditStages, EditRec
<1>10. CASE removePendingForward(e)
  BY <1>10 DEF removePendingForward, ForwardsInv, EditStages, EditRec, NoEdit
<1> QED BY <1>1, <1>2, <1>3, <1>4, <1>5, <1>6, <1>7, <1>8, <1>9, <1>10 DEF ForwardSteps

LEMMA SettingsStepInv ==
  KeysInv /\ ForwardsInv /\ [MailNext]_<<mailboxVars, settingVars>> => KeysInv' /\ ForwardsInv'
<1> SUFFICES ASSUME KeysInv, ForwardsInv, [MailNext]_<<mailboxVars, settingVars>>
             PROVE  KeysInv' /\ ForwardsInv'
  OBVIOUS
<1>1. ASSUME UNCHANGED keyVars PROVE KeysInv'
  BY <1>1 DEF KeysInv, keyVars
<1>2. ASSUME UNCHANGED forwardVars PROVE ForwardsInv'
  BY <1>2 DEF ForwardsInv, forwardVars
<1>3. CASE UNCHANGED settingVars
  BY <1>1, <1>2, <1>3 DEF settingVars
<1>4. CASE SettingSteps
  BY <1>1, <1>2, <1>4, KeyStepKeepsKeys, ForwardStepKeepsForwards DEF SettingSteps
<1>5. CASE SettingsRestart
  <2>1. KeysInv'
    BY <1>5 DEF SettingsRestart, KeysInv
  <2>2. ForwardsInv'
    BY <1>5 DEF SettingsRestart, ForwardsInv, EditRec, EditStages, NoEdit
  <2> QED BY <2>1, <2>2
<1> QED BY <1>3, <1>4, <1>5 DEF MailNext

LEMMA SettingsInitInv == SettingsInit => KeysInv /\ ForwardsInv
<1>1. SettingsInit => KeysInv
  BY DEF SettingsInit, KeysInv
<1>2. SettingsInit => ForwardsInv
  BY DEF SettingsInit, ForwardsInv, NoEdit, EditRec, EditStages
<1> QED BY <1>1, <1>2

(* For any keys and any number of requests that carry one: the keys that   *)
(* open the sending endpoint are those the shell left, unless a command's  *)
(* save fell inside a verification.                                        *)
THEOREM KeysAreTheShells == MailSpec => []KeysFollowTheCommands
<1>1. KeysInv => KeysFollowTheCommands
  BY DEF KeysInv, KeysFollowTheCommands
<1> QED BY <1>1, SettingsInitInv, SettingsStepInv, PTL DEF MailSpec

(* For any addresses and any number of overlapping requests: mail is       *)
(* forwarded only to addresses whose link was opened.                      *)
THEOREM ForwardsWereConfirmed == MailSpec => []ForwardsAreConfirmed
<1>1. ForwardsInv => ForwardsAreConfirmed
  BY DEF ForwardsInv, ForwardsAreConfirmed
<1> QED BY <1>1, SettingsInitInv, SettingsStepInv, PTL DEF MailSpec

------------------------------------------------------------------------------
(* The types of the accounts' variables.                                   *)

LEMMA IdleType == Idle \in TypedTask
  BY MailboxesAssumption DEF Idle, TypedTask, TaskRec, HasFields, Steps

LEMMA TaskStarts ==
  ASSUME MailTypeOK, NEW t \in Tasks, NEW task \in TypedTask, tasks' = [tasks EXCEPT ![t] = task]
  PROVE  tasks' \in [Tasks -> TypedTask]
  BY DEF MailTypeOK

LEMMA TaskEnds ==
  ASSUME MailTypeOK, NEW t \in Tasks, End(t)
  PROVE  tasks' \in [Tasks -> TypedTask]
  BY IdleType, TaskStarts DEF End

LEMMA TaskContinues ==
  ASSUME MailTypeOK, NEW t \in Tasks, NEW at \in Steps, Continue(t, at),
         at = "made" => tasks[t].box \in Boxes /\ tasks[t].invite \in Invites,
         at \in {"made", "persist"}, at = "made" => ~Resets(t)
  PROVE  tasks' \in [Tasks -> TypedTask]
<1> DEFINE task == [tasks[t] EXCEPT !.at = at]
<1>1. tasks[t] \in TaskRec
  BY DEF MailTypeOK, TypedTask
<1>2. /\ task \in TaskRec /\ task.at = at /\ task.locks = tasks[t].locks
      /\ task.box = tasks[t].box /\ task.invite = tasks[t].invite
  BY <1>1 DEF TaskRec
<1>3. HasFields(task)
  BY <1>2 DEF HasFields, MailTypeOK, TypedTask, Resets
<1>4. tasks' = [tasks EXCEPT ![t] = task]
  BY DEF Continue
<1> QED BY <1>2, <1>3, <1>4, TaskStarts DEF TypedTask

LEMMA ReplaceTypes ==
  ASSUME MailTypeOK, NEW t \in Tasks, NEW b \in Boxes, replaceMailboxPassword(t, b)
  PROVE  MailTypeOK'
<1> DEFINE task == [tasks[t] EXCEPT !.at = "reset", !.box = b, !.locks = {"provision"}]
<1>1. tasks[t] \in TaskRec
  BY DEF MailTypeOK, TypedTask
<1>2. task \in TaskRec /\ HasFields(task)
  BY <1>1 DEF TaskRec, HasFields, Steps
<1>3. tasks' = [tasks EXCEPT ![t] = task]
  BY DEF replaceMailboxPassword
<1>4. tasks' \in [Tasks -> TypedTask]
  BY <1>2, <1>3, TaskStarts DEF TypedTask
<1>5. [rows[b] EXCEPT ![1] = nextPw] \in Seq(Nat)
  <2>1. rows[b] \in Seq(Nat) /\ rows[b] # <<>> /\ nextPw \in Nat
    BY DEF MailTypeOK, replaceMailboxPassword, Exists
  <2>2. 1 \in 1 .. Len(rows[b])
    BY <2>1, EmptySeq
  <2> QED BY <2>1, <2>2, ExceptSeq
<1>6. rows' \in [Boxes -> Seq(Nat)] /\ nextPw' \in Nat
  BY <1>5 DEF MailTypeOK, replaceMailboxPassword, ChoosePassword
<1> QED BY <1>4, <1>6 DEF MailTypeOK, replaceMailboxPassword, inviteVars, stashVars, forgotVars, linkVars

LEMMA InviteTypes ==
  ASSUME MailTypeOK, NEW t \in Tasks, InviteSteps(t)
  PROVE  MailTypeOK'
<1>1. CASE \E i \in Invites : issue(i) \/ inviteExpires(i) \/ revokeByPrefix(i)
  <2> PICK i \in Invites : issue(i) \/ inviteExpires(i) \/ revokeByPrefix(i)
    BY <1>1
  <2>1. invites' \in [Invites -> InviteStates] /\ invitesSaved' \in [Invites -> InviteStates]
    BY DEF MailTypeOK, issue, inviteExpires, revokeByPrefix, persistInvites, InviteStates
  <2>2. UNCHANGED <<rows, nextPw, tasks, madeBy, creds, credsSaved, cliEdit, forgot, forgotSaved, links>>
    BY DEF issue, inviteExpires, revokeByPrefix, sameButInvites, accounts, stashVars, forgotVars, linkVars
  <2> QED BY <2>1, <2>2 DEF MailTypeOK
<1>2. CASE \E b \in Boxes : completeByToken(t, b)
  <2> PICK b \in Boxes : completeByToken(t, b)
    BY <1>2
  <2>1. [Idle EXCEPT !.at = "claimed", !.box = b] \in TypedTask
    BY DEF Idle, TypedTask, TaskRec, HasFields, Steps
  <2>2. tasks' \in [Tasks -> TypedTask]
    BY <2>1, TaskStarts DEF completeByToken, Start
  <2> QED BY <2>2 DEF completeByToken, MailTypeOK, sameButTasks, accounts, inviteVars, stashVars, forgotVars, linkVars
<1>3. CASE \E i \in Invites, b \in Boxes : completeByInvite(t, i, b)
  <2> PICK i \in Invites, b \in Boxes : completeByInvite(t, i, b)
    BY <1>3
  <2>1. [Idle EXCEPT !.at = "claimed", !.box = b, !.invite = i, !.locks = {"invites"}] \in TypedTask
    BY DEF Idle, TypedTask, TaskRec, HasFields, Steps
  <2>2. tasks' \in [Tasks -> TypedTask]
    BY <2>1, TaskStarts DEF completeByInvite, Start
  <2> QED BY <2>2 DEF completeByInvite, MailTypeOK, sameButTasks, accounts, inviteVars, stashVars, forgotVars, linkVars
<1>4. CASE provisionMailbox(t)
  <2> DEFINE b == tasks[t].box
             i == tasks[t].invite
  <2>1. b \in Boxes /\ i \in Invites \cup {None}
    BY <1>4 DEF provisionMailbox, MailTypeOK, TypedTask, TaskRec, HasFields
  <2>2. rows' \in [Boxes -> Seq(Nat)] /\ nextPw' \in Nat
    <3>1. Append(rows[b], nextPw) \in Seq(Nat) /\ nextPw \in Nat
      BY <2>1 DEF MailTypeOK
    <3>2. /\ rows' = [rows EXCEPT ![b] = Append(rows[b], nextPw)] \/ rows' = rows
          /\ nextPw' = nextPw + 1
      BY <1>4 DEF provisionMailbox, ChoosePassword
    <3>3. rows \in [Boxes -> Seq(Nat)]
      BY DEF MailTypeOK
    <3>4. nextPw' \in Nat
      BY <3>1, <3>2
    <3>5. rows' \in [Boxes -> Seq(Nat)]
      BY <2>1, <3>1, <3>2, <3>3
    <3> QED BY <3>4, <3>5
  <2>3. madeBy' \in [Invites -> SUBSET Boxes]
    BY <1>4, <2>1, MailboxesAssumption DEF provisionMailbox, MailTypeOK
  <2>4. tasks' \in [Tasks -> TypedTask]
    <3>1. CASE End(t)
      BY <3>1, TaskEnds
    <3>2. CASE Continue(t, "made") /\ i # None
      <4>1. ~Resets(t)
        BY <1>4 DEF provisionMailbox, Free, Resets
      <4> QED BY <2>1, <3>2, <4>1, TaskContinues DEF Steps
    <3> QED BY <1>4, <3>1, <3>2 DEF provisionMailbox
  <2> QED BY <1>4, <2>2, <2>3, <2>4 DEF provisionMailbox, MailTypeOK, stashVars, forgotVars, linkVars
<1>5. CASE markUsed(t)
  <2>1. invites' \in [Invites -> InviteStates] /\ invitesSaved' \in [Invites -> InviteStates]
    <3>1. \/ UNCHANGED <<invites, invitesSaved>>
          \/ /\ invites' = [invites EXCEPT ![tasks[t].invite] = "used"]
             /\ invitesSaved' \in {invites', invitesSaved}
      BY <1>5 DEF markUsed, persistInvites
    <3> QED BY <3>1 DEF MailTypeOK, InviteStates
  <2>2. tasks' \in [Tasks -> TypedTask]
    BY <1>5, TaskEnds DEF markUsed
  <2> QED BY <1>5, <2>1, <2>2 DEF markUsed, MailTypeOK, accounts, stashVars, forgotVars, linkVars
<1> QED BY <1>1, <1>2, <1>3, <1>4, <1>5 DEF InviteSteps

(* What a save does to the tasks: the one that copies, or writes, and the  *)
(* others, which only note that they have been overtaken.                  *)
LEMMA CopyTasks ==
  ASSUME MailTypeOK, NEW t \in Tasks, persistCopy(t)
  PROVE  /\ \A s \in Tasks : tasks'[s] \in TypedTask
         /\ tasks'[t].at = "write" /\ tasks'[t].copy = creds
         /\ \A s \in Tasks :
               /\ tasks'[s].locks = tasks[s].locks /\ tasks'[s].box = tasks[s].box
               /\ tasks'[s].invite = tasks[s].invite /\ tasks'[s].pw = tasks[s].pw
         /\ \A s \in Tasks \ {t} :
               /\ tasks'[s].at = tasks[s].at /\ tasks'[s].copy = tasks[s].copy
               /\ tasks'[s].late = tasks[s].late
               /\ tasks[s].behind \subseteq tasks'[s].behind
               /\ tasks[s].at = "write" => t \in tasks'[s].behind
               /\ tasks[s].at # "write" => tasks'[s] = tasks[s]
<1> DEFINE copied == [tasks[t] EXCEPT !.at = "write", !.copy = creds]
           noted(s) == [tasks[s] EXCEPT !.behind = @ \cup {t}]
<1>1. /\ \A s \in Tasks : tasks[s] \in TaskRec /\ HasFields(tasks[s])
      /\ creds \in [Boxes -> Nat] /\ tasks[t].at = "persist"
  BY DEF MailTypeOK, TypedTask, persistCopy
<1>2. /\ tasks'[t] = copied
      /\ \A s \in Tasks \ {t} : tasks'[s] = IF tasks[s].at = "write" THEN noted(s) ELSE tasks[s]
  BY DEF persistCopy
<1>3. /\ copied \in TaskRec /\ copied.at = "write" /\ copied.copy = creds
      /\ copied.locks = tasks[t].locks /\ copied.box = tasks[t].box
      /\ copied.invite = tasks[t].invite /\ copied.pw = tasks[t].pw
  <2>1. "write" \in Steps /\ creds \in [Boxes -> Nat] \cup {None} /\ tasks[t] \in TaskRec
    BY <1>1 DEF Steps
  <2>2. copied \in TaskRec
    BY <2>1 DEF TaskRec
  <2> QED BY <2>1, <2>2 DEF TaskRec
<1>4. HasFields(copied)
  BY <1>1, <1>3 DEF HasFields
<1>5. ASSUME NEW s \in Tasks
      PROVE  /\ noted(s) \in TaskRec /\ noted(s).at = tasks[s].at /\ noted(s).copy = tasks[s].copy
             /\ noted(s).late = tasks[s].late /\ noted(s).locks = tasks[s].locks
             /\ noted(s).box = tasks[s].box /\ noted(s).invite = tasks[s].invite
             /\ noted(s).pw = tasks[s].pw /\ noted(s).link = tasks[s].link
             /\ noted(s).req = tasks[s].req /\ noted(s).behind = tasks[s].behind \cup {t}
  BY <1>1 DEF TaskRec
<1> HIDE DEF copied, noted
<1>6. \A s \in Tasks : HasFields(noted(s))
  BY <1>1, <1>5 DEF HasFields
<1>7. \A s \in Tasks : tasks'[s] \in TypedTask
  BY <1>1, <1>2, <1>3, <1>4, <1>5, <1>6 DEF TypedTask
<1> QED BY <1>1, <1>2, <1>3, <1>5, <1>7

LEMMA WriteTasks ==
  ASSUME MailTypeOK, NEW t \in Tasks, persistWrite(t)
  PROVE  /\ \A s \in Tasks : tasks'[s] \in TypedTask
         /\ tasks'[t].at \in {"idle", "record"} /\ tasks'[t].locks = {}
         /\ \A s \in Tasks \ {t} :
               /\ tasks'[s].locks = tasks[s].locks /\ tasks'[s].box = tasks[s].box
               /\ tasks'[s].invite = tasks[s].invite /\ tasks'[s].pw = tasks[s].pw
               /\ tasks'[s].at = tasks[s].at /\ tasks'[s].copy = tasks[s].copy
               /\ tasks'[s].behind = tasks[s].behind
               /\ ~tasks'[s].late => ~tasks[s].late /\ t \notin tasks[s].behind
<1> DEFINE noted(s) == [tasks[s] EXCEPT !.late = TRUE]
<1>1. \A s \in Tasks : tasks[s] \in TaskRec /\ HasFields(tasks[s])
  BY DEF MailTypeOK, TypedTask
<1>2. /\ tasks'[t] = AfterPersist(t)
      /\ \A s \in Tasks \ {t} : tasks'[s] = IF t \in tasks[s].behind THEN noted(s) ELSE tasks[s]
  BY DEF persistWrite
<1>3. /\ AfterPersist(t) \in TypedTask /\ AfterPersist(t).at \in {"idle", "record"}
      /\ AfterPersist(t).locks = {}
  <2>1. CASE tasks[t].link = None
    <3>1. AfterPersist(t) = Idle
      BY <2>1 DEF AfterPersist
    <3> QED BY <3>1, IdleType DEF Idle
  <2>2. CASE tasks[t].link # None
    <3>1. tasks[t].link \in Links
      BY <1>1, <2>2 DEF TaskRec
    <3>2. AfterPersist(t) = [Idle EXCEPT !.at = "record", !.link = tasks[t].link]
      BY <2>2 DEF AfterPersist
    <3>3. [Idle EXCEPT !.at = "record", !.link = tasks[t].link] \in TypedTask
      BY <3>1 DEF Idle, TypedTask, TaskRec, HasFields, Steps
    <3> QED BY <3>2, <3>3 DEF Idle
  <2> QED BY <2>1, <2>2
<1>4. ASSUME NEW s \in Tasks
      PROVE  /\ noted(s) \in TaskRec /\ noted(s).at = tasks[s].at /\ noted(s).copy = tasks[s].copy
             /\ noted(s).locks = tasks[s].locks
             /\ noted(s).box = tasks[s].box /\ noted(s).invite = tasks[s].invite
             /\ noted(s).pw = tasks[s].pw /\ noted(s).link = tasks[s].link
             /\ noted(s).req = tasks[s].req /\ noted(s).behind = tasks[s].behind
  <2>1. tasks[s] \in TaskRec /\ TRUE \in BOOLEAN
    BY <1>1
  <2>2. noted(s) \in TaskRec
    BY <2>1 DEF TaskRec
  <2> QED BY <2>1, <2>2 DEF TaskRec
<1>7. \A s \in Tasks : noted(s).late
  BY <1>1 DEF TaskRec
<1> HIDE DEF noted
<1>5. \A s \in Tasks : HasFields(noted(s))
  BY <1>1, <1>4 DEF HasFields
<1>6. \A s \in Tasks : tasks'[s] \in TypedTask
  BY <1>1, <1>2, <1>3, <1>4, <1>5 DEF TypedTask
<1>8. ASSUME NEW s \in Tasks \ {t}, ~tasks'[s].late
      PROVE  ~tasks[s].late /\ t \notin tasks[s].behind
  <2>1. CASE t \in tasks[s].behind
    BY <1>2, <1>7, <1>8, <2>1
  <2> QED BY <1>2, <1>8, <2>1
<1> QED BY <1>2, <1>3, <1>4, <1>6, <1>8

LEMMA StashTypes ==
  ASSUME MailTypeOK, NEW t \in Tasks, forgetStashEverywhere(t) \/ stash(t) \/ persistCopy(t) \/ persistWrite(t)
  PROVE  MailTypeOK'
<1> USE DEF sameButStash, accounts, inviteVars, forgotVars, linkVars
<1>0. tasks[t] \in TaskRec /\ HasFields(tasks[t])
  BY DEF MailTypeOK, TypedTask
<1>1. CASE forgetStashEverywhere(t)
  <2>1. tasks' \in [Tasks -> TypedTask]
    BY <1>1, TaskContinues DEF forgetStashEverywhere, Steps
  <2> QED BY <1>1, <2>1 DEF forgetStashEverywhere, MailTypeOK
<1>2. CASE stash(t)
  <2>1. tasks' \in [Tasks -> TypedTask]
    BY <1>2, TaskContinues DEF stash, Steps
  <2>2. tasks[t].pw \in Nat
    BY <1>0 DEF TaskRec
  <2> QED BY <1>2, <2>1, <2>2 DEF stash, MailTypeOK
<1>3. CASE persistCopy(t)
  <2>1. \A s \in Tasks : tasks'[s] \in TypedTask
    BY <1>3, CopyTasks
  <2>2. tasks' \in [Tasks -> TypedTask]
    BY <1>3, <2>1 DEF persistCopy
  <2> QED BY <1>3, <2>2 DEF persistCopy, MailTypeOK, stashVars
<1>4. CASE persistWrite(t)
  <2>1. credsSaved' \in [Boxes -> Nat]
    BY <1>0, <1>4 DEF persistWrite, HasFields, MailTypeOK
  <2>2. \A s \in Tasks : tasks'[s] \in TypedTask
    BY <1>4, WriteTasks
  <2>3. tasks' \in [Tasks -> TypedTask]
    BY <1>4, <2>2 DEF persistWrite
  <2> QED BY <1>4, <2>1, <2>3 DEF persistWrite, MailTypeOK
<1> QED BY <1>1, <1>2, <1>3, <1>4

LEMMA SignInTypes ==
  ASSUME MailTypeOK, NEW t \in Tasks, NEW b \in Boxes, handleAuth(t, b)
  PROVE  MailTypeOK'
<1>1. Head(rows[b]) \in Nat
  BY DEF handleAuth, Exists, MailTypeOK
<1>2. [Idle EXCEPT !.at = "signedIn", !.box = b, !.pw = Head(rows[b])] \in TypedTask
  BY <1>1 DEF Idle, TypedTask, TaskRec, HasFields, Steps
<1>3. tasks' \in [Tasks -> TypedTask]
  BY <1>2, TaskStarts DEF handleAuth, Start
<1> QED BY <1>3 DEF handleAuth, MailTypeOK, sameButStash, accounts, inviteVars, stashVars, forgotVars, linkVars

LEMMA ShellTypes ==
  ASSUME MailTypeOK, ShellSteps
  PROVE  MailTypeOK'
<1> USE DEF inviteVars, forgotVars, linkVars
<1>1. CASE \E b \in Boxes : adminCmdResetPassword(b) \/ adminCmdSetupNoreply(b)
  <2> PICK b \in Boxes, keeps \in BOOLEAN : cliReplaces(b, keeps)
    BY <1>1 DEF adminCmdResetPassword, adminCmdSetupNoreply
  <2>1. rows[b] \in Seq(Nat) /\ rows[b] # <<>> /\ nextPw \in Nat /\ 1 \in 1 .. Len(rows[b])
    BY EmptySeq DEF MailTypeOK, cliReplaces, Exists
  <2>2. [rows[b] EXCEPT ![1] = nextPw] \in Seq(Nat)
    BY <2>1, ExceptSeq
  <2>3. [rows EXCEPT ![b][1] = nextPw] \in [Boxes -> Seq(Nat)]
    BY <2>2 DEF MailTypeOK
  <2>4. cliEdit' \in ShellEdit /\ cliEdit'.at = "users"
    BY <2>1, <2>3 DEF cliReplaces, ShellEdit
  <2>5. nextPw' \in Nat
    BY <2>1 DEF cliReplaces, ChoosePassword
  <2> QED BY <2>4, <2>5 DEF cliReplaces, MailTypeOK, stashVars
<1>2. CASE cliWrites
  <2>1. cliEdit \in ShellEdit
    BY <1>2 DEF cliWrites, MailTypeOK
  <2>2. rows' \in [Boxes -> Seq(Nat)] /\ cliEdit' \in ShellEdit /\ cliEdit'.at = "forget"
    BY <1>2, <2>1 DEF cliWrites, ShellEdit
  <2> QED BY <1>2, <2>2 DEF cliWrites, MailTypeOK, stashVars
<1>3. ASSUME cliEdit \in ShellEdit, cliGoesOn("load")
      PROVE  cliEdit' \in ShellEdit \cup {None} /\ (cliEdit' # None => cliEdit'.at = "load")
  BY <1>3 DEF cliGoesOn, ShellEdit
<1>4. CASE cliReadsStash
  <2>1. cliEdit \in ShellEdit /\ credsSaved \in [Boxes -> Nat] /\ UNCHANGED credsSaved
    BY <1>4 DEF cliReadsStash, MailTypeOK
  <2>2. CASE cliGoesOn("load")
    BY <1>3, <1>4, <2>1, <2>2 DEF cliReadsStash, sameButShell, MailTypeOK, accounts
  <2>3. CASE cliEdit' = [cliEdit EXCEPT !.stash = credsSaved,
                                        !.at = IF @ = "forget" THEN "forgets" ELSE "stashes"]
    <3>1. cliEdit' \in ShellEdit /\ cliEdit'.stash = credsSaved
      BY <2>1, <2>3 DEF ShellEdit
    <3> QED BY <1>4, <2>1, <3>1 DEF cliReadsStash, sameButShell, MailTypeOK, accounts
  <2> QED BY <1>4, <2>2, <2>3 DEF cliReadsStash
<1>5. ASSUME NEW pw \in Nat, cliEdit \in ShellEdit, cliEdit.stash \in [Boxes -> Nat], cliWritesStash(pw)
      PROVE  credsSaved' \in [Boxes -> Nat]
  BY <1>5 DEF cliWritesStash, MailTypeOK
<1>6. CASE cliForgets
  <2>1. cliEdit \in ShellEdit /\ cliEdit.stash \in [Boxes -> Nat]
    BY <1>6 DEF cliForgets, MailTypeOK
  <2>2. credsSaved' \in [Boxes -> Nat]
    BY <1>5, <1>6, <2>1 DEF cliForgets
  <2> QED BY <1>3, <1>6, <2>1, <2>2 DEF cliForgets, sameButShell, MailTypeOK, accounts
<1>7. CASE cliStashes
  <2>1. cliEdit \in ShellEdit /\ cliEdit.stash \in [Boxes -> Nat]
    BY <1>7 DEF cliStashes, MailTypeOK
  <2>2. cliEdit.pw \in Nat
    BY <2>1 DEF ShellEdit
  <2>3. credsSaved' \in [Boxes -> Nat]
    BY <1>5, <1>7, <2>1, <2>2 DEF cliStashes
  <2> QED BY <1>7, <2>3 DEF cliStashes, sameButShell, MailTypeOK, accounts
<1> QED BY <1>1, <1>2, <1>4, <1>6, <1>7 DEF ShellSteps

LEMMA MintTypes ==
  ASSUME MailTypeOK, NEW l \in Links, NEW b \in Boxes, mintMailboxRecoverURL(l, b)
  PROVE  links' \in [Links -> [box : Boxes, live : BOOLEAN] \cup {NoLink}]
  BY DEF MailTypeOK, mintMailboxRecoverURL

LEMMA ForgotTypes ==
  ASSUME MailTypeOK, NEW t \in Tasks, ForgotSteps(t)
  PROVE  MailTypeOK'
<1> USE DEF sameButForgot, accounts, inviteVars, stashVars, forgotVars
<1>1. CASE \E q \in Requests, l \in Links, b \in Boxes : handleRequest(q, l, b)
  <2> PICK q \in Requests, l \in Links, b \in Boxes : handleRequest(q, l, b)
    BY <1>1
  <2>1. links' \in [Links -> [box : Boxes, live : BOOLEAN] \cup {NoLink}]
    BY MintTypes DEF handleRequest, MailTypeOK
  <2>2. forgot' \subseteq Requested /\ forgotSaved' \subseteq Requested
    <3>1. [id |-> q, box |-> b, self |-> b \in RoleBoxes] \in Requested
      BY DEF Requested
    <3> QED BY <3>1 DEF handleRequest, persistForgot, MailTypeOK
  <2> QED BY <2>1, <2>2 DEF handleRequest, MailTypeOK
<1>2. CASE \E p \in forgot : dismissByID(p) \/ gcLocked(p)
  <2>1. forgot' \subseteq Requested /\ forgotSaved' \subseteq Requested
    BY <1>2 DEF dismissByID, gcLocked, persistForgot, MailTypeOK
  <2> QED BY <1>2, <2>1 DEF dismissByID, gcLocked, MailTypeOK
<1>3. CASE \E p \in forgot : approveByID(t, p)
  <2> PICK p \in forgot : approveByID(t, p)
    BY <1>3
  <2>1. [Idle EXCEPT !.at = "approved", !.req = p] \in TypedTask
    BY DEF Idle, TypedTask, TaskRec, HasFields, Steps, MailTypeOK
  <2>2. tasks' \in [Tasks -> TypedTask]
    BY <2>1, TaskStarts DEF approveByID, Start
  <2> QED BY <2>2 DEF approveByID, MailTypeOK
<1>4. CASE \E l \in Links : approvalMailed(t, l)
  <2> PICK l \in Links : approvalMailed(t, l)
    BY <1>4
  <2>1. tasks[t].req.box \in Boxes
    BY DEF approvalMailed, MailTypeOK, TypedTask, HasFields, Requested
  <2>2. links' \in [Links -> [box : Boxes, live : BOOLEAN] \cup {NoLink}]
    BY <2>1, MintTypes DEF approvalMailed
  <2>3. forgot' \subseteq Requested /\ forgotSaved' \subseteq Requested
    BY DEF approvalMailed, persistForgot, MailTypeOK
  <2>4. tasks' \in [Tasks -> TypedTask]
    BY TaskEnds DEF approvalMailed
  <2> QED BY <2>2, <2>3, <2>4 DEF approvalMailed, MailTypeOK
<1> QED BY <1>1, <1>2, <1>3, <1>4 DEF ForgotSteps

LEMMA SubmitTypes ==
  ASSUME MailTypeOK, NEW t \in Tasks, submitResets(t) \/ record(t) \/ \E l \in Links : handleSubmit(t, l)
  PROVE  MailTypeOK'
<1> USE DEF sameButTasks, accounts, inviteVars, stashVars, forgotVars, linkVars
<1>1. CASE submitResets(t)
  <2>1. tasks[t].box \in Boxes
    BY <1>1 DEF submitResets, MailTypeOK, TypedTask, HasFields
  <2>2. CASE End(t) /\ sameButTasks
    BY <2>2, TaskEnds DEF MailTypeOK
  <2> QED BY <1>1, <2>1, <2>2, ReplaceTypes DEF submitResets
<1>2. CASE record(t)
  BY <1>2, TaskEnds DEF record, MailTypeOK
<1>3. CASE \E l \in Links : handleSubmit(t, l)
  <2> PICK l \in Links : handleSubmit(t, l)
    BY <1>3
  <2>1. links[l].box \in Boxes
    <3>1. links[l].live
      BY DEF handleSubmit
    <3>2. links[l] # NoLink
      BY <3>1 DEF NoLink
    <3>3. links[l] \in [box : Boxes, live : BOOLEAN]
      BY <3>2 DEF MailTypeOK
    <3> QED BY <3>3
  <2>2. [Idle EXCEPT !.at = "checked", !.box = links[l].box, !.link = l] \in TypedTask
    BY <2>1 DEF Idle, TypedTask, TaskRec, HasFields, Steps
  <2>3. tasks' \in [Tasks -> TypedTask]
    BY <2>2, TaskStarts DEF handleSubmit, Start
  <2> QED BY <2>3 DEF handleSubmit, MailTypeOK
<1> QED BY <1>1, <1>2, <1>3

LEMMA LinkTypes ==
  ASSUME MailTypeOK, NEW l \in Links,
         linkExpires(l) \/ \E b \in Boxes : handleRoleRecover(l, b) \/ adminCmdMintRecover(l, b)
  PROVE  MailTypeOK'
<1>1. links' \in [Links -> [box : Boxes, live : BOOLEAN] \cup {NoLink}]
  <2>1. CASE linkExpires(l)
    <3>1. links[l] \in [box : Boxes, live : BOOLEAN]
      BY <2>1 DEF linkExpires, MailTypeOK, NoLink
    <3>2. [links[l] EXCEPT !.live = FALSE] \in [box : Boxes, live : BOOLEAN]
      BY <3>1
    <3>3. links' = [links EXCEPT ![l] = [links[l] EXCEPT !.live = FALSE]]
      BY <2>1 DEF linkExpires
    <3> QED BY <3>2, <3>3 DEF MailTypeOK
  <2> QED BY <2>1, MintTypes DEF handleRoleRecover, adminCmdMintRecover
<1> QED BY <1>1 DEF linkExpires, handleRoleRecover, adminCmdMintRecover, MailTypeOK, sameButForgot,
                accounts, inviteVars, stashVars, forgotVars

LEMMA MailTypes ==
  ASSUME MailTypeOK, AccountSteps \/ MailRestart
  PROVE  MailTypeOK'
<1>1. CASE MailRestart
  BY <1>1, IdleType DEF MailRestart, MailTypeOK, accounts
<1>2. ASSUME NEW t \in Tasks, StashSteps(t) PROVE MailTypeOK'
  BY <1>2, StashTypes, SignInTypes, ReplaceTypes DEF StashSteps, handleAdminResetPassword
<1>3. ASSUME NEW t \in Tasks, LinkSteps(t) PROVE MailTypeOK'
  BY <1>3, StashTypes, SubmitTypes, LinkTypes DEF LinkSteps
<1> QED BY <1>1, <1>2, <1>3, InviteTypes, ForgotTypes, ShellTypes DEF AccountSteps

------------------------------------------------------------------------------
(* Steps that leave both invariants' subjects alone.                       *)

QuietTask(s) ==
    \/ tasks'[s] = tasks[s]
    \/ /\ tasks[s].at \notin {"claimed", "made", "reset", "persist", "write"}
       /\ tasks'[s].at \notin {"made", "signedIn", "reset", "write"}
       /\ tasks'[s].at = "claimed" => tasks'[s].invite \notin Invites
       /\ "invites" \in tasks'[s].locks => "invites" \in tasks[s].locks
       /\ "provision" \notin tasks'[s].locks

QuietVars == <<rows, stashVars, invites, invitesSaved, madeBy, spoiled, resetHistory>>
Quiet == (\A s \in Tasks : QuietTask(s)) /\ UNCHANGED QuietVars

(* A task that is no save or reset may prove a password or change quietly. *)
Aside(s) ==
    \/ tasks'[s] = tasks[s]
    \/ /\ tasks[s].at \notin {"reset", "persist", "write"}
       /\ tasks'[s].at \notin {"reset", "write"} /\ "provision" \notin tasks'[s].locks
       /\ tasks'[s].at = "signedIn" =>
             rows[tasks'[s].box] # <<>> /\ tasks'[s].pw = Head(rows[tasks'[s].box])

(* What leaves the stash right: passwords stay first, the memory gets a    *)
(* proved one or none, and the file loses entries or keeps them.           *)
LEMMA StashFrame ==
  ASSUME MailTypeOK, StashInv, \A s \in Tasks : Aside(s),
         overlapped \subseteq overlapped', shelled \subseteq shelled',
         unforgotten \subseteq unforgotten', UNCHANGED revived,
         \A b \in Boxes \ (overlapped' \cup shelled') :
            /\ rows[b] # <<>> => rows'[b] # <<>> /\ Head(rows'[b]) = Head(rows[b])
            /\ creds'[b] = creds[b] \/ Current(creds'[b], b)
            /\ b \notin unforgotten' => credsSaved'[b] \in {0, credsSaved[b]}
  PROVE  StashInv'
<1>0. \A s \in Tasks : /\ Resets(s) => tasks[s].at \in {"reset", "persist", "write"}
                       /\ tasks[s].at = "reset" => Resets(s)
  BY DEF MailTypeOK, TypedTask, HasFields, Resets
<1>1. ASSUME NEW s \in Tasks
      PROVE  /\ Resets(s)' <=> Resets(s)
             /\ Resets(s) => tasks'[s] = tasks[s]
             /\ (tasks[s].at = "reset" \/ tasks'[s].at \in {"reset", "write"}) => tasks'[s] = tasks[s]
  BY <1>0 DEF Aside, Resets
<1>2. OneReset'
  BY <1>1 DEF StashInv, OneReset
<1>3. ASSUME NEW b \in Boxes \ (overlapped' \cup shelled')
      PROVE  Proved(b)' /\ ((b \notin revived)' => StashOK(b)')
  <2>0. b \notin overlapped \cup shelled
    OBVIOUS
  <2>1. ASSUME NEW pw, Current(pw, b) PROVE pw = 0 \/ (rows'[b] # <<>> /\ pw = Head(rows'[b]))
    BY <2>1 DEF Current, Exists
  <2>2. Proved(b)'
    <3> SUFFICES ASSUME NEW s \in Tasks, tasks'[s].at = "signedIn", tasks'[s].box = b
                 PROVE  rows'[b] # <<>> /\ tasks'[s].pw = Head(rows'[b])
      BY DEF Proved
    <3>1. rows[b] # <<>> /\ tasks'[s].pw = Head(rows[b])
      BY <2>0 DEF Aside, StashInv, Proved
    <3> QED BY <3>1
  <2>3. ASSUME b \notin revived PROVE StashOK(b)'
    <3>0. StashOK(b)
      BY <2>0, <2>3 DEF StashInv
    <3>1. (Forgot(b) => Current(creds[b], b)) /\ (Forgot(b)' => Forgot(b))
      BY <1>1, <3>0 DEF StashOK, Forgot
    <3>2. Forgot(b)' => Current(creds[b], b)'
      <4>1. Forgot(b)' => Current(creds'[b], b)
        BY <3>1
      <4> QED BY <2>1, <4>1 DEF Current, Exists
    <3>3. ASSUME NEW s \in Tasks PROVE CopyOK(s, b)'
      <4> SUFFICES ASSUME tasks'[s].at = "write", ~tasks'[s].late
                   PROVE  Current(tasks[s].copy[b], b)' \/ Overtaken(s, b)'
        BY DEF CopyOK
      <4>1. tasks'[s] = tasks[s]
        BY <1>1
      <4>2. Current(tasks[s].copy[b], b) \/ Overtaken(s, b)
        BY <3>0, <4>1 DEF StashOK, CopyOK
      <4>3. Overtaken(s, b) => Overtaken(s, b)'
        BY <1>1, <4>1 DEF Overtaken
      <4>4. Current(tasks[s].copy[b], b) => Current(tasks[s].copy[b], b)'
        BY <2>1, <4>1 DEF Current, Exists
      <4> QED BY <4>2, <4>3, <4>4
    <3>4. Settled(b)' => Settled(b)
      BY <1>1 DEF Settled
    <3>5. (Settled(b) /\ b \notin unforgotten)' => Current(credsSaved[b], b)'
      <4> SUFFICES ASSUME Settled(b), b \notin unforgotten' PROVE Current(credsSaved[b], b)'
        BY <3>4
      <4>1. Current(credsSaved[b], b)
        BY <3>0 DEF StashOK
      <4>2. Current(0, b)
        BY DEF Current
      <4>3. Current(credsSaved'[b], b)
        BY <4>1, <4>2
      <4> QED BY <2>1, <4>3 DEF Current, Exists
    <3> QED BY <3>2, <3>3, <3>5 DEF StashOK
  <2> QED BY <2>2, <2>3
<1> QED BY <1>2, <1>3 DEF StashInv

LEMMA TaskBecomes ==
  ASSUME MailTypeOK, NEW t \in Tasks, NEW task, tasks' = [tasks EXCEPT ![t] = task]
  PROVE  tasks'[t] = task /\ \A s \in Tasks \ {t} : tasks'[s] = tasks[s]
  BY DEF MailTypeOK

LEMMA EndBecomes ==
  ASSUME MailTypeOK, NEW t \in Tasks, End(t)
  PROVE  /\ tasks'[t].at = "idle" /\ tasks'[t].locks = {} /\ tasks'[t].invite = None
         /\ \A s \in Tasks \ {t} : tasks'[s] = tasks[s]
<1>1. tasks'[t] = Idle /\ \A s \in Tasks \ {t} : tasks'[s] = tasks[s]
  BY TaskBecomes DEF End
<1> QED BY <1>1 DEF Idle

LEMMA QuietKeepsInv ==
  ASSUME MailTypeOK, InvitationsInv, StashInv, Quiet
  PROVE  InvitationsInv' /\ StashInv'
<1> USE DEF QuietVars, stashVars, resetHistory
<1>1. \A s \in Tasks, i \in Invites :
        /\ Completing(s, i)' <=> Completing(s, i)
        /\ Completing(s, i) => tasks'[s] = tasks[s]
  BY DEF Quiet, QuietTask, Completing
<1>2. Claims'
  <2>1. \A s \in Tasks : "invites" \in tasks'[s].locks => "invites" \in tasks[s].locks
    BY DEF Quiet, QuietTask
  <2> QED BY <1>1, <2>1 DEF InvitationsInv, Claims, Quiet
<1>3. ASSUME NEW i \in Invites \ spoiled PROVE Unmade(i)' \/ MadeOnce(i)'
  BY <1>1 DEF InvitationsInv, Unmade, MadeOnce, Quiet
<1>4. \A s \in Tasks : Aside(s)
  BY DEF Quiet, QuietTask, Aside
<1>5. StashInv'
  BY <1>4, StashFrame DEF Quiet
<1> QED BY <1>2, <1>3, <1>5 DEF InvitationsInv, Quiet

LEMMA UntouchedIsQuiet ==
  UNCHANGED <<QuietVars, tasks>> => Quiet
  BY DEF Quiet, QuietTask

LEMMA StartIsQuiet ==
  ASSUME MailTypeOK, NEW t \in Tasks, NEW task, tasks' = [tasks EXCEPT ![t] = task],
         task.at \notin {"made", "signedIn", "reset", "write"},
         task.at = "claimed" => task.invite \notin Invites, task.locks = {},
         tasks[t].at \notin {"claimed", "made", "reset", "persist", "write"}, UNCHANGED QuietVars
  PROVE  Quiet
  BY TaskBecomes DEF Quiet, QuietTask

LEMMA SubmitIsQuiet ==
  ASSUME MailTypeOK, NEW t \in Tasks,
         \/ \E b \in Boxes : completeByToken(t, b)
         \/ \E l \in Links : handleSubmit(t, l)
         \/ \E p \in forgot : approveByID(t, p)
  PROVE  Quiet
<1>1. UNCHANGED QuietVars
  <2> USE DEF QuietVars, accounts, inviteVars
  <2>1. CASE \E b \in Boxes : completeByToken(t, b)
    BY <2>1 DEF completeByToken, sameButTasks
  <2>2. CASE \E l \in Links : handleSubmit(t, l)
    BY <2>2 DEF handleSubmit, sameButTasks
  <2>3. CASE \E p \in forgot : approveByID(t, p)
    BY <2>3 DEF approveByID, sameButForgot
  <2> QED BY <2>1, <2>2, <2>3
<1>2. tasks[t].at = "idle"
  <2>1. tasks[t] = Idle
    BY DEF completeByToken, handleSubmit, approveByID, Start
  <2> QED BY <2>1 DEF Idle
<1>3. CASE \E b \in Boxes : completeByToken(t, b)
  <2> PICK b \in Boxes : completeByToken(t, b)
    BY <1>3
  <2> DEFINE task == [Idle EXCEPT !.at = "claimed", !.box = b]
  <2>1. task.at = "claimed" /\ task.invite = None /\ task.locks = {}
    BY DEF Idle
  <2>2. tasks' = [tasks EXCEPT ![t] = task]
    BY DEF completeByToken, Start
  <2> HIDE DEF task
  <2> QED BY <1>1, <1>2, <2>1, <2>2, StartIsQuiet, MailboxesAssumption
<1>4. CASE \E l \in Links : handleSubmit(t, l)
  <2> PICK l \in Links : handleSubmit(t, l)
    BY <1>4
  <2> DEFINE task == [Idle EXCEPT !.at = "checked", !.box = links[l].box, !.link = l]
  <2>1. task.at = "checked" /\ task.locks = {}
    BY DEF Idle
  <2>2. tasks' = [tasks EXCEPT ![t] = task]
    BY DEF handleSubmit, Start
  <2> HIDE DEF task
  <2> QED BY <1>1, <1>2, <2>1, <2>2, StartIsQuiet
<1>5. CASE \E p \in forgot : approveByID(t, p)
  <2> PICK p \in forgot : approveByID(t, p)
    BY <1>5
  <2> DEFINE task == [Idle EXCEPT !.at = "approved", !.req = p]
  <2>1. task.at = "approved" /\ task.locks = {}
    BY DEF Idle
  <2>2. tasks' = [tasks EXCEPT ![t] = task]
    BY DEF approveByID, Start
  <2> HIDE DEF task
  <2> QED BY <1>1, <1>2, <2>1, <2>2, StartIsQuiet
<1> QED BY <1>3, <1>4, <1>5

LEMMA EndIsQuiet ==
  ASSUME MailTypeOK, NEW t \in Tasks,
         \/ \E l \in Links : approvalMailed(t, l)
         \/ record(t)
         \/ tasks[t].at = "checked" /\ End(t) /\ sameButTasks
  PROVE  Quiet
<1>1. tasks' = [tasks EXCEPT ![t] = Idle] /\ tasks[t].at \in {"approved", "record", "checked"}
  BY DEF approvalMailed, record, End
<1>2. Idle.at = "idle" /\ Idle.locks = {}
  BY DEF Idle
<1>3. UNCHANGED QuietVars
  BY DEF QuietVars, approvalMailed, record, sameButTasks, sameButForgot, accounts, inviteVars
<1> QED BY <1>1, <1>2, <1>3, StartIsQuiet

LEMMA RequestsAreQuiet ==
  ASSUME \/ \E q \in Requests, l \in Links, b \in Boxes : handleRequest(q, l, b)
         \/ \E p \in forgot : dismissByID(p) \/ gcLocked(p)
         \/ \E l \in Links, b \in Boxes : handleRoleRecover(l, b) \/ adminCmdMintRecover(l, b)
         \/ \E l \in Links : linkExpires(l)
         \/ \E b \in Boxes : adminCmdResetPassword(b) \/ adminCmdSetupNoreply(b)
  PROVE  Quiet
<1> USE DEF QuietVars, sameButForgot, accounts, inviteVars
<1>1. CASE \E b \in Boxes : adminCmdResetPassword(b) \/ adminCmdSetupNoreply(b)
  BY <1>1, UntouchedIsQuiet DEF adminCmdResetPassword, adminCmdSetupNoreply, cliReplaces
<1>2. CASE \/ \E q \in Requests, l \in Links, b \in Boxes : handleRequest(q, l, b)
           \/ \E p \in forgot : dismissByID(p) \/ gcLocked(p)
  BY <1>2, UntouchedIsQuiet DEF handleRequest, dismissByID, gcLocked
<1>3. CASE \/ \E l \in Links, b \in Boxes : handleRoleRecover(l, b) \/ adminCmdMintRecover(l, b)
           \/ \E l \in Links : linkExpires(l)
  BY <1>3, UntouchedIsQuiet DEF handleRoleRecover, adminCmdMintRecover, linkExpires
<1> QED BY <1>1, <1>2, <1>3

------------------------------------------------------------------------------
(* The other steps: invitations.                                           *)

SameStash == UNCHANGED <<rows, stashVars, resetHistory>>

LEMMA InvitesKeepInv ==
  ASSUME MailTypeOK, InvitationsInv, StashInv,
         \E i \in Invites : issue(i) \/ inviteExpires(i) \/ revokeByPrefix(i)
  PROVE  InvitationsInv' /\ StashInv'
<1>0. SameStash /\ UNCHANGED <<tasks, madeBy, spoiled>>
  BY DEF SameStash, issue, inviteExpires, revokeByPrefix, sameButInvites, accounts
<1>1. StashInv'
  BY <1>0, StashFrame DEF SameStash, Aside, stashVars, resetHistory
<1>2. ASSUME NEW i \in Invites, invites[i] \in Ended
      PROVE  invites'[i] \in Ended /\ (invitesSaved[i] \in Ended => invitesSaved'[i] \in Ended)
  BY <1>2 DEF issue, inviteExpires, revokeByPrefix, persistInvites, Ended, MailTypeOK, InviteStates
<1>3. ASSUME NEW s \in Tasks, NEW i \in Invites, "invites" \in tasks[s].locks,
             invites[i] \in {"open", "expired"}
      PROVE  invites'[i] \in {"open", "expired"}
  BY <1>3 DEF issue, inviteExpires, revokeByPrefix, Free, MailTypeOK
<1>4. Claims'
  BY <1>0, <1>3 DEF InvitationsInv, Claims, Completing
<1>5. ASSUME NEW i \in Invites \ spoiled PROVE Unmade(i)' \/ MadeOnce(i)'
  BY <1>0, <1>2 DEF InvitationsInv, Unmade, MadeOnce, Completing
<1> QED BY <1>0, <1>1, <1>4, <1>5 DEF InvitationsInv

LEMMA ClaimKeepsInv ==
  ASSUME MailTypeOK, InvitationsInv, StashInv, NEW t \in Tasks, NEW i \in Invites, NEW b \in Boxes,
         completeByInvite(t, i, b)
  PROVE  InvitationsInv' /\ StashInv'
<1> DEFINE task == [Idle EXCEPT !.at = "claimed", !.box = b, !.invite = i, !.locks = {"invites"}]
<1>1. task.at = "claimed" /\ task.invite = i /\ task.locks = {"invites"} /\ Idle.at = "idle"
  BY DEF Idle
<1>2. tasks' = [tasks EXCEPT ![t] = task] /\ tasks[t].at = "idle"
  BY <1>1 DEF completeByInvite, Start
<1>3. SameStash /\ UNCHANGED <<invites, invitesSaved, madeBy, spoiled>>
  BY DEF SameStash, completeByInvite, sameButTasks, accounts, inviteVars
<1>4. invites[i] = "open" /\ \A s \in Tasks : "invites" \notin tasks[s].locks
  BY DEF completeByInvite, Free
<1> HIDE DEF task
<1>5. tasks'[t] = task /\ \A s \in Tasks \ {t} : tasks'[s] = tasks[s]
  BY <1>2, TaskBecomes
<1>6. \A s \in Tasks, j \in Invites : ~Completing(s, j)
  BY <1>4 DEF InvitationsInv, Claims
<1>7. StashInv'
  <2>1. \A s \in Tasks : Aside(s)
    BY <1>1, <1>2, <1>5 DEF Aside
  <2> QED BY <1>3, <2>1, StashFrame DEF SameStash, stashVars, resetHistory
<1>8. Claims'
  BY <1>1, <1>3, <1>4, <1>5, <1>6 DEF Claims, Completing
<1>9. ASSUME NEW j \in Invites \ spoiled PROVE Unmade(j)' \/ MadeOnce(j)'
  <2>1. CASE Unmade(j)
    BY <1>1, <1>3, <1>5, <1>6, <2>1 DEF Unmade, Completing
  <2>2. CASE MadeOnce(j)
    <3>1. j # i
      BY <1>4, <1>6, <2>2 DEF MadeOnce, Ended
    <3>2. \A s \in Tasks : ~Completing(s, j)'
      BY <1>1, <1>5, <1>6, <3>1 DEF Completing
    <3> QED BY <1>3, <1>6, <2>2, <3>2 DEF MadeOnce
  <2> QED BY <2>1, <2>2 DEF InvitationsInv
<1> QED BY <1>3, <1>7, <1>8, <1>9 DEF InvitationsInv

LEMMA ProvisionKeepsInv ==
  ASSUME MailTypeOK, InvitationsInv, StashInv, NEW t \in Tasks, provisionMailbox(t)
  PROVE  InvitationsInv' /\ StashInv'
<1> PICK b, i : b = tasks[t].box /\ i = tasks[t].invite
  OBVIOUS
<1>0. /\ tasks[t].at = "claimed" /\ b \in Boxes /\ i \in Invites \cup {None} /\ nextPw \in Nat
      /\ tasks[t] \in TaskRec
  BY DEF provisionMailbox, MailTypeOK, TypedTask, TaskRec, HasFields
<1>1. UNCHANGED <<stashVars, resetHistory, invites, invitesSaved>>
  BY DEF provisionMailbox
<1>2. rows' = [rows EXCEPT ![b] = Append(rows[b], nextPw)] \/ rows' = rows
  BY DEF provisionMailbox
<1>3. /\ \/ tasks'[t].at = "idle" /\ tasks'[t].locks = {}
         \/ /\ tasks'[t].at = "made" /\ i # None
            /\ tasks'[t].invite = i /\ tasks'[t].locks = tasks[t].locks
      /\ \A s \in Tasks \ {t} : tasks'[s] = tasks[s]
  <2>1. CASE End(t)
    BY <2>1, EndBecomes
  <2>2. CASE Continue(t, "made") /\ i # None
    <3> DEFINE task == [tasks[t] EXCEPT !.at = "made"]
    <3>1. tasks' = [tasks EXCEPT ![t] = task]
      BY <2>2 DEF Continue
    <3>2. task.at = "made" /\ task.invite = i /\ task.locks = tasks[t].locks
      BY <1>0 DEF TaskRec
    <3> HIDE DEF task
    <3> QED BY <2>2, <3>1, <3>2, TaskBecomes
  <2> QED BY <2>1, <2>2 DEF provisionMailbox
<1>4. StashInv'
  <2>1. \A s \in Tasks : Aside(s)
    <3>1. "provision" \notin tasks[t].locks
      BY <1>0 DEF MailTypeOK, TypedTask, HasFields
    <3> QED BY <1>0, <1>3, <3>1 DEF Aside
  <2>2. ASSUME NEW c \in Boxes, rows[c] # <<>>
        PROVE  rows'[c] # <<>> /\ Head(rows'[c]) = Head(rows[c])
    <3>1. rows[c] \in Seq(Nat)
      BY DEF MailTypeOK
    <3>2. Append(rows[c], nextPw) # <<>> /\ Head(Append(rows[c], nextPw)) = Head(rows[c])
      BY <1>0, <2>2, <3>1
    <3>3. rows'[c] = rows[c] \/ rows'[c] = Append(rows[c], nextPw)
      BY <1>2 DEF MailTypeOK
    <3> QED BY <2>2, <3>2, <3>3
  <2> QED BY <1>1, <2>1, <2>2, StashFrame DEF stashVars, resetHistory
<1>5. \/ /\ tasks'[t].at = "made" /\ madeBy' = [madeBy EXCEPT ![i] = madeBy[i] \cup {b}]
         /\ spoiled' = spoiled /\ i \in Invites
      \/ tasks'[t].at = "idle" /\ i = None /\ UNCHANGED <<madeBy, spoiled>>
      \/ tasks'[t].at = "idle" /\ i \in Invites /\ spoiled' = spoiled \cup {i}
           /\ madeBy' = [madeBy EXCEPT ![i] = madeBy[i] \cup {b}]
      \/ tasks'[t].at = "idle" /\ UNCHANGED <<madeBy, spoiled>>
  <2>1. End(t) => tasks'[t].at = "idle"
    BY EndBecomes
  <2>2. Continue(t, "made") => tasks'[t].at = "made"
    BY <1>0 DEF Continue, MailTypeOK, TaskRec
  <2> QED BY <1>0, <2>1, <2>2, MailboxesAssumption DEF provisionMailbox
<1>6. Claims'
  <2>1. \A s \in Tasks, j \in Invites : Completing(s, j)' => Completing(s, j)
    BY <1>0, <1>3 DEF Completing
  <2>2. \A s \in Tasks : "invites" \in tasks'[s].locks => "invites" \in tasks[s].locks
    BY <1>3
  <2>3. \A s \in Tasks, j \in Invites : Completing(s, j)' => "invites" \in tasks'[s].locks
    BY <1>3, <2>1 DEF InvitationsInv, Claims, Completing
  <2> QED BY <1>1, <2>1, <2>2, <2>3 DEF InvitationsInv, Claims
<1>7. ASSUME NEW j \in Invites \ spoiled' PROVE Unmade(j)' \/ MadeOnce(j)'
  <2>0. j \notin spoiled
    BY <1>5
  <2>1. CASE j # i
    <3>1. \A s \in Tasks : /\ Completing(s, j)' <=> Completing(s, j)
                           /\ Completing(s, j) => tasks'[s] = tasks[s]
      BY <1>0, <1>3, <2>1 DEF Completing
    <3>2. madeBy'[j] = madeBy[j]
      BY <1>5, <2>1 DEF MailTypeOK
    <3> QED BY <1>1, <2>0, <3>1, <3>2 DEF InvitationsInv, Unmade, MadeOnce
  <2>2. CASE j = i
    <3>1. Completing(t, i) /\ madeBy[i] = {}
      BY <1>0, <2>0, <2>2 DEF InvitationsInv, Unmade, MadeOnce, Completing
    <3>2. \A s \in Tasks \ {t} : ~Completing(s, i)
      BY <2>2, <3>1 DEF InvitationsInv, Claims
    <3>3. \A s \in Tasks \ {t} : ~Completing(s, i)'
      BY <1>3, <3>2 DEF Completing
    <3>4. CASE tasks'[t].at = "made" /\ madeBy' = [madeBy EXCEPT ![i] = madeBy[i] \cup {b}]
      <4>1. madeBy'[i] = {b}
        BY <2>2, <3>1, <3>4 DEF MailTypeOK
      <4>2. Completing(t, i)'
        BY <1>3, <3>4 DEF Completing
      <4> QED BY <1>0, <2>2, <3>3, <3>4, <4>1, <4>2 DEF MadeOnce
    <3>5. CASE tasks'[t].at = "idle" /\ UNCHANGED madeBy
      <4>1. ~Completing(t, i)'
        BY <3>5 DEF Completing
      <4> QED BY <2>2, <3>1, <3>3, <3>5, <4>1 DEF Unmade
    <3> QED BY <1>5, <2>2, <3>4, <3>5
  <2> QED BY <2>1, <2>2
<1> QED BY <1>4, <1>6, <1>7 DEF InvitationsInv

LEMMA MarkKeepsInv ==
  ASSUME MailTypeOK, InvitationsInv, StashInv, NEW t \in Tasks, markUsed(t)
  PROVE  InvitationsInv' /\ StashInv'
<1> PICK i : i = tasks[t].invite
  OBVIOUS
<1>0. tasks[t].at = "made" /\ i \in Invites
  BY DEF markUsed, MailTypeOK, TypedTask, HasFields
<1>1. SameStash /\ UNCHANGED madeBy
  BY DEF SameStash, markUsed, accounts
<1>2. tasks'[t] = Idle /\ \A s \in Tasks \ {t} : tasks'[s] = tasks[s]
  BY TaskBecomes DEF markUsed, End
<1>3. Idle.at = "idle" /\ Idle.locks = {}
  BY DEF Idle
<1>4. StashInv'
  <2>1. \A s \in Tasks : Aside(s)
    BY <1>0, <1>2, <1>3 DEF Aside
  <2> QED BY <1>1, <2>1, StashFrame DEF SameStash, stashVars, resetHistory
<1>5. Completing(t, i) /\ invites[i] \in {"open", "expired"}
  BY <1>0 DEF InvitationsInv, Claims, Completing
<1>6. /\ invites' = [invites EXCEPT ![i] = "used"]
      /\ invitesSaved' \in {invites', invitesSaved}
      /\ spoiled' = IF invitesSaved'[i] = "used" THEN spoiled ELSE spoiled \cup {i}
  BY <1>5 DEF markUsed, persistInvites
<1>7. \A s \in Tasks \ {t}, j \in Invites : ~Completing(s, j)
  BY <1>0, <1>5 DEF InvitationsInv, Claims
<1>8. \A s \in Tasks, j \in Invites : ~Completing(s, j)'
  BY <1>2, <1>3, <1>7 DEF Completing
<1>9. Claims'
  BY <1>2, <1>3, <1>8 DEF InvitationsInv, Claims
<1>10. ASSUME NEW j \in Invites \ spoiled' PROVE Unmade(j)' \/ MadeOnce(j)'
  <2>1. CASE j = i
    <3>1. MadeOnce(i)
      BY <1>0, <1>5, <1>6, <2>1 DEF InvitationsInv, Unmade
    <3>2. invites'[i] \in Ended /\ invitesSaved'[i] \in Ended
      BY <1>0, <1>6, <2>1 DEF MailTypeOK, Ended
    <3> QED BY <1>1, <1>8, <2>1, <3>1, <3>2 DEF MadeOnce
  <2>2. CASE j # i
    <3>1. ~Completing(t, j)
      BY <2>2 DEF Completing
    <3>2. invites'[j] = invites[j] /\ (invitesSaved'[j] = invitesSaved[j] \/ invitesSaved'[j] = invites[j])
      BY <1>6, <2>2 DEF MailTypeOK
    <3>3. j \notin spoiled
      BY <1>6
    <3> QED BY <1>1, <1>7, <1>8, <3>1, <3>2, <3>3 DEF InvitationsInv, Unmade, MadeOnce
  <2> QED BY <2>1, <2>2
<1> QED BY <1>4, <1>9, <1>10 DEF InvitationsInv

------------------------------------------------------------------------------
(* The other steps: passwords.                                             *)

(* Steps of tasks that complete nothing keep the invitations.              *)
LEMMA InvitationsFrame ==
  ASSUME InvitationsInv, UNCHANGED inviteVars,
         \A s \in Tasks :
            \/ /\ tasks'[s].at = tasks[s].at /\ tasks'[s].invite = tasks[s].invite
               /\ tasks'[s].locks = tasks[s].locks
            \/ /\ tasks[s].at \notin {"claimed", "made"} /\ tasks'[s].at \notin {"claimed", "made"}
               /\ "invites" \in tasks'[s].locks => "invites" \in tasks[s].locks
  PROVE  InvitationsInv'
<1> USE DEF inviteVars
<1>1. \A s \in Tasks, i \in Invites :
        /\ Completing(s, i)' <=> Completing(s, i)
        /\ Completing(s, i) => tasks'[s].at = tasks[s].at /\ tasks'[s].locks = tasks[s].locks
  BY DEF Completing
<1>2. \A s \in Tasks : "invites" \in tasks'[s].locks => "invites" \in tasks[s].locks
  OBVIOUS
<1>3. Claims'
  BY <1>1, <1>2 DEF InvitationsInv, Claims
<1>4. ASSUME NEW i \in Invites \ spoiled PROVE Unmade(i)' \/ MadeOnce(i)'
  BY <1>1 DEF InvitationsInv, Unmade, MadeOnce
<1> QED BY <1>3, <1>4 DEF InvitationsInv

(* A reset leaves the other mailboxes alone, and overtakes every copy.     *)
LEMMA ReplaceKeepsInv ==
  ASSUME MailTypeOK, InvitationsInv, StashInv, NEW t \in Tasks, NEW box \in Boxes,
         tasks[t].at \in {"idle", "checked"}, replaceMailboxPassword(t, box)
  PROVE  InvitationsInv' /\ StashInv'
<1> DEFINE task == [tasks[t] EXCEPT !.at = "reset", !.box = box, !.locks = {"provision"}]
<1>1. tasks[t] \in TaskRec
  BY DEF MailTypeOK, TypedTask
<1>2. task.at = "reset" /\ task.box = box /\ task.locks = {"provision"}
  BY <1>1 DEF TaskRec
<1>3. tasks' = [tasks EXCEPT ![t] = task]
  BY DEF replaceMailboxPassword
<1> HIDE DEF task
<1>4. tasks'[t] = task /\ \A s \in Tasks \ {t} : tasks'[s] = tasks[s]
  BY <1>3, TaskBecomes
<1>5. /\ UNCHANGED <<creds, credsSaved, shelled, unforgotten, revived>> /\ UNCHANGED inviteVars
      /\ overlapped' = IF SigningIn(box) THEN overlapped \cup {box} ELSE overlapped
      /\ rows' = [rows EXCEPT ![box][1] = nextPw] /\ rows[box] # <<>>
  BY DEF replaceMailboxPassword, Exists, stashVars
<1>6. InvitationsInv'
  BY <1>2, <1>4, <1>5, InvitationsFrame
<1>7. /\ \A s \in Tasks : ~Resets(s)
      /\ Resets(t)' /\ \A s \in Tasks \ {t} : ~Resets(s)'
  BY <1>2, <1>4 DEF replaceMailboxPassword, Free, Resets
<1>8. OneReset'
  BY <1>7 DEF OneReset
<1>9. ASSUME NEW b \in Boxes \ (overlapped' \cup shelled')
      PROVE  Proved(b)' /\ ((b \notin revived)' => StashOK(b)')
  <2>1. b \notin overlapped \cup shelled
    BY <1>5
  <2>2. CASE b = box
    <3>1. ~SigningIn(b)
      BY <1>5, <2>2
    <3>2. Proved(b)'
      BY <1>2, <1>4, <3>1 DEF SigningIn, Proved
    <3>3. ~Settled(b)' /\ ~Forgot(b)'
      BY <1>2, <1>4, <1>7, <2>2 DEF Settled, Forgot
    <3>4. ASSUME NEW s \in Tasks PROVE CopyOK(s, b)'
      <4>1. s # t => Overtaken(s, b)'
        BY <1>2, <1>4, <1>7, <2>2 DEF Overtaken
      <4> QED BY <1>2, <1>4, <4>1 DEF CopyOK
    <3> QED BY <3>2, <3>3, <3>4 DEF StashOK
  <2>3. CASE b # box
    <3>1. rows'[b] = rows[b]
      BY <1>5, <2>3
    <3>2. Proved(b)'
      BY <1>2, <1>4, <2>1, <3>1 DEF Proved, StashInv
    <3>3. ASSUME b \notin revived PROVE StashOK(b)'
      <4>0. StashOK(b)
        BY <2>1, <3>3 DEF StashInv
      <4>1. Forgot(b)' => Forgot(b)
        BY <1>2, <1>4 DEF Forgot
      <4>2. Settled(b)
        BY <1>7 DEF Settled
      <4>3. ASSUME NEW s \in Tasks, CopyOK(s, b) PROVE CopyOK(s, b)'
        <5>1. ~Overtaken(s, b)
          BY <1>7 DEF Overtaken
        <5> QED BY <1>2, <1>4, <3>1, <4>3, <5>1 DEF CopyOK, Current, Exists
      <4> QED BY <1>5, <3>1, <4>0, <4>1, <4>2, <4>3 DEF StashOK, Current, Exists
    <3> QED BY <1>5, <3>2, <3>3
  <2> QED BY <2>2, <2>3
<1> QED BY <1>6, <1>8, <1>9 DEF StashInv

LEMMA SignInKeepsInv ==
  ASSUME MailTypeOK, InvitationsInv, StashInv, NEW t \in Tasks, NEW box \in Boxes, handleAuth(t, box)
  PROVE  InvitationsInv' /\ StashInv'
<1> DEFINE task == [Idle EXCEPT !.at = "signedIn", !.box = box, !.pw = Head(rows[box])]
<1>1. task.at = "signedIn" /\ task.box = box /\ task.pw = Head(rows[box]) /\ task.locks = {}
  BY DEF Idle
<1>2. tasks' = [tasks EXCEPT ![t] = task] /\ tasks[t] = Idle
  BY DEF handleAuth, Start
<1> HIDE DEF task
<1>3. tasks'[t] = task /\ \A s \in Tasks \ {t} : tasks'[s] = tasks[s]
  BY <1>2, TaskBecomes
<1>4. tasks[t].at = "idle"
  BY <1>2 DEF Idle
<1>5. /\ UNCHANGED <<rows, creds, credsSaved, shelled, unforgotten, revived>> /\ UNCHANGED inviteVars
      /\ rows[box] # <<>> /\ overlapped \subseteq overlapped'
  BY DEF handleAuth, Exists, sameButStash, accounts, stashVars
<1>6. InvitationsInv'
  BY <1>1, <1>3, <1>4, <1>5, InvitationsFrame
<1>7. \A s \in Tasks : Aside(s)
  BY <1>1, <1>3, <1>4, <1>5 DEF Aside
<1> QED BY <1>5, <1>6, <1>7, StashFrame

LEMMA PersistBegins ==
  ASSUME MailTypeOK, NEW t \in Tasks, Continue(t, "persist")
  PROVE  /\ tasks'[t].at = "persist" /\ tasks'[t].locks = tasks[t].locks /\ tasks'[t].box = tasks[t].box
         /\ \A s \in Tasks \ {t} : tasks'[s] = tasks[s]
<1> DEFINE task == [tasks[t] EXCEPT !.at = "persist"]
<1>1. tasks[t] \in TaskRec
  BY DEF MailTypeOK, TypedTask
<1>2. task.at = "persist" /\ task.locks = tasks[t].locks /\ task.box = tasks[t].box
  BY <1>1 DEF TaskRec
<1>3. tasks' = [tasks EXCEPT ![t] = task]
  BY DEF Continue
<1> HIDE DEF task
<1> QED BY <1>2, <1>3, TaskBecomes

LEMMA StashKeepsInv ==
  ASSUME MailTypeOK, InvitationsInv, StashInv, NEW t \in Tasks, stash(t)
  PROVE  InvitationsInv' /\ StashInv'
<1>1. /\ tasks[t].at = "signedIn" /\ tasks[t].box \in Boxes /\ "provision" \notin tasks[t].locks
      /\ creds' = [creds EXCEPT ![tasks[t].box] = tasks[t].pw]
  BY DEF stash, MailTypeOK, TypedTask, HasFields
<1>2. /\ tasks'[t].at = "persist" /\ tasks'[t].locks = tasks[t].locks
      /\ \A s \in Tasks \ {t} : tasks'[s] = tasks[s]
  BY PersistBegins DEF stash
<1>3. UNCHANGED <<rows, credsSaved, overlapped, shelled, unforgotten, revived>> /\ UNCHANGED inviteVars
  BY DEF stash, sameButStash, accounts
<1>4. InvitationsInv'
  BY <1>1, <1>2, <1>3, InvitationsFrame
<1>5. \A s \in Tasks : Aside(s)
  BY <1>1, <1>2 DEF Aside
<1>6. ASSUME NEW b \in Boxes \ (overlapped \cup shelled)
      PROVE  creds'[b] = creds[b] \/ Current(creds'[b], b)
  <2>1. CASE tasks[t].box # b
    BY <1>1, <2>1 DEF MailTypeOK
  <2>2. CASE tasks[t].box = b
    <3>1. creds'[b] = tasks[t].pw
      BY <1>1, <2>2 DEF MailTypeOK
    <3>2. rows[b] # <<>> /\ tasks[t].pw = Head(rows[b])
      BY <1>1, <2>2 DEF StashInv, Proved
    <3> QED BY <3>1, <3>2 DEF Current, Exists
  <2> QED BY <2>1, <2>2
<1> QED BY <1>3, <1>4, <1>5, <1>6, StashFrame

(* A reset's forgetting overtakes the copies made so far, and will save.   *)
LEMMA ForgetKeepsInv ==
  ASSUME MailTypeOK, InvitationsInv, StashInv, NEW t \in Tasks, forgetStashEverywhere(t)
  PROVE  InvitationsInv' /\ StashInv'
<1> DEFINE box == tasks[t].box
<1>1. /\ tasks[t].at = "reset" /\ box \in Boxes /\ Resets(t)
      /\ creds' = [creds EXCEPT ![box] = 0] /\ revived' = revived \ {box}
  BY DEF forgetStashEverywhere, MailTypeOK, TypedTask, HasFields, Resets
<1>2. /\ tasks'[t].at = "persist" /\ tasks'[t].locks = tasks[t].locks /\ tasks'[t].box = box
      /\ \A s \in Tasks \ {t} : tasks'[s] = tasks[s]
  BY PersistBegins DEF forgetStashEverywhere
<1>3. UNCHANGED <<rows, credsSaved, overlapped, shelled, unforgotten>> /\ UNCHANGED inviteVars
  BY DEF forgetStashEverywhere, sameButStash, accounts
<1>4. InvitationsInv'
  BY <1>1, <1>2, <1>3, InvitationsFrame
<1>5. \A s \in Tasks : Resets(s)' <=> Resets(s)
  BY <1>2 DEF Resets
<1>6. OneReset'
  BY <1>5 DEF OneReset, StashInv
<1>7. ASSUME NEW b \in Boxes \ (overlapped \cup shelled)
      PROVE  Proved(b)' /\ ((b \notin revived)' => StashOK(b)')
  <2>1. Proved(b)'
    BY <1>2, <1>3 DEF Proved, StashInv
  <2>2. CASE b = box
    <3>1. Current(creds[b], b)'
      BY <1>1, <2>2 DEF Current, MailTypeOK
    <3>2. ~Settled(b)'
      BY <1>1, <1>2, <1>5, <2>2 DEF Settled
    <3>3. ASSUME NEW s \in Tasks PROVE CopyOK(s, b)'
      <4>1. s # t => Overtaken(s, b)'
        BY <1>1, <1>2, <1>5, <2>2 DEF Overtaken
      <4> QED BY <1>2, <4>1 DEF CopyOK
    <3> QED BY <2>1, <3>1, <3>2, <3>3 DEF StashOK
  <2>3. ASSUME b # box, b \notin revived' PROVE StashOK(b)'
    <3>0. StashOK(b)
      BY <1>1, <2>3 DEF StashInv
    <3>1. creds'[b] = creds[b]
      BY <1>1, <2>3 DEF MailTypeOK
    <3>2. (Forgot(b)' => Forgot(b)) /\ (Settled(b)' => Settled(b))
      BY <1>1, <1>2, <1>5, <2>3 DEF Forgot, Settled
    <3>3. ASSUME NEW s \in Tasks, CopyOK(s, b) PROVE CopyOK(s, b)'
      <4>1. Overtaken(s, b) /\ s # t => Overtaken(s, b)'
        BY <1>2, <1>5, <2>3 DEF Overtaken
      <4> QED BY <1>2, <1>3, <3>3, <4>1 DEF CopyOK, Current, Exists
    <3> QED BY <1>3, <3>0, <3>1, <3>2, <3>3 DEF StashOK, Current, Exists
  <2> QED BY <2>1, <2>2, <2>3
<1> QED BY <1>3, <1>4, <1>6, <1>7 DEF StashInv

(* A copy is as right as the memory, or a reset of the mailbox has yet to  *)
(* forget and will overtake it; it overtakes the copies in progress.       *)
LEMMA CopyKeepsInv ==
  ASSUME MailTypeOK, InvitationsInv, StashInv, NEW t \in Tasks, persistCopy(t)
  PROVE  InvitationsInv' /\ StashInv'
<1>1. /\ tasks[t].at = "persist" /\ UNCHANGED inviteVars
      /\ UNCHANGED <<rows, creds, credsSaved, overlapped, shelled, unforgotten, revived>>
  BY DEF persistCopy, sameButStash, accounts, stashVars
<1>2. InvitationsInv'
  <2>1. \A s \in Tasks :
            \/ /\ tasks'[s].at = tasks[s].at /\ tasks'[s].invite = tasks[s].invite
               /\ tasks'[s].locks = tasks[s].locks
            \/ /\ tasks[s].at \notin {"claimed", "made"} /\ tasks'[s].at \notin {"claimed", "made"}
               /\ "invites" \in tasks'[s].locks => "invites" \in tasks[s].locks
    BY <1>1, CopyTasks
  <2> QED BY <1>1, <2>1, InvitationsFrame
<1>3. \A s \in Tasks : Resets(s)' <=> Resets(s)
  BY CopyTasks DEF Resets
<1>4. OneReset'
  BY <1>3 DEF OneReset, StashInv
<1>5. ASSUME NEW b \in Boxes \ (overlapped \cup shelled)
      PROVE  Proved(b)' /\ (b \notin revived => StashOK(b)')
  <2>1. Proved(b)'
    BY <1>1, CopyTasks DEF Proved, StashInv
  <2>2. ASSUME b \notin revived PROVE StashOK(b)'
    <3>0. StashOK(b)
      BY <2>2 DEF StashInv
    <3>1. (Forgot(b)' <=> Forgot(b)) /\ (Settled(b)' <=> Settled(b))
      BY <1>1, <1>3, CopyTasks DEF Forgot, Settled
    <3>2. CopyOK(t, b)'
      <4>1. CASE Forgot(b)
        BY <1>1, <3>0, <4>1, CopyTasks DEF StashOK, CopyOK, Current, Exists
      <4>2. CASE ~Forgot(b)
        <5> PICK s \in Tasks : tasks[s].at = "reset" /\ tasks[s].box = b
          BY <4>2 DEF Forgot
        <5>1. Resets(s) /\ s # t
          BY <1>1 DEF MailTypeOK, TypedTask, HasFields, Resets
        <5>2. tasks'[s].at = "reset" /\ tasks'[s].box = b
          BY <5>1, CopyTasks
        <5> QED BY <1>3, <5>1, <5>2 DEF CopyOK, Overtaken
      <4> QED BY <4>1, <4>2
    <3>3. ASSUME NEW s \in Tasks \ {t} PROVE CopyOK(s, b)'
      <4> SUFFICES ASSUME tasks'[s].at = "write", ~tasks'[s].late
                   PROVE  Current(tasks[s].copy[b], b)' \/ Overtaken(s, b)'
        BY DEF CopyOK
      <4>1. /\ tasks[s].at = "write" /\ ~tasks[s].late /\ tasks'[s].copy = tasks[s].copy
            /\ tasks[s].behind \cup {t} \subseteq tasks'[s].behind
        BY CopyTasks
      <4>2. Current(tasks[s].copy[b], b) \/ Overtaken(s, b)
        BY <3>0, <4>1 DEF StashOK, CopyOK
      <4>3. ASSUME Overtaken(s, b) PROVE Overtaken(s, b)'
        <5> PICK r \in Tasks \ {s} : /\ Resets(r) /\ tasks[r].box = b
                                     /\ tasks[r].at = "write" => r \in tasks[s].behind
          BY <4>3 DEF Overtaken
        <5>1. Resets(r)' /\ tasks'[r].box = b
          BY <1>3, CopyTasks
        <5>2. tasks'[r].at = "write" => r \in tasks'[s].behind
          BY <4>1, CopyTasks
        <5> QED BY <5>1, <5>2 DEF Overtaken
      <4> QED BY <1>1, <4>1, <4>2, <4>3 DEF Current, Exists
    <3> QED BY <1>1, <3>0, <3>1, <3>2, <3>3 DEF StashOK, Current, Exists
  <2> QED BY <2>1, <2>2
<1> QED BY <1>1, <1>2, <1>4, <1>5 DEF StashInv

(* A save that nobody overtook leaves no old password in the file, unless  *)
(* a later reset has yet to save; what the others write is recorded.       *)
LEMMA WriteKeepsInv ==
  ASSUME MailTypeOK, InvitationsInv, StashInv, NEW t \in Tasks, persistWrite(t)
  PROVE  InvitationsInv' /\ StashInv'
<1>1. /\ tasks[t].at = "write" /\ UNCHANGED inviteVars
      /\ UNCHANGED <<rows, creds, overlapped, shelled, revived>>
  BY DEF persistWrite, sameButStash, accounts
<1>2. InvitationsInv'
  <2>1. \A s \in Tasks :
            \/ /\ tasks'[s].at = tasks[s].at /\ tasks'[s].invite = tasks[s].invite
               /\ tasks'[s].locks = tasks[s].locks
            \/ /\ tasks[s].at \notin {"claimed", "made"} /\ tasks'[s].at \notin {"claimed", "made"}
               /\ "invites" \in tasks'[s].locks => "invites" \in tasks[s].locks
    BY <1>1, WriteTasks
  <2> QED BY <1>1, <2>1, InvitationsFrame
<1>3. /\ \A s \in Tasks \ {t} : Resets(s)' <=> Resets(s)
      /\ ~Resets(t)'
  BY WriteTasks DEF Resets
<1>4. OneReset'
  BY <1>3 DEF OneReset, StashInv
<1>5. ASSUME NEW b \in Boxes \ (overlapped \cup shelled)
      PROVE  Proved(b)' /\ (b \notin revived => StashOK(b)')
  <2>1. Proved(b)'
    BY <1>1, WriteTasks DEF Proved, StashInv
  <2>2. ASSUME b \notin revived PROVE StashOK(b)'
    <3>0. StashOK(b)
      BY <2>2 DEF StashInv
    <3>1. Forgot(b)' <=> Forgot(b)
      BY <1>1, WriteTasks DEF Forgot
    <3>2. ASSUME NEW s \in Tasks PROVE CopyOK(s, b)'
      <4> SUFFICES ASSUME tasks'[s].at = "write", ~tasks'[s].late
                   PROVE  Current(tasks[s].copy[b], b)' \/ Overtaken(s, b)'
        BY DEF CopyOK
      <4>1. /\ s # t /\ tasks[s].at = "write" /\ ~tasks[s].late /\ tasks'[s].copy = tasks[s].copy
            /\ t \notin tasks[s].behind /\ tasks'[s].behind = tasks[s].behind
        BY WriteTasks
      <4>2. Current(tasks[s].copy[b], b) \/ Overtaken(s, b)
        BY <3>0, <4>1 DEF StashOK, CopyOK
      <4>3. ASSUME Overtaken(s, b) PROVE Overtaken(s, b)'
        <5> PICK r \in Tasks \ {s} : /\ Resets(r) /\ tasks[r].box = b
                                     /\ tasks[r].at = "write" => r \in tasks[s].behind
          BY <4>3 DEF Overtaken
        <5>1. r # t
          BY <1>1, <4>1
        <5>2. Resets(r)' /\ tasks'[r].box = b /\ tasks'[r].at = tasks[r].at
          BY <1>3, <5>1, WriteTasks
        <5> QED BY <4>1, <5>2 DEF Overtaken
      <4> QED BY <1>1, <4>1, <4>2, <4>3 DEF Current, Exists
    <3>3. ASSUME Settled(b)', b \notin unforgotten' PROVE Current(credsSaved'[b], b)
      <4>1. \A r \in Tasks \ {t} : Resets(r) => tasks[r].box # b
        BY <1>3, <3>3, WriteTasks DEF Settled
      <4>2. Forgot(b)
        <5>1. \A r \in Tasks : tasks[r].at = "reset" => Resets(r) /\ r # t
          BY <1>1 DEF MailTypeOK, TypedTask, HasFields, Resets
        <5> QED BY <4>1, <5>1 DEF Forgot
      <4>3. CASE credsSaved' = tasks[t].copy /\ ~tasks[t].late
        <5>1. ~Overtaken(t, b)
          BY <4>1 DEF Overtaken
        <5> QED BY <1>1, <3>0, <4>3, <5>1 DEF StashOK, CopyOK
      <4>4. CASE /\ credsSaved' = tasks[t].copy
                 /\ unforgotten' = unforgotten \cup {c \in Boxes : tasks[t].copy[c] \notin {0, creds[c]}}
        <5>1. tasks[t].copy[b] \in {0, creds[b]}
          BY <3>3, <4>4
        <5>2. Current(creds[b], b) /\ Current(0, b)
          BY <3>0, <4>2 DEF StashOK, Current
        <5> QED BY <4>4, <5>1, <5>2
      <4>5. CASE /\ UNCHANGED credsSaved
                 /\ unforgotten' = IF Resets(t) THEN unforgotten \cup {tasks[t].box} ELSE unforgotten
        <5>1. b \notin unforgotten /\ (Resets(t) => tasks[t].box # b)
          BY <3>3, <4>5
        <5>2. Settled(b)
          BY <4>1, <5>1 DEF Settled
        <5> QED BY <3>0, <4>5, <5>1, <5>2 DEF StashOK
      <4> QED BY <4>3, <4>4, <4>5 DEF persistWrite
    <3> QED BY <1>1, <3>0, <3>1, <3>2, <3>3 DEF StashOK, Current, Exists
  <2> QED BY <2>1, <2>2
<1> QED BY <1>1, <1>2, <1>4, <1>5 DEF StashInv

(* The shell's commands change rows that are then no subject of the        *)
(* invariant, and write back entries that they record.                     *)
LEMMA ShellKeepsInv ==
  ASSUME MailTypeOK, InvitationsInv, StashInv, ShellInv,
         cliWrites \/ cliReadsStash \/ cliForgets \/ cliStashes
  PROVE  InvitationsInv' /\ StashInv'
<1>1. UNCHANGED <<tasks, creds, revived>> /\ UNCHANGED inviteVars
  BY DEF cliWrites, cliReadsStash, cliForgets, cliStashes, sameButShell, stashVars
<1>2. InvitationsInv'
  BY <1>1, InvitationsFrame
<1>3. \A s \in Tasks : Aside(s)
  BY <1>1 DEF Aside
<1>4. CASE cliWrites
  <2>1. /\ overlapped' = overlapped \cup {b \in Boxes : SigningIn(b)}
                           \cup {b \in Boxes \ {cliEdit.box} : rows[b] # cliEdit.copy[b]}
        /\ shelled' = shelled \cup {cliEdit.box} /\ rows' = cliEdit.copy
        /\ UNCHANGED <<credsSaved, unforgotten>>
    BY <1>4 DEF cliWrites, stashVars
  <2>2. \A b \in Boxes \ (overlapped' \cup shelled') : rows'[b] = rows[b]
    BY <2>1
  <2> QED BY <1>1, <1>2, <1>3, <2>1, <2>2, StashFrame
<1>5. CASE cliReadsStash
  <2>1. UNCHANGED <<rows, credsSaved, overlapped, shelled, unforgotten>>
    BY <1>5 DEF cliReadsStash, sameButShell, accounts
  <2> QED BY <1>1, <1>2, <1>3, <2>1, StashFrame
<1>6. ASSUME NEW pw, cliWritesStash(pw), sameButShell, cliEdit.box \in shelled,
             cliEdit.stash \in [Boxes -> Nat]
      PROVE  StashInv'
  <2>1. UNCHANGED <<rows, overlapped, shelled>>
    BY <1>6 DEF sameButShell, accounts
  <2>2. unforgotten \subseteq unforgotten'
    BY <1>6 DEF cliWritesStash
  <2>3. ASSUME NEW b \in Boxes \ (overlapped' \cup shelled'), b \notin unforgotten'
        PROVE  credsSaved'[b] \in {0, credsSaved[b]}
    <3>1. b # cliEdit.box
      BY <1>6, <2>1
    <3>2. CASE UNCHANGED credsSaved
      BY <3>2
    <3>3. CASE /\ credsSaved' = [cliEdit.stash EXCEPT ![cliEdit.box] = pw]
               /\ unforgotten' = unforgotten \cup
                    {c \in Boxes \ {cliEdit.box} : cliEdit.stash[c] \notin {0, credsSaved[c]}}
      <4>1. credsSaved'[b] = cliEdit.stash[b]
        BY <1>6, <3>1, <3>3
      <4> QED BY <2>3, <3>1, <3>3, <4>1
    <3> QED BY <1>6, <3>2, <3>3 DEF cliWritesStash
  <2> QED BY <1>1, <1>3, <2>1, <2>2, <2>3, StashFrame
<1>7. CASE cliForgets \/ cliStashes
  <2>1. cliEdit.box \in shelled /\ cliEdit.stash \in [Boxes -> Nat]
    BY <1>7 DEF ShellInv, MailTypeOK, cliForgets, cliStashes
  <2> QED BY <1>2, <1>6, <1>7, <2>1 DEF cliForgets, cliStashes
<1> QED BY <1>4, <1>5, <1>7

LEMMA ShellKeepsOwn ==
  ASSUME MailTypeOK, ShellInv, MailNext
  PROVE  ShellInv'
<1>1. CASE ShellSteps
  <2>1. CASE cliWrites
    <3>1. cliEdit' = [cliEdit EXCEPT !.at = "forget"] /\ cliEdit \in ShellEdit
      BY <2>1 DEF cliWrites, MailTypeOK
    <3>2. cliEdit'.box = cliEdit.box
      BY <3>1 DEF ShellEdit
    <3> QED BY <2>1, <3>2 DEF cliWrites, ShellInv
  <2>2. CASE \E b \in Boxes : adminCmdResetPassword(b) \/ adminCmdSetupNoreply(b)
    <3>1. cliEdit' # None => cliEdit'.at = "users"
      BY <2>2 DEF adminCmdResetPassword, adminCmdSetupNoreply, cliReplaces
    <3> QED BY <3>1 DEF ShellInv
  <2>3. CASE cliReadsStash \/ cliForgets \/ cliStashes
    <3>1. /\ cliEdit \in ShellEdit /\ cliEdit # None /\ cliEdit.at # "users" /\ UNCHANGED shelled
          /\ \/ cliEdit' = None
             \/ cliEdit' = [cliEdit EXCEPT !.at = "load"]
             \/ cliEdit' = [cliEdit EXCEPT !.stash = credsSaved,
                                            !.at = IF @ = "forget" THEN "forgets" ELSE "stashes"]
      BY <2>3 DEF cliReadsStash, cliForgets, cliStashes, cliGoesOn, sameButShell, MailTypeOK
    <3>2. cliEdit' = None \/ cliEdit'.box = cliEdit.box
      BY <3>1 DEF ShellEdit
    <3> QED BY <3>1, <3>2 DEF ShellInv
  <2> QED BY <1>1, <2>1, <2>2, <2>3 DEF ShellSteps
<1>2. ASSUME UNCHANGED <<cliEdit, shelled>> PROVE ShellInv'
  BY <1>2 DEF ShellInv
<1>3. CASE UNCHANGED mailboxVars
  BY <1>2, <1>3 DEF mailboxVars, resetHistory
<1>4. CASE MailRestart
  BY <1>2, <1>4 DEF MailRestart
<1>5. ASSUME NEW t \in Tasks, InviteSteps(t) PROVE UNCHANGED <<cliEdit, shelled>>
  BY <1>5 DEF InviteSteps, issue, inviteExpires, revokeByPrefix, sameButInvites, completeByToken,
     completeByInvite, provisionMailbox, markUsed, sameButTasks, resetHistory
<1>6. ASSUME NEW t \in Tasks, NEW b \in Boxes, replaceMailboxPassword(t, b)
      PROVE  UNCHANGED <<cliEdit, shelled>>
  BY <1>6 DEF replaceMailboxPassword
<1>7. ASSUME NEW t \in Tasks, StashSteps(t) PROVE UNCHANGED <<cliEdit, shelled>>
  BY <1>6, <1>7 DEF StashSteps, handleAdminResetPassword, handleAuth, stash, forgetStashEverywhere,
     persistCopy, persistWrite, sameButStash
<1>8. ASSUME NEW t \in Tasks, ForgotSteps(t) PROVE UNCHANGED <<cliEdit, shelled>>
  BY <1>8 DEF ForgotSteps, handleRequest, dismissByID, gcLocked, approveByID, approvalMailed,
     sameButForgot, resetHistory
<1>9. ASSUME NEW t \in Tasks, LinkSteps(t) PROVE UNCHANGED <<cliEdit, shelled>>
  <2>1. CASE submitResets(t)
    <3>1. tasks[t].box \in Boxes
      BY <2>1 DEF submitResets, MailTypeOK, TypedTask, HasFields
    <3> QED BY <1>6, <2>1, <3>1 DEF submitResets, sameButTasks, resetHistory
  <2> QED BY <1>9, <2>1 DEF LinkSteps, handleRoleRecover, adminCmdMintRecover, linkExpires, handleSubmit,
             record, sameButTasks, sameButForgot, forgetStashEverywhere, persistCopy, persistWrite,
             sameButStash, resetHistory
<1> QED BY <1>1, <1>2, <1>3, <1>4, <1>5, <1>7, <1>8, <1>9 DEF MailNext, AccountSteps

LEMMA MailRestartKeepsInv ==
  ASSUME MailTypeOK, InvitationsInv, StashInv, MailRestart
  PROVE  InvitationsInv' /\ StashInv'
<1>1. /\ UNCHANGED <<rows, madeBy, invitesSaved, credsSaved, shelled, unforgotten>>
      /\ invites' = invitesSaved /\ creds' = credsSaved /\ revived' = revived \cup unforgotten
      /\ spoiled' = spoiled \cup {tasks[t].invite : t \in {s \in Tasks : tasks[s].at = "made"}}
      /\ overlapped' = overlapped \cup {tasks[t].box : t \in {s \in Tasks : Resets(s)}}
  BY DEF MailRestart, accounts
<1>2. \A t \in Tasks : tasks'[t].at = "idle" /\ tasks'[t].locks = {}
  BY DEF MailRestart, Idle
<1>3. Claims'
  BY <1>2 DEF Claims, Completing
<1>4. ASSUME NEW i \in Invites \ spoiled' PROVE Unmade(i)' \/ MadeOnce(i)'
  <2>1. i \notin spoiled /\ \A t \in Tasks : Completing(t, i) => tasks[t].at # "made"
    BY <1>1 DEF Completing
  <2>2. CASE Unmade(i)
    BY <1>1, <1>2, <2>2 DEF Unmade, Completing
  <2>3. CASE MadeOnce(i)
    <3>1. \A t \in Tasks : ~Completing(t, i)
      BY <2>1, <2>3 DEF MadeOnce
    <3> QED BY <1>1, <1>2, <2>3, <3>1 DEF MadeOnce, Completing
  <2> QED BY <2>1, <2>2, <2>3 DEF InvitationsInv
<1>5. OneReset'
  BY <1>2 DEF OneReset, Resets
<1>6. ASSUME NEW b \in Boxes \ (overlapped' \cup shelled')
      PROVE  Proved(b)' /\ ((b \notin revived)' => StashOK(b)')
  <2>1. b \notin overlapped \cup shelled /\ Settled(b)
    BY <1>1 DEF Settled
  <2>2. Proved(b)'
    BY <1>2 DEF Proved
  <2>3. ASSUME b \notin revived' PROVE StashOK(b)'
    <3>1. Current(credsSaved[b], b)
      BY <1>1, <2>1, <2>3 DEF StashInv, StashOK
    <3>2. \A t \in Tasks : CopyOK(t, b)'
      BY <1>2 DEF CopyOK
    <3> QED BY <1>1, <3>1, <3>2 DEF StashOK, Current, Exists
  <2> QED BY <2>2, <2>3
<1> QED BY <1>3, <1>4, <1>5, <1>6 DEF InvitationsInv, StashInv

------------------------------------------------------------------------------
LEMMA MailInitInv == MailboxesInit => MailInv
<1> SUFFICES ASSUME MailboxesInit PROVE MailInv
  OBVIOUS
<1>1. \A t \in Tasks : tasks[t] = Idle
  BY DEF MailboxesInit
<1>2. rows \in [Boxes -> Seq(Nat)] /\ \A b \in Boxes : rows[b] = <<1>> \/ rows[b] = <<>>
  <2> PICK have \in {{}, Boxes} : rows = [b \in Boxes |-> IF b \in have THEN <<1>> ELSE <<>>]
    BY DEF MailboxesInit
  <2>1. <<1>> \in Seq(Nat) /\ <<>> \in Seq(Nat)
    OBVIOUS
  <2> QED BY <2>1
<1>3. creds \in [Boxes -> Nat] /\ \A b \in Boxes : creds[b] = 0 \/ creds[b] = Len(rows[b])
  BY <1>2 DEF MailboxesInit
<1>4. MailTypeOK
  BY <1>2, <1>3, IdleType DEF MailboxesInit, MailTypeOK, InviteStates
<1>5. InvitationsInv
  BY <1>1 DEF MailboxesInit, InvitationsInv, Claims, Unmade, Completing, Idle
<1>6. ShellInv
  BY DEF MailboxesInit, ShellInv
<1>7. StashInv
  <2>0. OneReset /\ \A t \in Tasks : tasks[t].at = "idle"
    BY <1>1 DEF OneReset, Resets, Idle
  <2> SUFFICES ASSUME NEW b \in Boxes PROVE Current(creds[b], b)
    BY <2>0 DEF StashInv, Proved, StashOK, CopyOK, MailboxesInit
  <2>2. CASE rows[b] = <<1>>
    <3>1. Len(rows[b]) = 1 /\ Head(rows[b]) = 1 /\ rows[b] # <<>>
      BY <2>2
    <3> QED BY <1>3, <3>1 DEF Current, Exists
  <2>3. CASE rows[b] = <<>>
    <3>1. Len(rows[b]) = 0
      BY <2>3
    <3> QED BY <1>3, <3>1 DEF Current, Exists
  <2> QED BY <1>2, <2>2, <2>3
<1> QED BY <1>4, <1>5, <1>6, <1>7 DEF MailInv

LEMMA MailStepInv == MailInv /\ [MailNext]_<<mailboxVars, settingVars>> => MailInv'
<1> SUFFICES ASSUME MailTypeOK, InvitationsInv, StashInv, ShellInv,
                    [MailNext]_<<mailboxVars, settingVars>>
             PROVE  MailInv'
  BY DEF MailInv
<1>0. ShellInv'
  <2>1. CASE UNCHANGED <<mailboxVars, settingVars>>
    BY <2>1 DEF ShellInv, mailboxVars, resetHistory
  <2> QED BY <2>1, ShellKeepsOwn
<1>1. CASE UNCHANGED mailboxVars
  <2>1. Quiet
    BY <1>1, UntouchedIsQuiet DEF mailboxVars, QuietVars, accounts, inviteVars
  <2>2. MailTypeOK'
    BY <1>1 DEF MailTypeOK, mailboxVars, accounts, inviteVars, stashVars, forgotVars, linkVars
  <2> QED BY <1>0, <2>1, <2>2, QuietKeepsInv DEF MailInv
<1>2. CASE MailRestart
  BY <1>0, <1>2, MailRestartKeepsInv, MailTypes DEF MailInv
<1>3. CASE AccountSteps
  <2>1. MailTypeOK'
    BY <1>3, MailTypes
  <2>2. ASSUME NEW t \in Tasks, InviteSteps(t) PROVE InvitationsInv' /\ StashInv'
    BY <2>2, InvitesKeepInv, SubmitIsQuiet, ClaimKeepsInv, ProvisionKeepsInv, MarkKeepsInv,
       QuietKeepsInv DEF InviteSteps
  <2>3. ASSUME NEW t \in Tasks, StashSteps(t) PROVE InvitationsInv' /\ StashInv'
    <3>1. ASSUME NEW b \in Boxes, handleAdminResetPassword(t, b) PROVE InvitationsInv' /\ StashInv'
      BY <3>1, ReplaceKeepsInv DEF handleAdminResetPassword, Idle
    <3> QED BY <2>3, <3>1, SignInKeepsInv, StashKeepsInv, ForgetKeepsInv, CopyKeepsInv, WriteKeepsInv
        DEF StashSteps
  <2>4. ASSUME NEW t \in Tasks, ForgotSteps(t) PROVE InvitationsInv' /\ StashInv'
    BY <2>4, RequestsAreQuiet, SubmitIsQuiet, EndIsQuiet, QuietKeepsInv DEF ForgotSteps
  <2>5. ASSUME NEW t \in Tasks, LinkSteps(t) PROVE InvitationsInv' /\ StashInv'
    <3>1. CASE submitResets(t)
      <4>1. tasks[t].at = "checked" /\ tasks[t].box \in Boxes
        BY <3>1 DEF submitResets, MailTypeOK, TypedTask, HasFields
      <4> QED BY <3>1, <4>1, ReplaceKeepsInv, EndIsQuiet, QuietKeepsInv DEF submitResets
    <3> QED BY <2>5, <3>1, RequestsAreQuiet, SubmitIsQuiet, EndIsQuiet, ForgetKeepsInv, CopyKeepsInv,
               WriteKeepsInv, QuietKeepsInv DEF LinkSteps
  <2>6. CASE ShellSteps
    <3>1. CASE \E b \in Boxes : adminCmdResetPassword(b) \/ adminCmdSetupNoreply(b)
      <4>1. Quiet
        BY <3>1, RequestsAreQuiet
      <4> QED BY <2>1, <4>1, QuietKeepsInv, <1>0 DEF MailInv
    <3>2. CASE cliWrites \/ cliReadsStash \/ cliForgets \/ cliStashes
      BY <1>0, <2>1, <3>2, ShellKeepsInv DEF MailInv
    <3> QED BY <2>6, <3>1, <3>2 DEF ShellSteps
  <2> QED BY <1>0, <1>3, <2>1, <2>2, <2>3, <2>4, <2>5, <2>6 DEF AccountSteps, MailInv
<1> QED BY <1>1, <1>2, <1>3 DEF MailNext

LEMMA MailIsInv == MailSpec => []MailInv
  BY MailInitInv, MailStepInv, PTL DEF MailSpec

(* The users file, the handlers in progress, the invitations, the stash,   *)
(* the shell's copy and the recovery links keep their types, and every     *)
(* handler has the fields its stage uses.                                  *)
THEOREM MailTypeCorrect == MailSpec => []MailTypeOK
<1>1. MailInv => MailTypeOK
  BY DEF MailInv
<1> QED BY <1>1, MailIsInv, PTL

(* For any number of completions at once, however their steps interleave   *)
(* and wherever a restart falls: an invitation makes one mailbox as long   *)
(* as its use was recorded.                                                *)
THEOREM InvitationsMakeOneMailbox == MailSpec => []InviteMakesOneMailbox
<1>1. MailInv => InviteMakesOneMailbox
  <2> SUFFICES ASSUME MailInv, NEW i \in Invites \ spoiled PROVE Cardinality(madeBy[i]) <= 1
    BY DEF InviteMakesOneMailbox
  <2>1. CASE Unmade(i)
    BY <2>1, FS_EmptySet DEF Unmade
  <2>2. CASE MadeOnce(i)
    <3> PICK b \in Boxes : madeBy[i] = {b}
      BY <2>2 DEF MadeOnce
    <3>1. Cardinality(madeBy[i]) = 1
      BY FS_Singleton
    <3> QED BY <3>1
  <2> QED BY <2>1, <2>2 DEF MailInv, InvitationsInv
<1> QED BY <1>1, MailIsInv, PTL

(* For any mailboxes and any number of resets, sign-ins and saves at once, *)
(* through restarts: once a reset of the service is over, the memory holds *)
(* no password it replaced, nor does the file, unless its save failed or   *)
(* an older copy was written after it, which the history records; what a   *)
(* boot read of such a file stays out until the next reset.                *)
THEOREM ResetsWipeStash == MailSpec => []ServerResetWipesStash
<1>1. MailInv => ServerResetWipesStash
  <2> SUFFICES ASSUME MailInv, NEW b \in Boxes \ (overlapped \cup shelled \cup revived), Settled(b)
               PROVE  Current(creds[b], b) /\ (b \notin unforgotten => Current(credsSaved[b], b))
    BY DEF ServerResetWipesStash
  <2>1. StashOK(b)
    BY DEF MailInv, StashInv
  <2>2. Forgot(b)
    BY DEF MailInv, MailTypeOK, TypedTask, HasFields, Settled, Resets, Forgot
  <2> QED BY <2>1, <2>2 DEF StashOK
<1> QED BY <1>1, MailIsInv, PTL
==============================================================================
