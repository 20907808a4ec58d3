------------------------------ MODULE MCWebmail ------------------------------
(* Small instances of the mail service.  A behaviour runs the handlers of  *)
(* one slice, so that the state spaces add up instead of multiplying.      *)
EXTENDS MailSettings

CONSTANTS MailSlices, MaxRestarts

VARIABLES part, restarts

rest == <<part, restarts>>
mailVars == <<mailboxVars, settingVars, rest>>

MCInit ==
    /\ part \in MailSlices /\ restarts = 0
    /\ MailboxesInit /\ SettingsInit
    /\ part \in {"invites"} \/ rows = [b \in Boxes |-> <<1>>]
    /\ part \in {"passkeys", "shell"} \/ creds = [b \in Boxes |-> 0]
    /\ part = "passkeys" \/ authCount = [k \in MailKeys |-> 0]

SlicedSettings ==
    \/ /\ part = "passkeys" /\ \E b \in Boxes : PasskeySteps(b)
       /\ UNCHANGED <<keyVars, forwardVars, letterVars>>
    \/ part = "keys" /\ KeySteps /\ UNCHANGED <<passkeyVars, forwardVars, letterVars>>
    \/ /\ part = "forwards" /\ \E e \in Editors : ForwardSteps(e)
       /\ UNCHANGED <<passkeyVars, keyVars, letterVars>>
    \/ /\ part = "letters" /\ \E m \in Letters : LetterSteps(m)
       /\ UNCHANGED <<passkeyVars, keyVars, forwardVars>>

SlicedAccounts ==
    \/ part = "invites" /\ \E t \in Tasks : InviteSteps(t)
    \/ part = "passwords" /\ \E t \in Tasks : StashSteps(t)
    \/ part = "shell" /\ (ShellSteps \/ StashSteps(CHOOSE t \in Tasks : TRUE))
    \/ part = "forgot" /\ \E t \in Tasks : ForgotSteps(t)
    \/ part = "links" /\ \E t \in Tasks : LinkSteps(t)

MCNext ==
    \/ SlicedAccounts /\ UNCHANGED <<settingVars, rest>>
    \/ SlicedSettings /\ UNCHANGED <<mailboxVars, rest>>
    \/ /\ part # "forwards" /\ restarts < MaxRestarts /\ restarts' = restarts + 1 /\ UNCHANGED part
       /\ MailRestart /\ SettingsRestart

MCSpec == MCInit /\ [][MCNext]_mailVars
==============================================================================
