------------------------------- MODULE MCSignIn -------------------------------
(* Small instances of the account modules.  A behaviour runs the handlers  *)
(* of one slice, so that the state spaces add up instead of multiplying.   *)
EXTENDS Invitations, Terminal

CONSTANTS Slices, MaxBoots, noc, ann

MCAlphaOrder == <<ann, noc>>
MCProviders == {"telegram", "github"}

VARIABLES slice, boots     \* boots is bounded by MaxBoots

rest == <<signInVars, invitationVars>>
allVars == <<vars, rest, termVars, slice, boots>>

base == [Account("operator", CHOOSE pw \in Passwords : TRUE, 0) EXCEPT !.approved = TRUE]
Start ==
    [u \in Users |->
        LET rec == IF u = noc THEN [base EXCEPT !.role = "admin"] ELSE base
        IN  CASE slice = "accounts" /\ u = ann -> Absent
              [] slice \in {"secrets", "devices"} /\ u = ann ->
                    [rec EXCEPT !.totp = CHOOSE x \in Secrets : TRUE]
              [] slice = "keys" /\ u = ann -> [rec EXCEPT !.keys = SshKeys]
              [] slice = "invites" /\ u = ann -> Absent
              [] OTHER -> rec]

MCInit ==
    /\ slice \in Slices /\ boots = 0
    /\ OperatorsInit(IF slice = "firstboot" THEN loadAuthStore(NoDoc, 0) ELSE Start, Users)
    /\ SignInInit /\ InvitationsInit /\ TermInit

Accounts ==
    AccountSteps \/ \E caller, u \in Users : handleOperatorsApprove(caller, u)

\* One of two, in a slice where a second would only multiply the states.
OneTicket == CHOOSE t \in Tickets : TRUE
OneSaver == CHOOSE w \in Savers : TRUE

AccountSlices ==
    \/ slice \in {"accounts", "firstboot"} /\ Accounts /\ UNCHANGED rest
    \/ slice = "secrets" /\ SecretSteps(ann) /\ UNCHANGED rest
    \/ slice = "identities" /\ IdentitySteps("github") /\ UNCHANGED invitationVars
    \/ /\ slice = "telegram" /\ TelegramSteps /\ UNCHANGED invitationVars
       /\ \A t \in Tickets \ {OneTicket} : tickets'[t] = Unissued
    \/ slice = "tickets" /\ TicketOnlySteps /\ UNCHANGED invitationVars
    \/ slice = "passkeys" /\ PasskeySteps(ann) /\ UNCHANGED invitationVars
    \/ slice = "keys" /\ KeySteps(ann) /\ UNCHANGED invitationVars
    \/ slice = "devices" /\ DeviceSteps(ann, OneSaver) /\ UNCHANGED invitationVars
    \/ slice \in {"telegram", "tickets", "passkeys", "keys"} /\ TicketSteps
         /\ UNCHANGED invitationVars
    \/ slice \in {"identities", "telegram", "devices", "links"} /\ Persisting
         /\ UNCHANGED invitationVars
    \/ /\ slice = "invites"
       /\ \/ InviteSteps(OneTicket)
          \/ /\ \E u \in Users, k \in Passkeys : handlePasskeyRegFinish(u, OneTicket, k)
             /\ UNCHANGED invitationVars
    \/ slice = "tokens" /\ TokenSteps(OneSaver)
    \/ slice = "links" /\ LinkSteps(ann)

MCNext ==
    \/ AccountSlices /\ UNCHANGED <<termVars, slice, boots>>
    \/ /\ slice \notin {"terminal", "devices"} /\ boots < MaxBoots /\ boots' = boots + 1
       /\ slice = "tokens" \/ UNCHANGED tokenStore
       /\ InvitationsRestart /\ UNCHANGED <<termVars, slice>>
    \/ slice = "terminal" /\ TermNext /\ UNCHANGED <<vars, rest, slice, boots>>

MCSpec == MCInit /\ [][MCNext]_allVars /\ TermFairness
==============================================================================
