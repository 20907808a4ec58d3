------------------------------- MODULE BotAgent -------------------------------
(***************************************************************************)
(* The assistant's agent in Telegram (backend/agent.go, bot_agent_tg.go).  *)
(* The model proposes tool calls; a call that reads is run at once, one    *)
(* that writes waits for a human: the operator, if an admin, taps the card *)
(* of the call in the chat, else any admin taps a card of its own.  A tap  *)
(* is checked in the bot's loop and carried out by a goroutine that looks  *)
(* at the session again; /agent may have replaced the session meanwhile.   *)
(*                                                                         *)
(* A conversation is what agentAdvance reads of the messages: the calls of *)
(* the model's last turn and those answered.  Only calls that write appear:*)
(* one that reads is run and answered within agentAdvance, as is an        *)
(* unknown tool.  Expiry is left out, and so is agentMaxTurns: a session   *)
(* is stepped by replyAgent only, once.                                    *)
(***************************************************************************)
EXTENDS Naturals, FiniteSets, Sequences, SequencesExt

CONSTANTS
    AgentKeys,          \* agentKey: a chat and its operator
    AgentAdmins,        \* those whose operator is an admin
    Steps,              \* goroutines of agentStep
    Taps,               \* goroutines that carry out a tap
    MaxCalls,           \* bound on the calls the model proposes
    NoCall, NoSession

ASSUME BotAgentAssumption ==
    AgentAdmins \subseteq AgentKeys /\ IsFiniteSet(Taps) /\ NoCall \notin Nat

VARIABLES
    agentSessions,      \* the session of a key: its messages and pending call
    steps,              \* each agentStep: the key and the messages it copied
    taps,               \* each tap: what it decided, and how far it is
    adminApprovals,     \* the cards sent to the admins: [key, call], once each
    selfCards,          \* the cards sent to an operator who is an admin
    nextCall,           \* ids the model has used
    ran,                \* history: how often each call was executed
    granted             \* history: the approvals tapped, by the card's call

agentVars == <<agentSessions, steps, taps, adminApprovals, selfCards, nextCall, ran, granted>>

Calls == 1 .. MaxCalls
Conversations == [calls : Seq(Calls), answered : SUBSET Calls]
NewTask == [calls |-> <<>>, answered |-> {}]
Dormant == [at |-> "idle"]

AgentTypeOK ==
    /\ \A k \in AgentKeys :
         \/ agentSessions[k] = NoSession
         \/ agentSessions[k].messages \in Conversations /\ agentSessions[k].pending \in Calls \cup {NoCall}
    /\ \A s \in Steps : steps[s] = Dormant \/ (steps[s].key \in AgentKeys /\ steps[s].at \in {"started", "copied"})
    /\ \A t \in Taps : taps[t] = Dormant \/ (taps[t].key \in AgentKeys /\ taps[t].at \in {"started", "copied", "executed"})
    /\ adminApprovals \subseteq [key : AgentKeys, call : Calls, sid : Nat]
    /\ selfCards \subseteq [key : AgentKeys, call : Calls]
    /\ nextCall \in 0 .. MaxCalls
    /\ ran \in [AgentKeys \X Calls -> Nat] /\ granted \in [AgentKeys \X Calls -> Nat]

AgentInit ==
    /\ agentSessions = [k \in AgentKeys |-> NoSession]
    /\ steps = [s \in Steps |-> Dormant] /\ taps = [t \in Taps |-> Dormant]
    /\ adminApprovals = {} /\ selfCards = {} /\ nextCall = 0
    /\ ran = [x \in AgentKeys \X Calls |-> 0] /\ granted = ran

------------------------------------------------------------------------------
(* What agentAdvance may return: the call it stopped at, if any.           *)

Unanswered(m) == SelectSeq(m.calls, LAMBDA c : c \notin m.answered)
firstUnansweredToolCall(m) == IF Unanswered(m) = <<>> THEN NoCall ELSE Head(Unanswered(m))

(* The model's turn: an answer, or one or two calls that write.            *)
Proposals == {<<>>} \cup {[i \in 1 .. n |-> nextCall + i] : n \in {x \in 1 .. 2 : nextCall + x <= MaxCalls}}

agentAdvance(m) ==
    IF firstUnansweredToolCall(m) # NoCall
    THEN {[messages |-> m, pending |-> firstUnansweredToolCall(m)]}
    ELSE {LET said == [calls |-> p, answered |-> {}]
          IN  [messages |-> said, pending |-> firstUnansweredToolCall(said)] : p \in Proposals}

Used(res) == IF res.messages.calls = <<>> THEN 0 ELSE Last(res.messages.calls)
proposed(res) == nextCall' = IF Used(res) > nextCall THEN Used(res) ELSE nextCall

(* The random sid of a card: one that no other card of the call has.       *)
Sids(c) == {a.sid : a \in {b \in adminApprovals : b.call = c}}
NewSid(c) == CHOOSE n \in 0 .. Cardinality(Sids(c)) : n \notin Sids(c)

(* agentRenderSession with routeWriteToAdmins: a pending call gets a card, *)
(* the operator's own or one for the admins.                               *)
agentRenderSession(k, res) ==
    IF res.pending = NoCall THEN UNCHANGED <<selfCards, adminApprovals>>
    ELSE IF k \in AgentAdmins
    THEN selfCards' = selfCards \cup {[key |-> k, call |-> res.pending]} /\ UNCHANGED adminApprovals
    ELSE /\ adminApprovals' = adminApprovals \cup
              {[key |-> k, call |-> res.pending,
                sid |-> NewSid(res.pending)]}
         /\ UNCHANGED selfCards

(* The result replaces the conversation of whatever session has the key.   *)
finish(k, res) ==
    /\ agentSessions' = [agentSessions EXCEPT ![k] = res]
    /\ proposed(res)
    /\ agentRenderSession(k, res)

------------------------------------------------------------------------------
(* /agent: a new session takes the key, and is stepped in a goroutine.     *)
replyAgent(k, s) ==
    /\ steps[s] = Dormant
    /\ agentSessions' = [agentSessions EXCEPT ![k] = [messages |-> NewTask, pending |-> NoCall]]
    /\ steps' = [steps EXCEPT ![s] = [at |-> "started", key |-> k]]
    /\ UNCHANGED <<taps, adminApprovals, selfCards, nextCall, ran, granted>>

agentStepReads(s) ==
    /\ steps[s].at = "started"
    /\ steps' = [steps EXCEPT ![s] = [at |-> "copied", key |-> steps[s].key,
                                      msgs |-> agentSessions[steps[s].key].messages]]
    /\ UNCHANGED <<agentSessions, taps, adminApprovals, selfCards, nextCall, ran, granted>>

(* The model may also fail to answer, which leaves the session as it is.   *)
agentStep(s) ==
    /\ steps[s].at = "copied"
    /\ steps' = [steps EXCEPT ![s] = Dormant]
    /\ \/ UNCHANGED <<agentSessions, nextCall, selfCards, adminApprovals>>
       \/ \E res \in agentAdvance(steps[s].msgs) : finish(steps[s].key, res)
    /\ UNCHANGED <<taps, ran, granted>>

------------------------------------------------------------------------------
(* Taps.  An accepted one starts a goroutine.                              *)

startTap(t, k, c, who, approve) ==
    /\ taps[t] = Dormant
    /\ taps' = [taps EXCEPT ![t] = [at |-> "started", key |-> k, call |-> c, who |-> who,
                                    approve |-> approve, msgs |-> NewTask]]
    /\ granted' = [granted EXCEPT ![<<k, c>>] = IF approve THEN @ + 1 ELSE @]

handleSelfApproval(t, card, approve) ==
    /\ card \in selfCards
    /\ agentSessions[card.key] # NoSession /\ agentSessions[card.key].pending = card.call
    /\ startTap(t, card.key, card.call, "self", approve)
    /\ UNCHANGED <<agentSessions, steps, adminApprovals, selfCards, nextCall, ran>>

handleAdminApproval(t, appr, approve) ==
    /\ appr \in adminApprovals
    /\ adminApprovals' = adminApprovals \ {appr}
    /\ startTap(t, appr.key, appr.call, "admin", approve)
    /\ UNCHANGED <<agentSessions, steps, selfCards, nextCall, ran>>

(* A mutant: an admin's tap is for what is pending, as a self-approval's.  *)
MutCallPending(t) == agentSessions[taps[t].key].pending

(* The goroutine takes the messages.  A self-approval also takes the call  *)
(* that is pending by now; an admin's card names its own.                  *)
CallOf(t) ==
    IF taps[t].who = "self" THEN agentSessions[taps[t].key].pending ELSE taps[t].call

tapReads(t) ==
    /\ taps[t].at = "started"
    /\ LET k == taps[t].key
           sess == agentSessions[k]
       IN  IF taps[t].who = "self" /\ sess.pending = NoCall
           THEN taps' = [taps EXCEPT ![t] = Dormant] /\ UNCHANGED agentSessions
           ELSE /\ taps' = [taps EXCEPT ![t].at = "copied", ![t].call = CallOf(t),
                                        ![t].msgs = sess.messages]
                /\ agentSessions' = [agentSessions EXCEPT ![k].pending = NoCall]
    /\ UNCHANGED <<steps, adminApprovals, selfCards, nextCall, ran, granted>>

(* agentExecuteApproved refuses a call that is not of the last turn or     *)
(* that is answered already in the copy.                                   *)
approvable(m, c) == c \in Range(m.calls) \ m.answered

agentExecuteApproved(t) ==
    /\ taps[t].at = "copied"
    /\ IF approvable(taps[t].msgs, taps[t].call)
       THEN /\ taps' = [taps EXCEPT ![t].at = "executed", ![t].msgs.answered = @ \cup {taps[t].call}]
            /\ ran' = [ran EXCEPT ![<<taps[t].key, taps[t].call>>] = IF taps[t].approve THEN @ + 1 ELSE @]
       ELSE taps' = [taps EXCEPT ![t] = Dormant] /\ UNCHANGED ran
    /\ UNCHANGED <<agentSessions, steps, adminApprovals, selfCards, nextCall, granted>>

tapEnds(t) ==
    /\ taps[t].at = "executed"
    /\ taps' = [taps EXCEPT ![t] = Dormant]
    /\ \/ UNCHANGED <<agentSessions, nextCall, selfCards, adminApprovals>>
       \/ \E res \in agentAdvance(taps[t].msgs) : finish(taps[t].key, res)
    /\ UNCHANGED <<steps, ran, granted>>

(* Sessions and cards are in memory only.                                  *)
AgentRestart ==
    /\ agentSessions' = [k \in AgentKeys |-> NoSession]
    /\ steps' = [s \in Steps |-> Dormant] /\ taps' = [t \in Taps |-> Dormant]
    /\ adminApprovals' = {}
    /\ UNCHANGED <<selfCards, nextCall, ran, granted>>

AgentEvents ==
    \/ \E k \in AgentKeys, s \in Steps : replyAgent(k, s)
    \/ \E t \in Taps, approve \in BOOLEAN :
         \/ \E card \in selfCards : handleSelfApproval(t, card, approve)
         \/ \E appr \in adminApprovals : handleAdminApproval(t, appr, approve)
    \/ AgentRestart
AgentWork ==
    \/ \E s \in Steps : agentStepReads(s) \/ agentStep(s)
    \/ \E t \in Taps : tapReads(t) \/ agentExecuteApproved(t) \/ tapEnds(t)

AgentNext == AgentEvents \/ AgentWork
AgentSpec == AgentInit /\ [][AgentNext]_agentVars

------------------------------------------------------------------------------
(* A write of an operator who is no admin is executed at most as often as  *)
(* an admin approved a card of that very call, however the taps of several *)
(* admins, a new /agent and the model's next turn are interleaved.         *)
ExecutedAsApproved(k) == \A c \in Calls : ran[<<k, c>>] <= granted[<<k, c>>]
AdminsApproveWrites == \A k \in AgentKeys \ AgentAdmins : ExecutedAsApproved(k)

(* The same of an admin's own writes: "Write/command tools [...] are       *)
(* reviewed and approved by a human operator before they run" (agent.go).  *)
WritesAreApproved == \A k \in AgentAdmins : ExecutedAsApproved(k)

==============================================================================
