------------------------------- MODULE Terminal -------------------------------
(***************************************************************************)
(* The browser terminal (backend/term.go).  An operator steps up with a    *)
(* passkey or a TOTP code and gets a ticket; a WebSocket spends the ticket *)
(* and becomes a shell on a node.  Tickets not yet spent and shells both   *)
(* count against termMaxConcurrent, but live behind two mutexes, so the    *)
(* cap is checked where a ticket is issued and again where a shell starts. *)
(* A shell ends with its socket, when idle, or at its maximal age.         *)
(***************************************************************************)
EXTENDS Naturals, FiniteSets

CONSTANTS
    TermUsers, TermTickets, Sockets,
    termMaxConcurrent,
    termIdleTimeout, termMaxSession,     \* in ticks of the watch
    termTicketRateMax, NoUser

ASSUME TerminalAssumption ==
    /\ NoUser \notin TermUsers
    /\ termMaxConcurrent \in Nat \ {0}
    /\ termIdleTimeout \in Nat /\ termMaxSession \in Nat /\ termTicketRateMax \in Nat

VARIABLES
    termTickets,        \* the tickets issued: who they are for, and whether
                        \* they are still in the map
    termPendingTickets, \* per operator
    sockets,            \* the handler of each WebSocket
    pwHits              \* wrong TOTP codes in the window of termPwLimit

termVars == <<termTickets, termPendingTickets, sockets, pwHits>>

Held == {"open", "expired"}     \* in the map
Free == [at |-> "free", who |-> NoUser, idle |-> 0, age |-> 0]

TermTypeOK ==
    /\ termTickets \in [TermTickets -> [at : Held \cup {"none", "gone"}, who : TermUsers \cup {NoUser}]]
    /\ termPendingTickets \in [TermUsers -> Nat]
    /\ sockets \in [Sockets -> [at : {"free", "claimed", "shell"}, who : TermUsers \cup {NoUser},
                                idle : 0 .. termIdleTimeout + 1, age : 0 .. termMaxSession + 1]]
    /\ pwHits \in [TermUsers -> 0 .. termTicketRateMax]

TermInit ==
    /\ termTickets = [t \in TermTickets |-> [at |-> "none", who |-> NoUser]]
    /\ termPendingTickets = [u \in TermUsers |-> 0]
    /\ sockets = [c \in Sockets |-> Free]
    /\ pwHits = [u \in TermUsers |-> 0]

HeldBy(u) == {t \in TermTickets : termTickets[t].at \in Held /\ termTickets[t].who = u}
ExpiredBy(u) == {t \in HeldBy(u) : termTickets[t].at = "expired"}
termSessionsCountFor(u) == Cardinality({c \in Sockets : sockets[c].at = "shell" /\ sockets[c].who = u})

gcTerminalTicketsLocked ==
    [t \in TermTickets |-> IF termTickets[t].at = "expired"
                           THEN [termTickets[t] EXCEPT !.at = "gone"] ELSE termTickets[t]]
PendingAfterGc(u) ==
    LET n == Cardinality(ExpiredBy(u))
    IN  IF termPendingTickets[u] > n THEN termPendingTickets[u] - n ELSE 0

(* A second factor was given; the operator's account exists.               *)
handleTermTicket(u, t) ==
    /\ termTickets[t].at = "none"
    /\ LET pending == [v \in TermUsers |-> PendingAfterGc(v)]
       IN  IF pending[u] + termSessionsCountFor(u) >= termMaxConcurrent
           THEN termTickets' = gcTerminalTicketsLocked /\ termPendingTickets' = pending
           ELSE /\ termTickets' = [gcTerminalTicketsLocked EXCEPT
                                       ![t] = [at |-> "open", who |-> u]]
                /\ termPendingTickets' = [pending EXCEPT ![u] = @ + 1]
    /\ UNCHANGED <<sockets, pwHits>>

(* A wrong code: after termTicketRateMax of them the answer is 429 until   *)
(* the oldest leaves the window.                                           *)
Allow(u) ==
    /\ pwHits[u] < termTicketRateMax
    /\ pwHits' = [pwHits EXCEPT ![u] = @ + 1]
    /\ UNCHANGED <<termTickets, termPendingTickets, sockets>>

hitExpires(u) ==
    /\ pwHits[u] > 0 /\ pwHits' = [pwHits EXCEPT ![u] = @ - 1]
    /\ UNCHANGED <<termTickets, termPendingTickets, sockets>>

ticketExpires(t) ==
    /\ termTickets[t].at = "open" /\ termTickets' = [termTickets EXCEPT ![t].at = "expired"]
    /\ UNCHANGED <<termPendingTickets, sockets, pwHits>>

(* The ticket is spent under its mutex; an expired one, or one for another *)
(* operator or node, is spent all the same.                                *)
handleTerm(u, t, c) ==
    /\ termTickets[t].at \in Held /\ sockets[c] = Free
    /\ termTickets' = [termTickets EXCEPT ![t].at = "gone"]
    /\ LET owner == termTickets[t].who
       IN  /\ termPendingTickets' = [termPendingTickets EXCEPT ![owner] = IF @ > 0 THEN @ - 1 ELSE 0]
           /\ \/ /\ owner = u /\ termTickets[t].at = "open"
                 /\ sockets' = [sockets EXCEPT ![c] = [Free EXCEPT !.at = "claimed", !.who = u]]
              \/ UNCHANGED sockets
    /\ UNCHANGED pwHits

termSessionReserve(c) ==
    /\ sockets[c].at = "claimed"
    /\ sockets' = [sockets EXCEPT ![c] =
            IF termSessionsCountFor(sockets[c].who) >= termMaxConcurrent THEN Free
            ELSE [@ EXCEPT !.at = "shell"]]
    /\ UNCHANGED <<termTickets, termPendingTickets, pwHits>>

(* Input or output; the upgrade, the pty, the socket or a ping fails;      *)
(* and the watch.                                                          *)
shellIO(c) ==
    /\ sockets[c].at = "shell" /\ sockets' = [sockets EXCEPT ![c].idle = 0]
    /\ UNCHANGED <<termTickets, termPendingTickets, pwHits>>

termSessionUnregister(c) ==
    /\ sockets[c].at = "shell" /\ sockets' = [sockets EXCEPT ![c] = Free]
    /\ UNCHANGED <<termTickets, termPendingTickets, pwHits>>

(* A mutant: only idle shells are ended. *)
MutIdleOnly(c) ==
    /\ sockets[c].at = "shell"
    /\ sockets' = [sockets EXCEPT ![c] = IF @.idle > termIdleTimeout THEN Free ELSE [@ EXCEPT !.idle = @ + 1]]
    /\ UNCHANGED <<termTickets, termPendingTickets, pwHits>>

watch(c) ==
    /\ sockets[c].at = "shell"
    /\ sockets' = [sockets EXCEPT ![c] =
            IF @.idle > termIdleTimeout \/ @.age > termMaxSession THEN Free
            ELSE [@ EXCEPT !.idle = @ + 1, !.age = @ + 1]]
    /\ UNCHANGED <<termTickets, termPendingTickets, pwHits>>

TermRestart ==
    /\ termTickets' = [t \in TermTickets |->
            IF termTickets[t].at = "none" THEN termTickets[t] ELSE [termTickets[t] EXCEPT !.at = "gone"]]
    /\ termPendingTickets' = [u \in TermUsers |-> 0]
    /\ sockets' = [c \in Sockets |-> Free]
    /\ pwHits' = [u \in TermUsers |-> 0]

TermNext ==
    \/ \E u \in TermUsers :
         \/ Allow(u) \/ hitExpires(u)
         \/ \E t \in TermTickets : handleTermTicket(u, t) \/ \E c \in Sockets : handleTerm(u, t, c)
    \/ \E t \in TermTickets : ticketExpires(t)
    \/ \E c \in Sockets : termSessionReserve(c) \/ shellIO(c) \/ termSessionUnregister(c) \/ watch(c)
    \/ TermRestart

TermFairness == \A c \in Sockets : WF_termVars(watch(c))
TermSpec == TermInit /\ [][TermNext]_termVars /\ TermFairness

------------------------------------------------------------------------------
(* A shell ends, also one whose program never stops writing.               *)
ShellsEnd == \A c \in Sockets : sockets[c].at = "shell" ~> sockets[c].at = "free"
==============================================================================
