------------------------------- MODULE AuditLog -------------------------------
(***************************************************************************)
(* The audit log (backend/audit.go).  A handler stamps its event and       *)
(* writes it to PostgreSQL or, if that refuses, appends it to a file that  *)
(* logrotate empties.  The console reads it page by page, newest first,    *)
(* from PostgreSQL or, if that does not answer, from the file, while other *)
(* handlers keep writing; the cursor of a page is the id of its last event.*)
(*                                                                         *)
(* An event is the number of its time stamp; no two have the same.         *)
(***************************************************************************)
EXTENDS Naturals, FiniteSets, Sequences, SequencesExt

CONSTANTS
    MaxAudited,         \* bound on the events
    auditLimit,         \* auditFilter.Limit
    Matching             \* the events auditFilter.match accepts

ASSUME AuditLogAssumption == auditLimit \in Nat \ {0} /\ MaxAudited \in Nat

VARIABLES
    auditClock,         \* the last time stamp
    auditing,           \* events stamped, not yet written
    auditDB, auditFile,
    auditTorn,          \* the file has a line that was cut short
    walk                \* a reader and the pages it was given

auditVars == <<auditClock, auditing, auditDB, auditFile, auditTorn, walk>>

Events == 1 .. MaxAudited
NoWalk == [at |-> "none", cursor |-> 0, pages |-> <<>>, there |-> {}, dbOnly |-> TRUE]

AuditTypeOK ==
    /\ auditClock \in 0 .. MaxAudited /\ auditTorn \in BOOLEAN
    /\ auditing \subseteq Events /\ auditDB \subseteq Events /\ auditFile \subseteq Events
    /\ walk.at \in {"none", "reading", "hung", "done"} /\ walk.cursor \in {0} \cup Events
    /\ walk.pages \in Seq(Events) /\ walk.there \subseteq Events /\ walk.dbOnly \in BOOLEAN

AuditInit ==
    /\ auditClock = 0 /\ auditing = {} /\ auditDB = {} /\ auditFile = {}
    /\ auditTorn = FALSE /\ walk = NoWalk

------------------------------------------------------------------------------
stampEvent ==
    /\ auditClock < MaxAudited
    /\ auditClock' = auditClock + 1
    /\ auditing' = auditing \cup {auditClock'}
    /\ UNCHANGED <<auditDB, auditFile, auditTorn, walk>>

(* A full disk loses the event, and may leave part of its line.            *)
auditRecord(e) ==
    /\ e \in auditing
    /\ auditing' = auditing \ {e}
    /\ \/ auditDB' = auditDB \cup {e} /\ UNCHANGED <<auditFile, auditTorn>>
       \/ auditFile' = auditFile \cup {e} /\ UNCHANGED <<auditDB, auditTorn>>
       \/ auditTorn' \in {auditTorn, TRUE} /\ UNCHANGED <<auditDB, auditFile>>
    /\ UNCHANGED <<auditClock, walk>>

(* A restart takes the handlers with it; logrotate keeps a year of copies  *)
(* that nothing reads.                                                     *)
AuditRestart ==
    /\ auditing' = {} /\ walk' = NoWalk
    /\ UNCHANGED <<auditClock, auditDB, auditFile, auditTorn>>

logrotate ==
    /\ auditFile' = {} /\ auditTorn' = FALSE
    /\ UNCHANGED <<auditClock, auditing, auditDB, walk>>

------------------------------------------------------------------------------
match(evs) == evs \cap Matching
NewestFirst(evs) ==
    CHOOSE f \in [1 .. Cardinality(evs) -> evs] : \A i, j \in DOMAIN f : i < j => f[i] > f[j]

(* A mutant: the page starts with the cursor. *)
MutPageStart(all, cursor) ==
    IF cursor \in Range(all) THEN (CHOOSE i \in DOMAIN all : all[i] = cursor) - 1 ELSE 0

(* Just behind the cursor, or from the start if it is not there.           *)
PageStart(all, cursor) == IF cursor \in Range(all) THEN CHOOSE i \in DOMAIN all : all[i] = cursor ELSE 0

PageEnd(all, first) == IF first + auditLimit > Len(all) THEN Len(all) ELSE first + auditLimit

auditQuery(evs, fromDB) ==
    LET all == NewestFirst(match(evs))
        first == PageStart(all, walk.cursor)
        last == PageEnd(all, first)
        page == SubSeq(all, first + 1, last)
    IN  walk' = [at |-> IF last < Len(all) THEN "reading" ELSE "done",
                 cursor |-> IF last < Len(all) THEN page[Len(page)] ELSE 0,
                 pages |-> walk.pages \o page,
                 there |-> IF walk.at = "none" THEN match(evs) ELSE walk.there,
                 dbOnly |-> walk.dbOnly /\ fromDB]

(* The decoder does not get past a line that was cut short: it reports the *)
(* same error for ever, and the loop goes on.                              *)
auditScanFile ==
    IF auditTorn
    THEN walk' = [walk EXCEPT !.at = "hung", !.dbOnly = FALSE]
    ELSE auditQuery(auditFile, FALSE)

handleAuditQuery ==
    /\ walk.at \in {"none", "reading"}
    /\ Len(walk.pages) <= MaxAudited    \* a reader sent back to the start gives up
    /\ auditQuery(auditDB, TRUE) \/ auditScanFile
    /\ UNCHANGED <<auditClock, auditing, auditDB, auditFile, auditTorn>>

readerLeaves ==
    /\ walk.at # "none"
    /\ walk' = NoWalk
    /\ UNCHANGED <<auditClock, auditing, auditDB, auditFile, auditTorn>>

AuditNext ==
    \/ stampEvent \/ handleAuditQuery \/ readerLeaves
    \/ AuditRestart \/ logrotate
    \/ \E e \in Events : auditRecord(e)

AuditSpec == AuditInit /\ [][AuditNext]_auditVars

------------------------------------------------------------------------------
(* A reader that got every page from PostgreSQL was given every matching   *)
(* event that was there when it began, and none twice, whatever was        *)
(* written meanwhile, newer than its cursor or older.                      *)
WalksAreComplete ==
    walk.at = "done" /\ walk.dbOnly =>
        walk.there \subseteq Range(walk.pages) /\ IsInjective(walk.pages)
==============================================================================
