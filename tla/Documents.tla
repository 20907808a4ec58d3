------------------------------- MODULE Documents -------------------------------
(***************************************************************************)
(* What operators write: wiki pages (backend/wikistore.go, wiki_api.go),   *)
(* VPS subscriptions (billing.go), incidents (incidents.go), the           *)
(* assistant's conversations and memory (ai_user_store.go,                 *)
(* ai_history_api.go) and its models (model_config.go).                    *)
(*                                                                         *)
(* The wiki is in the database only and its transactions read committed    *)
(* data; the others are documents in memory, saved after each change       *)
(* (ConfigDoc), where a failed save leaves the change in memory.           *)
(***************************************************************************)
EXTENDS Naturals, Sequences, SequencesExt

CONSTANTS
    Paths, Contents,        \* wiki pages, and what is written in them
    WikiTxs,                \* bound: saves at the same time
    Subs,                   \* subscriptions
    MaxMonth,               \* bound: months that pass
    Incidents,
    MaxConvs, MaxMemory,    \* maxConversationsPerOp, maxMemoryPerOp
    Texts,                  \* what is remembered
    Models                  \* what the provider may list

VARIABLES
    pages, versions,        \* wiki_pages and wiki_page_versions
    wikiTx,                 \* saves under way
    written,                \* history: contents that were saved
    lost,                   \* history: pages deleted, or saved twice at once
    now,                    \* the month
    subs, subsSaved,        \* billingStore.subs
    incidents, incidentsSaved,
    convs, nextConv, memory, aiSaved,   \* aiUserStore of one operator
    model, modelSaved, available        \* aiModelStore, for one purpose

wikiVars == <<pages, versions, wikiTx, written, lost>>
billingVars == <<now, subs, subsSaved>>
incidentVars == <<incidents, incidentsSaved>>
aiVars == <<convs, nextConv, memory, aiSaved, model, modelSaved, available>>
documentVars == <<wikiVars, billingVars, incidentVars, aiVars>>

NoPage == [version |-> 0, content |-> {}, public |-> FALSE]
NoTx == [at |-> "idle", path |-> {}, new |-> NoPage, prev |-> NoPage]
NoSub == [cycle |-> 0, due |-> 0]
IncidentStatuses == {"investigating", "resolved"}

DocumentsTypeOK ==
    /\ \A p \in Paths : pages[p].content \subseteq Contents /\ pages[p].version \in Nat
    /\ \A v \in versions : v.path \in Paths /\ v.content \in Contents
    /\ \A s \in Subs : subs[s].cycle \in {0, 1, 3, 12}
    /\ \A i \in Incidents : incidents[i].status \in IncidentStatuses \cup {"none"}
    /\ Len(convs) <= MaxConvs /\ Len(memory) <= MaxMemory /\ model \in Models \cup {"default"}

DocumentsInit ==
    /\ pages = [p \in Paths |-> NoPage] /\ versions = {}
    /\ wikiTx = [t \in WikiTxs |-> NoTx] /\ written = {} /\ lost = {}
    /\ now = 0 /\ subs = [s \in Subs |-> NoSub] /\ subsSaved = subs
    /\ incidents = [i \in Incidents |-> [status |-> "none", resolvedAt |-> FALSE, updates |-> 0]]
    /\ incidentsSaved = incidents
    /\ convs = <<>> /\ nextConv = 1 /\ memory = <<>> /\ aiSaved = [convs |-> <<>>, memory |-> <<>>]
    /\ model = "default" /\ modelSaved = "default" /\ available \in SUBSET Models

------------------------------------------------------------------------------
(* The wiki.  A save reads what it replaces, without a lock on it; it      *)
(* copies that into the history and writes with the next version.  The     *)
(* insertion of a page somebody else has inserted fails.                   *)
upsertReads(t, p, c, public) ==
    /\ wikiTx[t] = NoTx
    /\ wikiTx' = [wikiTx EXCEPT ![t] = [at |-> "read", path |-> {p}, prev |-> pages[p],
                        new |-> [version |-> pages[p].version + 1, content |-> {c}, public |-> public]]]
    /\ UNCHANGED <<pages, versions, written, lost, billingVars, incidentVars, aiVars>>

Snapshotted(p, prev) ==
    {[path |-> p, content |-> c, version |-> prev.version] : c \in prev.content}

(* A page deleted in between stays so: the update finds no row.            *)
upsert(t, p) ==
    /\ wikiTx[t].at = "read" /\ wikiTx[t].path = {p}
    /\ LET prev == wikiTx[t].prev
           new == wikiTx[t].new
           insert == prev = NoPage
           refused == insert /\ pages[p] # NoPage
           gone == ~insert /\ pages[p] = NoPage
       IN  /\ versions' = IF insert THEN versions ELSE versions \cup Snapshotted(p, prev)
           /\ pages' = IF refused \/ gone THEN pages ELSE [pages EXCEPT ![p] = new]
           /\ written' = IF refused \/ gone THEN written
                         ELSE written \cup {[path |-> p, content |-> c] : c \in new.content}
           /\ lost' = IF ~insert /\ pages[p] # prev THEN lost \cup {p} ELSE lost
    /\ wikiTx' = [wikiTx EXCEPT ![t] = NoTx]
    /\ UNCHANGED <<billingVars, incidentVars, aiVars>>

upsertFails(t) ==
    /\ wikiTx[t].at = "read" /\ wikiTx' = [wikiTx EXCEPT ![t] = NoTx]
    /\ UNCHANGED <<pages, versions, written, lost, billingVars, incidentVars, aiVars>>

(* revert reads the version and the page, whose visibility it keeps, and   *)
(* then saves like everybody else, reading the page a second time.         *)
revert(t, v) ==
    /\ wikiTx[t] = NoTx /\ v \in versions /\ pages[v.path] # NoPage
    /\ wikiTx' = [wikiTx EXCEPT ![t] = [at |-> "revert", path |-> {v.path}, prev |-> NoPage,
            new |-> [version |-> 0, content |-> {v.content}, public |-> pages[v.path].public]]]
    /\ UNCHANGED <<pages, versions, written, lost, billingVars, incidentVars, aiVars>>

revertReads(t, p) ==
    /\ wikiTx[t].at = "revert" /\ wikiTx[t].path = {p}
    /\ wikiTx' = [wikiTx EXCEPT ![t].at = "read", ![t].prev = pages[p],
                                ![t].new.version = pages[p].version + 1]
    /\ UNCHANGED <<pages, versions, written, lost, billingVars, incidentVars, aiVars>>

(* The history stays; what was current goes.                               *)
deletePage(p) ==
    /\ pages[p] # NoPage /\ pages' = [pages EXCEPT ![p] = NoPage] /\ lost' = lost \cup {p}
    /\ UNCHANGED <<versions, wikiTx, written, billingVars, incidentVars, aiVars>>

------------------------------------------------------------------------------
(* Billing.                                                                *)
persistSubs(new) == subs' = new /\ subsSaved' \in {new, subsSaved}

monthPasses ==
    /\ now < MaxMonth /\ now' = now + 1
    /\ UNCHANGED <<subs, subsSaved, wikiVars, incidentVars, aiVars>>

handleBillingCreate(s, cycle, due) ==
    /\ subs[s] = NoSub /\ persistSubs([subs EXCEPT ![s] = [cycle |-> cycle, due |-> due]])
    /\ UNCHANGED <<now, wikiVars, incidentVars, aiVars>>

(* A patch refused for its cycle changes neither of the two.               *)
handleBillingPatch(s, cycle, due) ==
    /\ subs[s] # NoSub /\ persistSubs([subs EXCEPT ![s].cycle = cycle, ![s].due = due])
    /\ UNCHANGED <<now, wikiVars, incidentVars, aiVars>>

handleBillingDelete(s) ==
    /\ subs[s] # NoSub /\ persistSubs([subs EXCEPT ![s] = NoSub])
    /\ UNCHANGED <<now, wikiVars, incidentVars, aiVars>>

(* One cycle from the old date, and on until it is not in the past.        *)
bumpNextDue(due, cycle) ==
    LET behind == IF due + cycle < now THEN now - (due + cycle) ELSE 0
    IN  due + cycle * (1 + (behind + cycle - 1) \div cycle)

handleBillingMarkPaid(s) ==
    /\ subs[s] # NoSub
    /\ persistSubs([subs EXCEPT ![s].due = bumpNextDue(@, subs[s].cycle)])
    /\ UNCHANGED <<now, wikiVars, incidentVars, aiVars>>

------------------------------------------------------------------------------
(* Incidents.                                                              *)
persistIncidents(new) == incidents' = new /\ incidentsSaved' \in {new, incidentsSaved}

createIncident(i, status) ==
    /\ incidents[i].status = "none"
    /\ persistIncidents([incidents EXCEPT ![i] =
            [status |-> status, resolvedAt |-> status = "resolved", updates |-> 0]])
    /\ UNCHANGED <<wikiVars, billingVars, aiVars>>

(* Refused for its severity the status has changed already, in memory.     *)
patchIncident(i, status, severityValid) ==
    /\ incidents[i].status # "none"
    /\ LET new == [incidents EXCEPT ![i].status = status, ![i].resolvedAt = status = "resolved"]
       IN  IF severityValid THEN persistIncidents(new)
           ELSE incidents' = new /\ UNCHANGED incidentsSaved
    /\ UNCHANGED <<wikiVars, billingVars, aiVars>>

addUpdate(i, status) ==
    /\ incidents[i].status # "none" /\ incidents[i].updates < 1
    /\ persistIncidents([incidents EXCEPT ![i] =
            [status |-> status, resolvedAt |-> status = "resolved", updates |-> @.updates + 1]])
    /\ UNCHANGED <<wikiVars, billingVars, aiVars>>

deleteIncident(i) ==
    /\ incidents[i].status # "none"
    /\ persistIncidents([incidents EXCEPT ![i] = [status |-> "none", resolvedAt |-> FALSE, updates |-> 0]])
    /\ UNCHANGED <<wikiVars, billingVars, aiVars>>

------------------------------------------------------------------------------
(* The assistant.  The oldest conversation, and the oldest thing           *)
(* remembered, make room.                                                  *)
LastOf(s, n) == IF Len(s) > n THEN SubSeq(s, Len(s) - n + 1, Len(s)) ELSE s

persistAI(newConvs, newMemory) ==
    /\ convs' = newConvs /\ memory' = newMemory
    /\ aiSaved' \in {[convs |-> newConvs, memory |-> newMemory], aiSaved}

(* An id that is gone, deleted or pushed out, gets a new conversation.     *)
saveConversation(id) ==
    /\ IF id \in ToSet(convs) THEN persistAI(convs, memory) /\ UNCHANGED nextConv
       ELSE persistAI(LastOf(Append(convs, nextConv), MaxConvs), memory) /\ nextConv' = nextConv + 1
    /\ UNCHANGED <<model, modelSaved, available, wikiVars, billingVars, incidentVars>>

deleteConversation(id) ==
    /\ persistAI(SelectSeq(convs, LAMBDA c : c # id), memory)
    /\ UNCHANGED <<nextConv, model, modelSaved, available, wikiVars, billingVars, incidentVars>>

addMemory(text) ==
    /\ IF text \in ToSet(memory) THEN UNCHANGED <<convs, memory, aiSaved>>
       ELSE persistAI(convs, LastOf(Append(memory, text), MaxMemory))
    /\ UNCHANGED <<nextConv, model, modelSaved, available, wikiVars, billingVars, incidentVars>>

deleteMemory(matching) ==
    /\ ToSet(memory) \cap matching # {}
    /\ persistAI(convs, SelectSeq(memory, LAMBDA m : m \notin matching))
    /\ UNCHANGED <<nextConv, model, modelSaved, available, wikiVars, billingVars, incidentVars>>

refreshAvailable ==
    /\ available' \in SUBSET Models \ {{}}
    /\ UNCHANGED <<convs, nextConv, memory, aiSaved, model, modelSaved, wikiVars, billingVars, incidentVars>>

setModel(m) ==
    /\ m \in available /\ model' = m /\ modelSaved' \in {m, modelSaved}
    /\ UNCHANGED <<convs, nextConv, memory, aiSaved, available, wikiVars, billingVars, incidentVars>>

DocumentsRestart ==
    /\ wikiTx' = [t \in WikiTxs |-> NoTx]
    /\ subs' = subsSaved /\ incidents' = incidentsSaved
    /\ convs' = aiSaved.convs /\ memory' = aiSaved.memory /\ model' = modelSaved
    /\ UNCHANGED <<pages, versions, written, lost, now, subsSaved, incidentsSaved, nextConv, aiSaved,
                   modelSaved, available>>

WikiEvents ==
    \/ \E t \in WikiTxs, p \in Paths, c \in Contents, public \in BOOLEAN : upsertReads(t, p, c, public)
    \/ \E t \in WikiTxs, v \in versions : revert(t, v)
    \/ \E p \in Paths : deletePage(p)
WikiWork ==
    \E t \in WikiTxs : upsertFails(t) \/ \E p \in Paths : upsert(t, p) \/ revertReads(t, p)
BillingEvents ==
    \E s \in Subs :
        \/ \E cycle \in {1, 3}, due \in 0 .. MaxMonth :
             handleBillingCreate(s, cycle, due) \/ handleBillingPatch(s, cycle, due)
        \/ handleBillingDelete(s) \/ handleBillingMarkPaid(s)
IncidentEvents ==
    \E i \in Incidents :
        \/ \E status \in IncidentStatuses :
             createIncident(i, status) \/ addUpdate(i, status)
             \/ \E valid \in BOOLEAN : patchIncident(i, status, valid)
        \/ deleteIncident(i)
AIEvents ==
    \/ \E id \in 1 .. nextConv : saveConversation(id) \/ deleteConversation(id)
    \/ \E text \in Texts : addMemory(text)
    \/ \E matching \in SUBSET Texts : deleteMemory(matching)
    \/ refreshAvailable \/ \E m \in Models : setModel(m)

------------------------------------------------------------------------------
(* wikistore.go:107: a save "snapshots the PREVIOUS content".  Nothing     *)
(* that was saved is lost: it is the page or in its history, reverted or   *)
(* not, as long as the page was neither deleted nor saved twice at once.   *)
EditsAreKept ==
    \A w \in written : w.path \notin lost =>
        \/ pages[w.path].content = {w.content}
        \/ \E v \in versions : v.path = w.path /\ v.content = w.content

==============================================================================
