---------------------------- MODULE AccountProofs ----------------------------
(* For any accounts, names, secrets, tickets, savers and requests at once, *)
(* and any failing saves and restarts: an admin remains, a code and a      *)
(* stored ticket work once, a boot loads the file, who was invited needs   *)
(* an approval, and a revoked token is not accepted from a later request.  *)
EXTENDS Invitations, FiniteSetTheorems, TLAPS

------------------------------------------------------------------------------
(* An account.  Its list of devices, made with SelectSeq and SortSeq, is   *)
(* whatever it is.                                                         *)
IsAccount(r) ==
    r \in [role : {"admin", "operator"}, approved : BOOLEAN, invited : BOOLEAN,
           pw : Passwords, totp : Secrets \cup {None},
           passkeys : SUBSET Passkeys, keys : SUBSET SshKeys,
           codes : [gen : Nat, left : SUBSET Codes],
           ids : [Providers -> Subjects \cup {None}], devices : {r.devices}]

(* What is so of every copy of the accounts, the m-th generation of codes  *)
(* being the next ...                                                      *)
Sound(ops, m) ==
    /\ ops = [u \in Users |-> ops[u]]
    /\ Admins(ops) # {}
    /\ \A u \in Known(ops) : IsAccount(ops[u]) /\ ops[u].codes.gen < m

(* ... and, while no save was lost, of every copy that can be loaded: a    *)
(* code in it was not honoured, who is approved was vetted.                *)
Clean(ops, honoured, approved) ==
    \A u \in Known(ops) :
        /\ \A c \in ops[u].codes.left : <<u, ops[u].codes.gen, c>> \notin honoured
        /\ ops[u].invited /\ ops[u].approved => u \in approved

IsSave(s) == s \in [at : {"idle", "copy", "file", "row"}, doc : {s.doc}, alone : BOOLEAN]

SavesTypeOK ==
    /\ saves = [w \in Savers |-> saves[w]] /\ \A w \in Savers : IsSave(saves[w])
    /\ newer \in BOOLEAN /\ adrift \in BOOLEAN /\ overlapped \in BOOLEAN

HistoryTypeOK ==
    /\ lossy \in BOOLEAN /\ reused \in BOOLEAN
    /\ mints \in Nat /\ \A h \in spent : h \in Users \X Nat \X Codes /\ h[2] < mints
    /\ vetted \subseteq Users
    /\ joins \in [Savers -> [invite : Invites, user : Users] \cup {None}]

CopiesInv ==
    /\ Sound(operators, mints) /\ Sound(file, mints) /\ Sound(row, mints)
    /\ \A w \in Doc!Writing : Sound(saves[w].doc, mints)
    /\ ~lossy =>
        /\ Clean(operators, spent, vetted) /\ Clean(file, spent, vetted)
        /\ newer \/ Clean(row, spent, vetted)
        /\ \A w \in Doc!Writing : Clean(saves[w].doc, spent, vetted)

(* A row that is not the file is older, also where a save that is alone is *)
(* about to write it.                                                      *)
RowIsOlder ==
    /\ ~overlapped => newer \/ row = file
    /\ \A w \in Savers :
         saves[w].at = "row" /\ saves[w].alone => newer /\ file = saves[w].doc

(* A token whose revocation was answered is in no copy that a boot should  *)
(* load: a row that still has it is older than the file.  Without that the *)
(* promise would not survive a restart.                                    *)
Revoked(doc) == \A id \in answered : doc[id] = None
TokenRecords == [ApiTokens -> Users \cup {None}]

TokensInv ==
    /\ apiTokens \in TokenRecords /\ apiFile \in TokenRecords /\ apiRow \in TokenRecords
    /\ apiNewer \in BOOLEAN /\ apiAdrift \in BOOLEAN /\ misread \in BOOLEAN
    /\ answered \subseteq ApiTokens
    /\ bearers = [w \in Savers |-> bearers[w]]
    /\ ~misread => /\ Revoked(apiTokens) /\ Revoked(apiFile)
                   /\ apiNewer \/ Revoked(apiRow)
                   /\ \A w \in Savers : bearers[w] # None => ~bearers[w].late

StoreInv == SavesTypeOK /\ CopiesInv /\ RowIsOlder
AccountInv == StoreInv /\ HistoryTypeOK /\ CodesHonouredOnce

------------------------------------------------------------------------------
(* Changing one account of a copy.                                         *)

LEMMA AccountsArePresent == \A r : IsAccount(r) => r # Absent
  BY DEF IsAccount, Absent

LEMMA ReplacedAccounts ==
  ASSUME NEW ops, ops = [u \in Users |-> ops[u]], NEW u \in Users, NEW rec
  PROVE  LET new == [ops EXCEPT ![u] = rec]
         IN  /\ new = [v \in Users |-> new[v]]
             /\ new[u] = rec /\ \A v \in Users \ {u} : new[v] = ops[v]
  OBVIOUS

LEMMA ReplaceIsSound ==
  ASSUME NEW ops, NEW m, Sound(ops, m), NEW u \in Users, NEW rec, NEW new,
         new = [ops EXCEPT ![u] = rec],
         rec = Absent \/ (IsAccount(rec) /\ rec.codes.gen < m),
         rec.role = "admin" \/ Admins(ops) \ {u} # {}
  PROVE  Sound(new, m)
<1>1. /\ new = [v \in Users |-> new[v]]
      /\ new[u] = rec /\ \A v \in Users \ {u} : new[v] = ops[v]
  BY DEF Sound
<1>2. Admins(new) # {}
  <2>1. CASE rec.role = "admin"
    <3>1. rec # Absent
      BY <2>1 DEF Absent
    <3> QED BY <1>1, <2>1, <3>1 DEF Admins, Known
  <2>2. CASE Admins(ops) \ {u} # {}
    BY <1>1, <2>2 DEF Admins, Known
  <2> QED BY <2>1, <2>2
<1>3. ASSUME NEW v \in Known(new) PROVE IsAccount(new[v]) /\ new[v].codes.gen < m
  BY <1>1 DEF Known, Sound
<1> QED BY <1>1, <1>2, <1>3 DEF Sound

LEMMA ReplaceIsClean ==
  ASSUME NEW ops, NEW m, Sound(ops, m), NEW s, NEW v, Clean(ops, s, v), NEW u \in Users, NEW rec, NEW new,
         new = [ops EXCEPT ![u] = rec],
         rec # Absent => /\ \A c \in rec.codes.left : <<u, rec.codes.gen, c>> \notin s
                         /\ rec.invited /\ rec.approved => u \in v
  PROVE  Clean(new, s, v)
<1>1. new[u] = rec /\ \A w \in Users \ {u} : new[w] = ops[w]
  BY DEF Sound
<1> QED BY <1>1 DEF Clean, Known

(* What most handlers write: an account that keeps its role, is approved   *)
(* only if it was, and has no more codes.                                  *)
Tame(r, old) ==
    /\ IsAccount(r) /\ r.role = old.role
    /\ r.invited = old.invited /\ (r.approved => old.approved)
    /\ r.codes.gen = old.codes.gen /\ r.codes.left \subseteq old.codes.left

LEMMA TameIsKept ==
  ASSUME NEW ops, NEW m, Sound(ops, m), NEW u \in Known(ops), NEW rec, Tame(rec, ops[u]), NEW new,
         new = [ops EXCEPT ![u] = rec]
  PROVE  /\ Sound(new, m)
         /\ \A s, v : Clean(ops, s, v) => Clean(new, s, v)
<1>1. IsAccount(ops[u]) /\ ops[u].codes.gen < m /\ u \in Users
  BY DEF Sound, Known
<1>2. rec.role = "admin" \/ Admins(ops) \ {u} # {}
  <2>1. CASE u \in Admins(ops)
    BY <2>1 DEF Tame, Admins
  <2>2. CASE u \notin Admins(ops)
    BY <2>2 DEF Sound
  <2> QED BY <2>1, <2>2
<1>3. Sound(new, m)
  BY <1>1, <1>2, ReplaceIsSound DEF Tame
<1>4. ASSUME NEW s, NEW v, Clean(ops, s, v) PROVE Clean(new, s, v)
  <2>1. /\ \A c \in rec.codes.left : <<u, rec.codes.gen, c>> \notin s
        /\ rec.invited /\ rec.approved => u \in v
    BY <1>4 DEF Tame, Clean
  <2> QED BY <1>1, <1>4, <2>1, ReplaceIsClean
<1> QED BY <1>3, <1>4

(* Generations only go up.                                                 *)
LEMMA SoundIsKept ==
  ASSUME NEW ops, NEW m \in Nat, NEW n \in Nat, m <= n, Sound(ops, m)
  PROVE  Sound(ops, n)
<1>1. \A u \in Known(ops) : ops[u].codes.gen \in Nat
  BY DEF Sound, IsAccount
<1> QED BY <1>1 DEF Sound

LEMMA SoundIsSaved == \A ops, m : Sound(ops, m) => ops # NoDoc
  BY DEF Sound, NoDoc, Admins, Known

(* Of two admins one remains when the other goes.                          *)
LEMMA AnotherAdmin ==
  ASSUME NEW S, NEW u, Cardinality(S) > 1
  PROVE  S \ {u} # {}
<1>1. CASE S = {}
  BY <1>1, FS_EmptySet
<1>2. CASE S = {u}
  <2>1. Cardinality(S) = 1
    BY <1>2, FS_Singleton
  <2> QED BY <2>1
<1> QED BY <1>1, <1>2

------------------------------------------------------------------------------
(* The ways to save: each keeps the copies sound, and those that can be    *)
(* loaded clean.                                                           *)

LEMMA DisturbedSaves ==
  ASSUME SavesTypeOK
  PROVE  LET new == Doc!Disturbed
         IN  /\ new = [w \in Savers |-> new[w]]
             /\ \A w \in Savers : /\ IsSave(new[w]) /\ new[w].at = saves[w].at
                                  /\ new[w].doc = saves[w].doc
                                  /\ w \in Doc!Writing => ~new[w].alone
                                  /\ w \notin Doc!Writing => new[w] = saves[w]
BY DEF SavesTypeOK, IsSave, Doc!Disturbed

LEMMA WriteKeepsStore ==
  ASSUME StoreInv, NEW d, Doc!LockedWrite(d) \/ Doc!FileOnlyWrite(d), NoteLoss,
         mints \in Nat, mints' \in Nat, mints <= mints',
         Sound(d, mints'), ~lossy' => Clean(d, spent', vetted')
  PROVE  StoreInv'
<1>1. PICK fileOk \in BOOLEAN, rowOk \in BOOLEAN :
        /\ operators' = d /\ saves' = Doc!Disturbed
        /\ file' = IF fileOk THEN d ELSE file
        /\ row' = IF fileOk /\ rowOk THEN d ELSE row
        /\ newer' = IF fileOk THEN ~rowOk ELSE newer
        /\ adrift' = ~fileOk
        /\ overlapped' = (Doc!Writing # {} \/ (overlapped /\ ~fileOk))
  <2>1. CASE Doc!LockedWrite(d)
    BY <2>1 DEF Doc!LockedWrite, Doc!Put
  <2>2. CASE Doc!FileOnlyWrite(d)
    BY <2>2 DEF Doc!FileOnlyWrite, Doc!Put
  <2> QED BY <2>1, <2>2
<1>2. /\ saves' = [w \in Savers |-> saves'[w]]
      /\ \A w \in Savers : /\ IsSave(saves'[w]) /\ saves'[w].at = saves[w].at
                           /\ saves'[w].doc = saves[w].doc
                           /\ w \in Doc!Writing => ~saves'[w].alone
                           /\ w \notin Doc!Writing => saves'[w] = saves[w]
  BY <1>1, DisturbedSaves DEF StoreInv
<1>3. Doc!Writing' = Doc!Writing
  BY <1>2 DEF Doc!Writing
<1>4. SavesTypeOK'
  BY <1>1, <1>2 DEF StoreInv, SavesTypeOK
<1>5. /\ Sound(operators', mints') /\ Sound(file', mints') /\ Sound(row', mints')
      /\ \A w \in Doc!Writing' : Sound(saves'[w].doc, mints')
  <2>1. Sound(file, mints') /\ Sound(row, mints')
        /\ \A w \in Doc!Writing : Sound(saves[w].doc, mints')
    BY SoundIsKept DEF StoreInv, CopiesInv
  <2> QED BY <1>1, <1>2, <1>3, <2>1 DEF Doc!Writing
<1>6. ASSUME ~lossy'
      PROVE  /\ Clean(operators', spent', vetted') /\ Clean(file', spent', vetted')
             /\ newer' \/ Clean(row', spent', vetted')
             /\ \A w \in Doc!Writing' : Clean(saves'[w].doc, spent', vetted')
  <2>1. ~adrift' /\ ~overlapped'
    BY <1>6 DEF NoteLoss
  <2>2. fileOk /\ Doc!Writing = {}
    BY <1>1, <2>1
  <2> QED BY <1>1, <1>3, <1>6, <2>2
<1>7. RowIsOlder'
  <2>1. ~overlapped' => newer' \/ row' = file'
    BY <1>1 DEF StoreInv, RowIsOlder
  <2>2. ASSUME NEW w \in Savers, saves'[w].at = "row", saves'[w].alone PROVE FALSE
    BY <1>2, <2>2 DEF Doc!Writing
  <2> QED BY <2>1, <2>2 DEF RowIsOlder
<1> QED BY <1>4, <1>5, <1>6, <1>7 DEF StoreInv, CopiesInv

(* A change that is saved later does not disturb the copies, and neither   *)
(* does a step that changes no account.                                    *)
LEMMA ChangeKeepsStore ==
  ASSUME StoreInv, NEW d, NEW w \in Savers, Doc!BeginPersist(w, d),
         UNCHANGED <<mints, spent, vetted, lossy>>,
         Sound(d, mints), ~lossy => Clean(d, spent, vetted)
  PROVE  StoreInv'
<1>1. /\ operators' = d /\ saves[w].at = "idle" /\ saves' = [saves EXCEPT ![w].at = "copy"]
      /\ UNCHANGED <<file, row, newer, adrift, overlapped>>
  BY DEF Doc!BeginPersist
<1>2. /\ saves' = [v \in Savers |-> saves'[v]]
      /\ IsSave(saves'[w]) /\ saves'[w].at = "copy"
      /\ \A v \in Savers \ {w} : saves'[v] = saves[v]
  BY <1>1 DEF StoreInv, SavesTypeOK, IsSave
<1>3. Doc!Writing' = Doc!Writing /\ w \notin Doc!Writing
  BY <1>1, <1>2 DEF Doc!Writing
<1>4. SavesTypeOK'
  BY <1>1, <1>2 DEF StoreInv, SavesTypeOK
<1>5. CopiesInv'
  BY <1>1, <1>2, <1>3 DEF StoreInv, CopiesInv, Doc!Writing
<1>6. RowIsOlder'
  BY <1>1, <1>2 DEF StoreInv, RowIsOlder
<1> QED BY <1>4, <1>5, <1>6 DEF StoreInv

LEMMA UntouchedStore ==
  ASSUME StoreInv, UNCHANGED <<storeVars, lossy, mints, spent, vetted>>
  PROVE  StoreInv'
BY DEF StoreInv, SavesTypeOK, CopiesInv, RowIsOlder, storeVars, Doc!Writing

LEMMA EditKeepsStore ==
  ASSUME StoreInv, NEW d, adminSaveOps(d),
         mints \in Nat, mints' \in Nat, mints <= mints', Sound(d, mints')
  PROVE  StoreInv'
<1>1. /\ file' = d /\ newer' = TRUE /\ adrift' = TRUE /\ saves' = Doc!Disturbed
      /\ overlapped' = (Doc!Writing # {}) /\ UNCHANGED <<operators, row>> /\ lossy'
  BY DEF adminSaveOps, Doc!ExternalEdit, NoteLoss
<1>2. /\ saves' = [w \in Savers |-> saves'[w]]
      /\ \A w \in Savers : /\ IsSave(saves'[w]) /\ saves'[w].at = saves[w].at
                           /\ saves'[w].doc = saves[w].doc
                           /\ w \in Doc!Writing => ~saves'[w].alone
  BY <1>1, DisturbedSaves DEF StoreInv
<1>3. Doc!Writing' = Doc!Writing
  BY <1>2 DEF Doc!Writing
<1>4. SavesTypeOK'
  BY <1>1, <1>2 DEF StoreInv, SavesTypeOK
<1>5. CopiesInv'
  <2>1. Sound(operators, mints') /\ Sound(row, mints')
        /\ \A w \in Doc!Writing : Sound(saves[w].doc, mints')
    BY SoundIsKept DEF StoreInv, CopiesInv
  <2> QED BY <1>1, <1>2, <1>3, <2>1 DEF CopiesInv, Doc!Writing
<1>6. RowIsOlder'
  <2>1. ASSUME NEW w \in Savers, saves'[w].at = "row", saves'[w].alone PROVE FALSE
    BY <1>2, <2>1 DEF Doc!Writing
  <2> QED BY <1>1, <2>1 DEF RowIsOlder
<1> QED BY <1>4, <1>5, <1>6 DEF StoreInv

(* One step of a save: with the others disturbed, this one goes on.        *)
LEMMA PersistKeepsStore ==
  ASSUME StoreInv, NEW w \in Savers, persist(w), UNCHANGED vetted
  PROVE  StoreInv'
<1>1. UNCHANGED <<operators, mints, spent, vetted>> /\ NoteLoss
  BY DEF persist, Doc!PersistCopy, Doc!PersistFile, Doc!PersistRow
<1>2. ~lossy' => ~lossy /\ ~adrift' /\ ~overlapped'
  BY <1>1 DEF NoteLoss
<1>3. CASE Doc!PersistCopy(w)
  <2> DEFINE save == [at |-> "file", doc |-> operators, alone |-> Doc!Writing = {}]
  <2>1. /\ saves' = [saves EXCEPT ![w] = save] /\ saves[w].at = "copy"
        /\ UNCHANGED <<file, row, newer, adrift, overlapped>>
    BY <1>3 DEF Doc!PersistCopy
  <2>2. IsSave(save) /\ save.at = "file" /\ save.doc = operators
    BY DEF IsSave
  <2> HIDE DEF save
  <2>3. /\ saves' = [v \in Savers |-> saves'[v]] /\ saves'[w] = save
        /\ \A v \in Savers \ {w} : saves'[v] = saves[v]
    BY <2>1 DEF StoreInv, SavesTypeOK
  <2>4. SavesTypeOK'
    BY <2>1, <2>2, <2>3 DEF StoreInv, SavesTypeOK
  <2>5. CopiesInv'
    BY <1>1, <1>2, <2>1, <2>2, <2>3 DEF StoreInv, CopiesInv, Doc!Writing
  <2>6. RowIsOlder'
    BY <2>1, <2>2, <2>3 DEF StoreInv, RowIsOlder
  <2> QED BY <2>4, <2>5, <2>6 DEF StoreInv
<1>4. CASE Doc!PersistFile(w)
  <2>1. PICK ok \in BOOLEAN :
          /\ saves[w].at = "file"
          /\ file' = IF ok THEN saves[w].doc ELSE file
          /\ row' = row /\ newer' = IF ok THEN TRUE ELSE newer
          /\ adrift' = ~ok
          /\ saves' = [Doc!Disturbed EXCEPT ![w] = IF ok THEN [saves[w] EXCEPT !.at = "row"] ELSE Doc!Idle]
          /\ overlapped' = (overlapped \/ Doc!Writing # {w})
    BY <1>4 DEF Doc!PersistFile, Doc!Put
  <2> DEFINE save == IF ok THEN [saves[w] EXCEPT !.at = "row"] ELSE Doc!Idle
  <2>2. IsSave(saves[w])
    BY DEF StoreInv, SavesTypeOK
  <2>3. /\ IsSave(save) /\ save.at \in {"row", "idle"}
        /\ save.at = "row" => ok /\ save.doc = saves[w].doc
    BY <2>2 DEF IsSave, Doc!Idle
  <2>4. saves' = [Doc!Disturbed EXCEPT ![w] = save]
    BY <2>1
  <2> HIDE DEF save
  <2>5. /\ saves' = [v \in Savers |-> saves'[v]] /\ saves'[w] = save
        /\ \A v \in Savers \ {w} : /\ IsSave(saves'[v]) /\ saves'[v].at = saves[v].at
                                   /\ saves'[v].doc = saves[v].doc
                                   /\ v \in Doc!Writing => ~saves'[v].alone
    BY <2>4, DisturbedSaves DEF StoreInv
  <2>6. SavesTypeOK'
    BY <2>1, <2>3, <2>5 DEF StoreInv, SavesTypeOK
  <2>7. Sound(saves[w].doc, mints) /\ (~lossy => Clean(saves[w].doc, spent, vetted))
    BY <2>1 DEF StoreInv, CopiesInv, Doc!Writing
  <2>8. \A v \in Doc!Writing' : v \in Doc!Writing /\ saves'[v].doc = saves[v].doc
    BY <2>1, <2>3, <2>5 DEF Doc!Writing
  <2>9. CopiesInv'
    BY <1>1, <1>2, <2>1, <2>7, <2>8 DEF StoreInv, CopiesInv
  <2>10. RowIsOlder'
    <3>1. ~overlapped' => newer' \/ row' = file'
      BY <2>1 DEF StoreInv, RowIsOlder
    <3>2. ASSUME NEW v \in Savers, saves'[v].at = "row", saves'[v].alone
          PROVE  newer' /\ file' = saves'[v].doc
      <4>1. v = w
        BY <2>5, <3>2 DEF Doc!Writing
      <4> QED BY <2>1, <2>3, <2>5, <3>2, <4>1
    <3> QED BY <3>1, <3>2 DEF RowIsOlder
  <2> QED BY <2>6, <2>9, <2>10 DEF StoreInv
<1>5. CASE Doc!PersistRow(w)
  <2>1. /\ saves[w].at = "row"
        /\ (row' = saves[w].doc /\ newer' = FALSE) \/ UNCHANGED <<row, newer>>
        /\ saves' = [Doc!Disturbed EXCEPT ![w] = Doc!Idle]
        /\ overlapped' = (~saves[w].alone \/ Doc!Writing # {w})
        /\ UNCHANGED <<file, adrift>>
    BY <1>5 DEF Doc!PersistRow
  <2>2. /\ saves' = [v \in Savers |-> saves'[v]] /\ saves'[w].at = "idle" /\ IsSave(saves'[w])
        /\ \A v \in Savers \ {w} : /\ IsSave(saves'[v]) /\ saves'[v].at = saves[v].at
                                   /\ saves'[v].doc = saves[v].doc
                                   /\ v \in Doc!Writing => ~saves'[v].alone
    BY <2>1, DisturbedSaves DEF StoreInv, Doc!Idle, IsSave
  <2>3. SavesTypeOK'
    BY <2>1, <2>2 DEF StoreInv, SavesTypeOK
  <2>4. Sound(saves[w].doc, mints) /\ (~lossy => Clean(saves[w].doc, spent, vetted))
    BY <2>1 DEF StoreInv, CopiesInv, Doc!Writing
  <2>5. \A v \in Doc!Writing' : v \in Doc!Writing /\ saves'[v].doc = saves[v].doc
    BY <2>1, <2>2 DEF Doc!Writing
  <2>6. CopiesInv'
    BY <1>1, <1>2, <2>1, <2>4, <2>5 DEF StoreInv, CopiesInv
  <2>7. RowIsOlder'
    BY <2>1, <2>2 DEF StoreInv, RowIsOlder, Doc!Writing
  <2> QED BY <2>3, <2>6, <2>7 DEF StoreInv
<1> QED BY <1>3, <1>4, <1>5 DEF persist

LEMMA ApprovedAccount ==
  ASSUME NEW r, IsAccount(r), NEW new, new = [r EXCEPT !.approved = TRUE]
  PROVE  /\ IsAccount(new) /\ new.approved
         /\ new.role = r.role /\ new.invited = r.invited /\ new.codes = r.codes
BY DEF IsAccount

(* A boot gives codes to who has none left and approves who was not        *)
(* invited; with an admin in the copy there is nobody to promote.          *)
LEMMA LoadedIsSound ==
  ASSUME NEW d, NEW m \in Nat, Sound(d, m), NEW new, new = loadAuthStore(d, m)
  PROVE  /\ Sound(new, m + 1)
         /\ (\A u \in Known(new) : new[u].codes.gen # m) => Sound(new, m)
         /\ \A s, v : Clean(d, s, v) /\ (\A h \in s : h[2] # m) => Clean(new, s, v)
<1> DEFINE coded == migrateRecoveryCodes(d, m)
           approved == approveUninvited(coded)
<1>1. \A u \in Known(d) : u \in Users /\ IsAccount(d[u]) /\ d[u].codes.gen < m /\ d[u] # Absent
  BY DEF Sound, Known
<1>2. /\ coded = [u \in Users |-> coded[u]]
      /\ \A u \in Users \ Known(d) : coded[u] = d[u]
      /\ \A u \in Known(d) : /\ coded[u].codes = d[u].codes \/ coded[u].codes = [gen |-> m, left |-> Codes]
                             /\ IsAccount(coded[u]) /\ coded[u].role = d[u].role
                             /\ coded[u].invited = d[u].invited /\ coded[u].approved = d[u].approved
  BY <1>1 DEF migrateRecoveryCodes, IsAccount
<1> HIDE DEF coded
<1>3. Known(coded) = Known(d)
  BY <1>1, <1>2, AccountsArePresent DEF Known
<1>4. /\ approved = [u \in Users |-> approved[u]]
      /\ \A u \in Users \ Known(d) : approved[u] = d[u]
      /\ \A u \in Known(d) : /\ approved[u].codes = coded[u].codes
                             /\ IsAccount(approved[u]) /\ approved[u].role = d[u].role
                             /\ approved[u].invited = d[u].invited
                             /\ d[u].invited => approved[u].approved = d[u].approved
  <2>1. /\ approved = [u \in Users |-> approved[u]]
        /\ \A u \in Users \ Known(d) : approved[u] = coded[u]
        /\ \A u \in Known(d) :
             approved[u] = IF coded[u].invited THEN coded[u] ELSE [coded[u] EXCEPT !.approved = TRUE]
    BY <1>1, <1>3 DEF approveUninvited
  <2> HIDE DEF approved
  <2>2. ASSUME NEW u \in Known(d), ~coded[u].invited
        PROVE  /\ approved[u].codes = coded[u].codes /\ IsAccount(approved[u])
               /\ approved[u].role = coded[u].role /\ approved[u].invited = coded[u].invited
    <3>1. approved[u] = [coded[u] EXCEPT !.approved = TRUE] /\ IsAccount(coded[u])
      BY <1>2, <2>1, <2>2
    <3> QED BY <3>1, ApprovedAccount
  <2>3. ASSUME NEW u \in Known(d)
        PROVE  /\ approved[u].codes = coded[u].codes /\ IsAccount(approved[u])
               /\ approved[u].role = coded[u].role /\ approved[u].invited = coded[u].invited
               /\ d[u].invited => approved[u].approved = coded[u].approved
    <3>1. coded[u].invited = d[u].invited
      BY <1>2
    <3>2. CASE coded[u].invited
      <4>1. approved[u] = coded[u]
        BY <2>1, <3>2
      <4> QED BY <1>2, <4>1
    <3>3. CASE ~coded[u].invited
      BY <2>2, <3>1, <3>3
    <3> QED BY <3>2, <3>3
  <2> QED BY <1>2, <2>1, <2>3
<1>5. Known(d) # {} /\ new = promoteFirstAdminIfNone(approved)
  BY DEF loadAuthStore, Sound, Admins, coded
<1> HIDE DEF approved
<1>6. Known(approved) = Known(d)
  BY <1>1, <1>4, AccountsArePresent DEF Known
<1>7. Admins(approved) = Admins(d)
  BY <1>4, <1>6 DEF Admins
<1>8. new = approved
  BY <1>5, <1>7 DEF promoteFirstAdminIfNone, Sound
<1>9. \A u \in Known(d) : new[u].codes = d[u].codes \/ new[u].codes = [gen |-> m, left |-> Codes]
  BY <1>2, <1>4, <1>8
<1>10. \A u \in Known(new) : new[u].codes.gen \in Nat /\ new[u].codes.gen <= m
  BY <1>1, <1>6, <1>8, <1>9 DEF IsAccount
<1>11. Sound(new, m + 1) /\ ((\A u \in Known(new) : new[u].codes.gen # m) => Sound(new, m))
  <2>1. \A u \in Known(new) : /\ new[u].codes.gen < m + 1
                              /\ new[u].codes.gen # m => new[u].codes.gen < m
    BY <1>10
  <2>2. \A u \in Known(new) : IsAccount(new[u])
    BY <1>4, <1>6, <1>8
  <2>3. Admins(new) # {} /\ new = [u \in Users |-> new[u]]
    BY <1>4, <1>7, <1>8 DEF Sound
  <2> QED BY <2>1, <2>2, <2>3 DEF Sound
<1>12. ASSUME NEW s, NEW v, Clean(d, s, v), \A h \in s : h[2] # m
       PROVE  Clean(new, s, v)
  <2> SUFFICES ASSUME NEW u \in Known(d)
               PROVE  /\ \A c \in new[u].codes.left : <<u, new[u].codes.gen, c>> \notin s
                      /\ new[u].invited /\ new[u].approved => u \in v
    BY <1>6, <1>8 DEF Clean
  <2>1. new[u].invited /\ new[u].approved => u \in v
    BY <1>4, <1>8, <1>12 DEF Clean
  <2>2. ASSUME NEW c \in new[u].codes.left PROVE <<u, new[u].codes.gen, c>> \notin s
    BY <1>9, <1>12 DEF Clean
  <2> QED BY <2>1, <2>2
<1> QED BY <1>11, <1>12

LEMMA RestartKeepsStore ==
  ASSUME StoreInv, HistoryTypeOK, NEW attached \in BOOLEAN, Restart(attached), UNCHANGED vetted
  PROVE  StoreInv'
<1>1. PICK readable \in BOOLEAN, how \in {"ok", "failed", "blind"} :
        /\ Doc!Boot(attached, how, readable, loadAuthStore(Doc!Loaded(attached, how, readable), mints))
        /\ mints' = IF Minted(operators') THEN mints + 1 ELSE mints
        /\ lossy' = (lossy \/ (attached /\ how = "failed" /\ newer))
        /\ UNCHANGED <<spent, vetted>>
  BY DEF Restart
<1>2. PICK loaded : loaded = Doc!Loaded(attached, how, readable)
  OBVIOUS
<1>3. PICK stored : stored = IF attached THEN Doc!Reconciled(how) ELSE row
  OBVIOUS
<1>4. PICK adopted : adopted = loadAuthStore(loaded, mints)
  OBVIOUS
<1>5. /\ operators' = adopted /\ saves' = [w \in Savers |-> Doc!Idle]
      /\ \/ /\ file' = adopted /\ adrift' = FALSE /\ overlapped' = FALSE
            /\ \/ row' = stored /\ newer' = TRUE
               \/ row' = adopted /\ newer' = FALSE
         \/ /\ file' = file /\ row' = stored
            /\ newer' = (newer /\ ~(attached /\ how # "failed"))
            /\ adrift' = (adopted # file) /\ overlapped' = overlapped
  BY <1>1, <1>2, <1>3, <1>4 DEF Doc!Boot
<1>6. file # NoDoc /\ row # NoDoc
  BY SoundIsSaved DEF StoreInv, CopiesInv
<1>7. Doc!Reconciled(how) \in {file, row}
  BY DEF Doc!Reconciled
<1>8. loaded \in {file, row} /\ stored \in {file, row}
  BY <1>2, <1>3, <1>7 DEF Doc!Loaded
<1>9. ~lossy' => /\ ~lossy /\ (loaded = file \/ ~newer)
                 /\ stored = file \/ (attached /\ how = "failed" /\ ~newer) \/ (attached /\ how = "ok" /\ ~newer)
                    \/ ~attached
  BY <1>1, <1>2, <1>3, <1>6 DEF Doc!Loaded, Doc!FromRow, Doc!Reconciled
<1>10. /\ Sound(adopted, mints + 1)
       /\ (\A u \in Known(adopted) : adopted[u].codes.gen # mints) => Sound(adopted, mints)
       /\ Clean(loaded, spent, vetted) => Clean(adopted, spent, vetted)
  <2>1. Sound(loaded, mints) /\ mints \in Nat /\ \A h \in spent : h[2] # mints
    BY <1>8 DEF StoreInv, CopiesInv, HistoryTypeOK
  <2> QED BY <1>4, <2>1, LoadedIsSound
<1>11. Sound(adopted, mints') /\ mints' \in Nat /\ mints <= mints'
  BY <1>1, <1>5, <1>10 DEF Minted, HistoryTypeOK
<1>12. Sound(file, mints') /\ Sound(stored, mints')
  BY <1>8, <1>11, SoundIsKept DEF StoreInv, CopiesInv, HistoryTypeOK
<1>13. \A w \in Savers : saves'[w].at = "idle" /\ IsSave(saves'[w])
  BY <1>5 DEF Doc!Idle, IsSave
<1>14. SavesTypeOK'
  BY <1>5, <1>13 DEF StoreInv, SavesTypeOK
<1>15. ASSUME ~lossy'
       PROVE  /\ Clean(adopted, spent, vetted) /\ Clean(file, spent, vetted)
              /\ stored = file \/ (newer /\ ~attached) \/ Clean(stored, spent, vetted)
  <2>1. /\ ~lossy /\ Clean(file, spent, vetted) /\ (newer \/ Clean(row, spent, vetted))
        /\ loaded = file \/ ~newer
    BY <1>9, <1>15 DEF StoreInv, CopiesInv
  <2>2. Clean(adopted, spent, vetted)
    BY <1>8, <1>10, <2>1
  <2>3. stored = file \/ (newer /\ ~attached) \/ Clean(stored, spent, vetted)
    BY <1>8, <1>9, <1>15, <2>1
  <2> QED BY <2>1, <2>2, <2>3
<1>16. CopiesInv'
  <2>1. Doc!Writing' = {}
    BY <1>13 DEF Doc!Writing
  <2>2. Sound(operators', mints') /\ Sound(file', mints') /\ Sound(row', mints')
    BY <1>5, <1>11, <1>12
  <2>3. ASSUME ~lossy'
        PROVE  /\ Clean(operators', spent', vetted') /\ Clean(file', spent', vetted')
               /\ newer' \/ Clean(row', spent', vetted')
    BY <1>1, <1>5, <1>15, <2>3
  <2> QED BY <2>1, <2>2, <2>3 DEF CopiesInv
<1>17. RowIsOlder'
  <2>1. (~overlapped => newer \/ row = file)
    BY DEF StoreInv, RowIsOlder
  <2>2. stored = file \/ (stored = row /\ (newer => ~(attached /\ how # "failed")))
    BY <1>3, <1>6 DEF Doc!Reconciled
  <2>3. ~overlapped' => newer' \/ row' = file'
    <3>1. CASE newer' = TRUE \/ row' = file'
      BY <3>1
    <3>2. CASE /\ file' = file /\ row' = stored /\ overlapped' = overlapped
               /\ newer' = (newer /\ ~(attached /\ how # "failed"))
      <4>1. CASE stored = file
        BY <3>2, <4>1
      <4>2. CASE stored = row /\ (newer => ~(attached /\ how # "failed"))
        <5>1. newer => newer'
          BY <3>2, <4>2
        <5> QED BY <2>1, <3>2, <4>2, <5>1
      <4> QED BY <2>2, <4>1, <4>2
    <3> QED BY <1>5, <3>1, <3>2
  <2> QED BY <1>13, <2>3 DEF RowIsOlder
<1> QED BY <1>14, <1>16, <1>17 DEF StoreInv

(* A refused browser moves its entries in the memory only, so that its     *)
(* account is as tame as the one before.                                   *)
LEMMA RefusalKeepsStore ==
  ASSUME StoreInv, NEW u \in Users, NEW t, TrustRefused(u, t), UNCHANGED <<mints, spent, vetted>>
  PROVE  StoreInv'
<1>1. PICK list : list = ShiftedInPlace(operators[u].devices)
  OBVIOUS
<1>2. /\ u \in Known(operators) /\ operators' = [operators EXCEPT ![u] = [operators[u] EXCEPT !.devices = list]]
      /\ saves' = Doc!Disturbed /\ UNCHANGED <<file, row, newer, lossy>>
      /\ overlapped' = (overlapped \/ Doc!Writing # {})
      /\ adrift' = (adrift \/ operators' # operators)
  BY <1>1 DEF TrustRefused, With
<1>3. Sound(operators, mints) /\ IsAccount(operators[u])
  BY <1>2 DEF StoreInv, CopiesInv, Sound
<1> DEFINE account == [operators[u] EXCEPT !.devices = list]
<1>4. Tame(account, operators[u]) /\ operators' = [operators EXCEPT ![u] = account]
  BY <1>2, <1>3 DEF Tame, IsAccount
<1> HIDE DEF account
<1>5. /\ Sound(operators', mints)
      /\ Clean(operators, spent, vetted) => Clean(operators', spent, vetted)
  BY <1>2, <1>3, <1>4, TameIsKept
<1>6. /\ saves' = [w \in Savers |-> saves'[w]]
      /\ \A w \in Savers : /\ IsSave(saves'[w]) /\ saves'[w].at = saves[w].at
                           /\ saves'[w].doc = saves[w].doc
                           /\ w \in Doc!Writing => ~saves'[w].alone
  BY <1>2, DisturbedSaves DEF StoreInv
<1>7. Doc!Writing' = Doc!Writing
  BY <1>6 DEF Doc!Writing
<1>8. SavesTypeOK'
  BY <1>2, <1>6 DEF StoreInv, SavesTypeOK
<1>9. CopiesInv'
  BY <1>2, <1>5, <1>6, <1>7 DEF StoreInv, CopiesInv, Doc!Writing
<1>10. RowIsOlder'
  BY <1>2, <1>6 DEF StoreInv, RowIsOlder, Doc!Writing
<1> QED BY <1>8, <1>9, <1>10 DEF StoreInv

------------------------------------------------------------------------------
(* What the handlers do with it.                                           *)

SavesAs(d) ==
    writeOperatorsBlob(d) \/ persistLocked(d) \/ \E w \in Savers : changeThenPersist(w, d)

sameHistory == UNCHANGED <<mints, spent, reused, vetted, joins>>

LEMMA SaveKeepsInv ==
  ASSUME AccountInv, NEW d, SavesAs(d), sameHistory,
         Sound(d, mints), ~lossy => Clean(d, spent, vetted)
  PROVE  AccountInv'
<1>1. StoreInv' /\ lossy' \in BOOLEAN /\ (lossy => lossy')
  <2>1. CASE \E w \in Savers : changeThenPersist(w, d)
    <3>1. UNCHANGED lossy
      BY <2>1 DEF changeThenPersist
    <3> QED BY <2>1, <3>1, ChangeKeepsStore DEF AccountInv, HistoryTypeOK, sameHistory, changeThenPersist
  <2>2. CASE writeOperatorsBlob(d) \/ persistLocked(d)
    <3>1. NoteLoss /\ (Doc!LockedWrite(d) \/ Doc!FileOnlyWrite(d))
      BY <2>2 DEF writeOperatorsBlob, persistLocked
    <3>2. lossy' \in BOOLEAN /\ (lossy => lossy')
      BY <3>1 DEF NoteLoss
    <3>3. mints' = mints /\ mints \in Nat /\ mints <= mints /\ spent' = spent /\ vetted' = vetted
      BY DEF AccountInv, HistoryTypeOK, sameHistory
    <3> QED BY <3>1, <3>2, <3>3, WriteKeepsStore DEF AccountInv
  <2> QED BY <2>1, <2>2 DEF SavesAs
<1> QED BY <1>1 DEF AccountInv, HistoryTypeOK, CodesHonouredOnce, sameHistory

LEMMA TameSaveKeepsInv ==
  ASSUME AccountInv, NEW u, NEW rec, u \in Known(operators), Tame(rec, operators[u]),
         SavesAs(With(u, rec)), sameHistory
  PROVE  AccountInv'
<1> PICK d : d = With(u, rec)
  OBVIOUS
<1>1. d = [operators EXCEPT ![u] = rec]
  BY DEF With
<1>2. Sound(operators, mints) /\ (~lossy => Clean(operators, spent, vetted))
  BY DEF AccountInv, StoreInv, CopiesInv
<1>3. Sound(d, mints) /\ (~lossy => Clean(d, spent, vetted))
  BY <1>1, <1>2, TameIsKept
<1> QED BY <1>3, SaveKeepsInv

LEMMA SameSaveKeepsInv ==
  ASSUME AccountInv, SavesAs(operators), sameHistory
  PROVE  AccountInv'
<1> PICK d : d = operators
  OBVIOUS
<1>1. Sound(d, mints) /\ (~lossy => Clean(d, spent, vetted))
  BY DEF AccountInv, StoreInv, CopiesInv
<1> QED BY <1>1, SaveKeepsInv

LEMMA EditKeepsInv ==
  ASSUME AccountInv, NEW d, adminSaveOps(d), UNCHANGED <<spent, reused, vetted, joins>>,
         mints' \in {mints, mints + 1}, Sound(d, mints')
  PROVE  AccountInv'
<1>1. mints \in Nat /\ mints' \in Nat /\ mints <= mints'
  BY DEF AccountInv, HistoryTypeOK
<1>2. StoreInv'
  BY <1>1, EditKeepsStore DEF AccountInv
<1>3. lossy' \in BOOLEAN /\ lossy'
  BY DEF adminSaveOps, NoteLoss, Doc!ExternalEdit
<1>4. HistoryTypeOK'
  BY <1>1, <1>3 DEF AccountInv, HistoryTypeOK
<1> QED BY <1>2, <1>3, <1>4 DEF AccountInv, CodesHonouredOnce

LEMMA UntouchedKeepsInv ==
  ASSUME AccountInv, UNCHANGED <<storeVars, lossy>>, UNCHANGED <<mints, spent, reused, vetted>>,
         joins' \in [Savers -> [invite : Invites, user : Users] \cup {None}]
  PROVE  AccountInv'
<1>1. StoreInv'
  BY UntouchedStore DEF AccountInv
<1> QED BY <1>1 DEF AccountInv, HistoryTypeOK, CodesHonouredOnce

LEMMA KnownAccounts ==
  ASSUME AccountInv
  PROVE  /\ Sound(operators, mints) /\ Sound(file, mints) /\ mints \in Nat
         /\ \A u \in Known(operators) : u \in Users /\ IsAccount(operators[u])
         /\ \A u \in Known(file) : u \in Users /\ IsAccount(file[u])
BY DEF AccountInv, StoreInv, CopiesInv, HistoryTypeOK, Sound, Known

(* The accounts.                                                           *)
LEMMA CreateKeepsInv ==
  ASSUME AccountInv, NEW caller \in Users, NEW u \in Users, NEW role \in {"admin", "operator"},
         NEW pw \in Passwords, handleOperatorsCreate(caller, u, role, pw), UNCHANGED <<vetted, joins>>
  PROVE  AccountInv'
<1> DEFINE account == [Account(role, pw, mints) EXCEPT !.approved = TRUE]
<1>1. /\ mints \in Nat /\ mints' = mints + 1 /\ UNCHANGED <<spent, reused>> /\ u \notin Known(operators)
  BY KnownAccounts DEF handleOperatorsCreate, mint
<1>2. /\ IsAccount(account) /\ account.codes.gen = mints /\ ~account.invited
  BY <1>1 DEF IsAccount, Account, Unbound
<1> PICK d : d = With(u, account)
  OBVIOUS
<1>3. d = [operators EXCEPT ![u] = account] /\ writeOperatorsBlob(d)
  BY DEF With, handleOperatorsCreate
<1> HIDE DEF account
<1>4. Sound(operators, mints') /\ Admins(operators) \ {u} # {}
  <2>1. Sound(operators, mints')
    BY <1>1, KnownAccounts, SoundIsKept
  <2> QED BY <1>1, <2>1 DEF Sound, Admins
<1>5. Sound(d, mints')
  <2>1. account.codes.gen < mints'
    BY <1>1, <1>2
  <2> QED BY <1>2, <1>3, <1>4, <2>1, ReplaceIsSound
<1>6. ASSUME ~lossy PROVE Clean(d, spent, vetted)
  <2>1. Clean(operators, spent, vetted) /\ \A h \in spent : h[2] # mints
    BY <1>1, <1>6 DEF AccountInv, StoreInv, CopiesInv, HistoryTypeOK
  <2>2. \A c \in account.codes.left : <<u, account.codes.gen, c>> \notin spent
    BY <1>2, <2>1
  <2> QED BY <1>2, <1>3, <1>4, <2>1, <2>2, ReplaceIsClean
<1>7. Doc!LockedWrite(d) /\ NoteLoss /\ lossy' \in BOOLEAN /\ (lossy => lossy')
  BY <1>3 DEF writeOperatorsBlob, NoteLoss
<1>8. StoreInv'
  BY <1>1, <1>5, <1>6, <1>7, WriteKeepsStore DEF AccountInv
<1> QED BY <1>1, <1>7, <1>8 DEF AccountInv, HistoryTypeOK, CodesHonouredOnce

LEMMA AccountStepsKeepInv ==
  ASSUME AccountInv, AccountSteps, UNCHANGED <<vetted, joins>>
  PROVE  AccountInv'
<1> USE KnownAccounts
<1>1. ASSUME NEW caller \in Users, NEW u \in Users, handleOperatorsDelete(caller, u)
      PROVE  AccountInv'
  <2> PICK d : d = With(u, Absent)
    OBVIOUS
  <2>1. /\ u \in Known(operators) /\ (u \in Admins(operators) => Cardinality(Admins(operators)) > 1)
        /\ d = [operators EXCEPT ![u] = Absent] /\ writeOperatorsBlob(d) /\ calm
    BY <1>1 DEF handleOperatorsDelete, With
  <2>2. Admins(operators) \ {u} # {}
    BY <2>1, AnotherAdmin DEF Sound
  <2>3. Sound(d, mints)
    BY <2>1, <2>2, ReplaceIsSound
  <2>4. ~lossy => Clean(d, spent, vetted)
    BY <2>1, ReplaceIsClean DEF AccountInv, StoreInv, CopiesInv
  <2> QED BY <2>1, <2>3, <2>4, SaveKeepsInv DEF SavesAs, calm, sameHistory
<1>2. ASSUME NEW caller \in Users, NEW u \in Users, NEW role \in {"admin", "operator"},
             handleOperatorsUpdate(caller, u, role)
      PROVE  AccountInv'
  <2> DEFINE account == [operators[u] EXCEPT !.role = role]
  <2>1. /\ u \in Known(operators) /\ (u \in Admins(operators) => Cardinality(Admins(operators)) > 1)
        /\ writeOperatorsBlob(With(u, account)) /\ calm
    BY <1>2 DEF handleOperatorsUpdate
  <2>2. IsAccount(operators[u]) /\ operators[u].codes.gen < mints
    BY <2>1 DEF Sound
  <2>3. /\ IsAccount(account) /\ account.codes = operators[u].codes
        /\ account.invited = operators[u].invited /\ account.approved = operators[u].approved
    BY <2>2 DEF IsAccount
  <2> HIDE DEF account
  <2> PICK d : d = With(u, account)
    OBVIOUS
  <2>4. d = [operators EXCEPT ![u] = account]
    BY DEF With
  <2>5. Admins(operators) \ {u} # {}
    BY <2>1, AnotherAdmin DEF Sound
  <2>6. Sound(d, mints)
    BY <2>2, <2>3, <2>4, <2>5, ReplaceIsSound
  <2>7. ASSUME ~lossy PROVE Clean(d, spent, vetted)
    <3>1. Clean(operators, spent, vetted)
      BY <2>7 DEF AccountInv, StoreInv, CopiesInv
    <3>2. /\ \A c \in account.codes.left : <<u, account.codes.gen, c>> \notin spent
          /\ account.invited /\ account.approved => u \in vetted
      BY <2>1, <2>3, <3>1 DEF Clean
    <3> QED BY <2>4, <3>1, <3>2, ReplaceIsClean
  <2> QED BY <2>1, <2>6, <2>7, SaveKeepsInv DEF SavesAs, calm, sameHistory
<1>3. ASSUME NEW u \in Users, NEW role \in {"admin", "operator"}, adminCmdSetRole(u, role)
      PROVE  AccountInv'
  <2> DEFINE account == [file[u] EXCEPT !.role = role]
  <2>1. /\ u \in Known(file) /\ file[u].role # role
        /\ role = "operator" => Cardinality(Admins(file)) > 1
        /\ adminSaveOps([file EXCEPT ![u] = account]) /\ calm
    BY <1>3 DEF adminCmdSetRole, InFile, Edited
  <2>2. IsAccount(file[u]) /\ file[u].codes.gen < mints
    BY <2>1 DEF Sound
  <2>3. IsAccount(account) /\ account.codes = file[u].codes /\ account.role = role
    BY <2>2 DEF IsAccount
  <2> HIDE DEF account
  <2> PICK d : d = [file EXCEPT ![u] = account]
    OBVIOUS
  <2>4. account.role = "admin" \/ Admins(file) \ {u} # {}
    BY <2>1, <2>3, AnotherAdmin
  <2>5. Sound(d, mints)
    BY <2>2, <2>3, <2>4, ReplaceIsSound
  <2>6. mints' = mints /\ Sound(d, mints')
    BY <2>1, <2>5 DEF calm
  <2> QED BY <2>1, <2>6, EditKeepsInv DEF calm
<1> QED BY <1>1, <1>2, <1>3, CreateKeepsInv DEF AccountSteps

(* Of an account's edit in the file, or from memory, everything but what   *)
(* it is about stays.                                                      *)
LEMMA TameEditKeepsInv ==
  ASSUME AccountInv, NEW u, NEW rec, u \in Known(file), Tame(rec, file[u]),
         Edited(u, rec), sameHistory
  PROVE  AccountInv'
<1> PICK d : d = [file EXCEPT ![u] = rec]
  OBVIOUS
<1>1. adminSaveOps(d)
  BY DEF Edited
<1>2. Sound(d, mints) /\ mints' = mints
  BY KnownAccounts, TameIsKept DEF sameHistory
<1> QED BY <1>1, <1>2, EditKeepsInv DEF sameHistory

(* Why a code is honoured once: the write that takes it reached the file   *)
(* with nobody else writing, or the save was lossy; the row, if it still   *)
(* holds the code, is the older of the two.                                *)
LEMMA RecoverKeepsInv ==
  ASSUME AccountInv, NEW u \in Users, NEW c \in Codes, NEW pw \in Passwords,
         handleRecoverPassword(u, c, pw), UNCHANGED <<vetted, joins>>
  PROVE  AccountInv'
<1> DEFINE account == [operators[u] EXCEPT !.pw = pw, !.codes.left = @ \ {c}]
           code == <<u, operators[u].codes.gen, c>>
<1>1. /\ u \in Known(operators) /\ c \in operators[u].codes.left
      /\ writeOperatorsBlob(With(u, account))
      /\ reused' = (reused \/ code \in spent) /\ spent' = spent \cup {code}
      /\ mints' = mints
  BY DEF handleRecoverPassword
<1>2. IsAccount(operators[u]) /\ operators[u].codes.gen < mints
  BY <1>1, KnownAccounts DEF Sound
<1>3. /\ Tame(account, operators[u]) /\ account.codes.left = operators[u].codes.left \ {c}
      /\ account.codes.gen = operators[u].codes.gen
      /\ account.invited = operators[u].invited /\ account.approved = operators[u].approved
  BY <1>2 DEF Tame, IsAccount
<1>4. code \in Users \X Nat \X Codes /\ code[2] = operators[u].codes.gen
  BY <1>2 DEF IsAccount
<1> HIDE DEF account
<1> PICK d : d = With(u, account)
  OBVIOUS
<1>5. d = [operators EXCEPT ![u] = account] /\ Doc!LockedWrite(d) /\ NoteLoss
  BY <1>1 DEF With, writeOperatorsBlob
<1>6. Sound(d, mints') /\ mints \in Nat /\ mints' \in Nat /\ mints <= mints'
  <2>1. Sound(operators, mints) /\ mints \in Nat
    BY KnownAccounts
  <2>2. Sound(d, mints)
    BY <1>1, <1>3, <1>5, <2>1, TameIsKept
  <2> QED BY <1>1, <2>1, <2>2
<1>7. ASSUME ~lossy PROVE Clean(d, spent', vetted) /\ code \notin spent
  <2>1. Clean(operators, spent, vetted) /\ \A v \in Users \ {u} : d[v] = operators[v]
    BY <1>5, <1>7, KnownAccounts DEF AccountInv, StoreInv, CopiesInv, Sound
  <2>2. d[u] = account
    BY <1>1, <1>5, KnownAccounts DEF Sound
  <2>3. code \notin spent
    BY <1>1, <2>1 DEF Clean
  <2>4. ASSUME NEW v \in Known(d)
        PROVE  /\ \A e \in d[v].codes.left : <<v, d[v].codes.gen, e>> \notin spent'
               /\ d[v].invited /\ d[v].approved => v \in vetted
    <3>1. CASE v = u
      <4>1. \A e \in account.codes.left : <<u, account.codes.gen, e>> \notin spent \cup {code}
        BY <1>1, <1>3, <2>1 DEF Clean
      <4>2. account.invited /\ account.approved => u \in vetted
        BY <1>1, <1>3, <2>1 DEF Clean
      <4> QED BY <1>1, <2>2, <3>1, <4>1, <4>2
    <3>2. CASE v # u
      <4>1. v \in Known(operators) /\ d[v] = operators[v]
        BY <2>1, <3>2 DEF Known
      <4> QED BY <1>1, <2>1, <3>2, <4>1 DEF Clean
    <3> QED BY <3>1, <3>2
  <2> QED BY <2>3, <2>4 DEF Clean
<1>8. lossy' \in BOOLEAN /\ (lossy => lossy')
  BY <1>5 DEF NoteLoss
<1>9. StoreInv'
  BY <1>5, <1>6, <1>7, <1>8, WriteKeepsStore DEF AccountInv
<1>10. HistoryTypeOK'
  <2>1. \A h \in spent' : h \in Users \X Nat \X Codes /\ h[2] < mints'
    BY <1>1, <1>2, <1>4 DEF AccountInv, HistoryTypeOK
  <2> QED BY <1>1, <1>8, <2>1 DEF AccountInv, HistoryTypeOK
<1>11. CodesHonouredOnce'
  BY <1>1, <1>7, <1>8 DEF AccountInv, CodesHonouredOnce
<1> QED BY <1>9, <1>10, <1>11 DEF AccountInv

LEMMA SecretStepsKeepInv ==
  ASSUME AccountInv, NEW u \in Users, SecretSteps(u), UNCHANGED <<vetted, joins>>
  PROVE  AccountInv'
<1> USE DEF calm, sameHistory
<1>1. ASSUME NEW pw \in Passwords, adminCmdResetPassword(u, pw) PROVE AccountInv'
  <2>1. u \in Known(file) /\ Edited(u, [file[u] EXCEPT !.pw = pw]) /\ calm
    BY <1>1 DEF adminCmdResetPassword, InFile
  <2>2. Tame([file[u] EXCEPT !.pw = pw], file[u])
    BY <2>1, KnownAccounts DEF Tame, IsAccount
  <2> QED BY <2>1, <2>2, TameEditKeepsInv
<1>2. ASSUME NEW old \in Passwords, NEW pw \in Passwords, handleChangePassword(u, old, pw)
      PROVE  AccountInv'
  <2>1. u \in Known(operators) /\ writeOperatorsBlob(With(u, [operators[u] EXCEPT !.pw = pw])) /\ calm
    BY <1>2 DEF handleChangePassword, loggedIn
  <2>2. Tame([operators[u] EXCEPT !.pw = pw], operators[u])
    BY <2>1, KnownAccounts DEF Tame, IsAccount
  <2> QED BY <2>1, <2>2, TameSaveKeepsInv DEF SavesAs
<1>3. ASSUME adminCmdResetMFA(u) PROVE AccountInv'
  <2>1. u \in Known(file) /\ calm
        /\ Edited(u, [file[u] EXCEPT !.totp = None, !.passkeys = {}, !.codes.left = {}])
    BY <1>3 DEF adminCmdResetMFA, InFile
  <2>2. Tame([file[u] EXCEPT !.totp = None, !.passkeys = {}, !.codes.left = {}], file[u])
    BY <2>1, KnownAccounts DEF Tame, IsAccount
  <2> QED BY <2>1, <2>2, TameEditKeepsInv
<1>4. ASSUME adminCmdRegenRecovery(u) PROVE AccountInv'
  <2> DEFINE account == [file[u] EXCEPT !.codes = [gen |-> mints, left |-> Codes]]
  <2>1. /\ u \in Known(file) /\ adminSaveOps([file EXCEPT ![u] = account])
        /\ mints' = mints + 1 /\ UNCHANGED <<spent, reused>>
    BY <1>4 DEF adminCmdRegenRecovery, InFile, Edited, mint
  <2>2. mints \in Nat /\ mints' \in Nat /\ mints <= mints' /\ mints < mints'
    BY <2>1, KnownAccounts
  <2>3. Sound(file, mints') /\ IsAccount(file[u])
    BY <2>1, <2>2, KnownAccounts, SoundIsKept
  <2>4. IsAccount(account) /\ account.codes.gen = mints /\ account.role = file[u].role
    BY <2>2, <2>3 DEF IsAccount
  <2> HIDE DEF account
  <2> PICK d : d = [file EXCEPT ![u] = account]
    OBVIOUS
  <2>5. account.role = "admin" \/ Admins(file) \ {u} # {}
    BY <2>3, <2>4 DEF Sound, Admins
  <2>6. Sound(d, mints')
    BY <2>2, <2>3, <2>4, <2>5, ReplaceIsSound
  <2> QED BY <2>1, <2>6, EditKeepsInv
<1>5. ASSUME NEW x \in Secrets, handleTOTPSetupConfirm(u, x) PROVE AccountInv'
  <2>1. u \in Known(operators) /\ writeOperatorsBlob(With(u, [operators[u] EXCEPT !.totp = x])) /\ calm
    BY <1>5 DEF handleTOTPSetupConfirm, loggedIn
  <2>2. Tame([operators[u] EXCEPT !.totp = x], operators[u])
    BY <2>1, KnownAccounts DEF Tame, IsAccount
  <2> QED BY <2>1, <2>2, TameSaveKeepsInv DEF SavesAs
<1> QED BY <1>1, <1>2, <1>3, <1>4, <1>5, RecoverKeepsInv DEF SecretSteps

(* Identities, passkeys, SSH keys and browsers: an account of the memory   *)
(* changes in a field of theirs.                                           *)
LEMMA BindKeepsInv ==
  ASSUME AccountInv, NEW w \in Savers, NEW u \in Users, NEW p, NEW x \in Subjects \cup {None},
         \/ bindIdentity(w, u, p, x)
         \/ u \in Known(operators) /\ changeThenPersist(w, With(u, [operators[u] EXCEPT !.ids[p] = x])),
         sameHistory
  PROVE  AccountInv'
<1>1. u \in Known(operators) /\ changeThenPersist(w, With(u, [operators[u] EXCEPT !.ids[p] = x]))
  BY DEF bindIdentity
<1>2. Tame([operators[u] EXCEPT !.ids[p] = x], operators[u])
  BY <1>1, KnownAccounts DEF Tame, IsAccount
<1> QED BY <1>1, <1>2, TameSaveKeepsInv DEF SavesAs

LEMMA IdentityStepsKeepInv ==
  ASSUME AccountInv, NEW p \in Providers, IdentitySteps(p), UNCHANGED <<vetted, joins>>
  PROVE  AccountInv'
<1> USE DEF calm, sameHistory
<1>1. ASSUME vars' = vars PROVE AccountInv'
  BY <1>1, UntouchedKeepsInv DEF vars, storeVars, history, AccountInv, HistoryTypeOK
<1>2. ASSUME NEW w \in Savers, pictured(w) PROVE AccountInv'
  <2>1. changeThenPersist(w, operators) /\ calm
    BY <1>2 DEF pictured, setAvatar
  <2> QED BY <2>1, SameSaveKeepsInv DEF SavesAs
<1>3. ASSUME NEW w \in Savers, NEW u \in Users, NEW x \in Subjects, identified(w, u, p, x)
      PROVE  AccountInv'
  <2>1. CASE bindIdentity(w, u, p, x) /\ calm
    BY <2>1, BindKeepsInv
  <2>2. CASE issueAndSetSession(u) /\ touchIdentity(w)
    BY <2>2, SameSaveKeepsInv DEF SavesAs, touchIdentity, issueAndSetSession
  <2> QED BY <1>3, <2>1, <2>2 DEF identified
<1>4. ASSUME \/ \E t \in Tickets : handleStart(t)
             \/ \E u \in Users, t \in Tickets : handleBindStart(u, t)
             \/ \E w \in Savers, t \in Tickets : handleCallback(w, t)
             \/ \E w \in Savers : exchangeFails(w)
      PROVE  vars' = vars
  BY <1>4 DEF handleStart, handleBindStart, handleCallback, exchangeFails
<1> QED BY <1>1, <1>2, <1>3, <1>4 DEF IdentitySteps

LEMMA TelegramStepsKeepInv ==
  ASSUME AccountInv, TelegramSteps, UNCHANGED <<vetted, joins>>
  PROVE  AccountInv'
<1> USE DEF calm, sameHistory
<1>1. ASSUME NEW t \in Tickets, NEW x \in Subjects, mintTGBindTicket(t, x) PROVE AccountInv'
  BY <1>1, UntouchedKeepsInv DEF mintTGBindTicket, vars, storeVars, history, AccountInv, HistoryTypeOK
<1>2. ASSUME NEW w \in Savers, NEW u \in Users, NEW t \in Tickets, NEW x \in Subjects,
             handleTGBindTicket(w, u, t, x)
      PROVE  AccountInv'
  <2>1. CASE bindIdentity(w, u, "telegram", x)
    BY <1>2, <2>1, BindKeepsInv DEF handleTGBindTicket
  <2>2. CASE UNCHANGED <<storeVars, lossy>>
    BY <1>2, <2>2, UntouchedKeepsInv DEF handleTGBindTicket, AccountInv, HistoryTypeOK
  <2> QED BY <1>2, <2>1, <2>2 DEF handleTGBindTicket
<1>3. ASSUME NEW w \in Savers, NEW u \in Users, setBotNick(w, u) PROVE AccountInv'
  BY <1>3, SameSaveKeepsInv DEF setBotNick, SavesAs
<1>4. ASSUME NEW w \in Savers, NEW u \in Users, handleIdentities(w, u, "telegram") PROVE AccountInv'
  <2>1. /\ u \in Known(operators) /\ calm
        /\ changeThenPersist(w, With(u, [operators[u] EXCEPT !.ids["telegram"] = None]))
    BY <1>4 DEF handleIdentities, unbindIdentity, loggedIn
  <2>2. None \in Subjects \cup {None}
    OBVIOUS
  <2> QED BY <2>1, <2>2, BindKeepsInv
<1> QED BY <1>1, <1>2, <1>3, <1>4 DEF TelegramSteps

LEMMA TicketStepsKeepInv ==
  ASSUME AccountInv, TicketOnlySteps \/ TicketSteps, UNCHANGED <<vetted, joins>>
  PROVE  AccountInv'
<1> USE DEF calm, sameHistory, vars, storeVars, history
<1>1. UNCHANGED <<storeVars, lossy>> /\ UNCHANGED <<mints, spent, reused>>
  <2>1. CASE TicketSteps
    BY <2>1 DEF TicketSteps, collect, Lapse
  <2>2. ASSUME NEW u \in Users, NEW t \in Tickets,
               handleAuthorize(u, t) \/ mintSSOTicket(t, u) \/ handleIngest(t, u)
        PROVE  UNCHANGED <<storeVars, lossy>> /\ UNCHANGED <<mints, spent, reused>>
    BY <2>2 DEF handleAuthorize, mintSSOTicket, handleIngest, issueAndSetSession
  <2>3. ASSUME NEW t \in Tickets, handleToken(t)
        PROVE  UNCHANGED <<storeVars, lossy>> /\ UNCHANGED <<mints, spent, reused>>
    BY <2>3 DEF handleToken
  <2>4. ASSUME NEW u \in Users, handleLogout(u)
        PROVE  UNCHANGED <<storeVars, lossy>> /\ UNCHANGED <<mints, spent, reused>>
    BY <2>4 DEF handleLogout
  <2> QED BY <2>1, <2>2, <2>3, <2>4 DEF TicketOnlySteps
<1> QED BY <1>1, UntouchedKeepsInv DEF AccountInv, HistoryTypeOK

(* The account a passkey is added to keeps what the invariant is about.    *)
LEMMA AnswerKeepsInv ==
  ASSUME AccountInv, NEW u \in Users, NEW k \in Passkeys, addPasskey(u, k), calm,
         UNCHANGED <<vetted, joins>>
  PROVE  AccountInv'
<1>1. u \in Known(operators) /\ persistLocked(With(u, [operators[u] EXCEPT !.passkeys = @ \cup {k}]))
  BY DEF addPasskey
<1>2. Tame([operators[u] EXCEPT !.passkeys = @ \cup {k}], operators[u])
  BY <1>1, KnownAccounts DEF Tame, IsAccount
<1> QED BY <1>1, <1>2, TameSaveKeepsInv DEF SavesAs, calm, sameHistory

LEMMA PasskeyStepsKeepInv ==
  ASSUME AccountInv, NEW u \in Users, PasskeySteps(u), UNCHANGED <<vetted, joins>>
  PROVE  AccountInv'
<1> USE DEF calm, sameHistory
<1>1. ASSUME UNCHANGED <<storeVars, lossy>>, UNCHANGED <<mints, spent, reused>> PROVE AccountInv'
  BY <1>1, UntouchedKeepsInv DEF AccountInv, HistoryTypeOK
<1>2. ASSUME NEW caller \in Users, NEW t \in Tickets, NEW k \in Passkeys,
             handlePasskeyRegFinish(caller, t, k)
      PROVE  AccountInv'
  BY <1>1, <1>2, AnswerKeepsInv DEF handlePasskeyRegFinish
<1>3. ASSUME NEW t \in Tickets, NEW k \in Passkeys, handlePasskeyLoginFinish(t, u, k) PROVE AccountInv'
  <2>1. CASE persistLocked(operators) /\ issueAndSetSession(u)
    BY <2>1, SameSaveKeepsInv DEF SavesAs, issueAndSetSession
  <2>2. CASE UNCHANGED vars
    BY <1>1, <2>2 DEF vars, storeVars, history
  <2> QED BY <1>3, <2>1, <2>2 DEF handlePasskeyLoginFinish
<1>4. ASSUME NEW t \in Tickets, handlePasskeyLoginBegin(t) \/ handlePasskeyRegBegin(u, t)
      PROVE  AccountInv'
  BY <1>1, <1>4 DEF handlePasskeyLoginBegin, handlePasskeyRegBegin, vars, storeVars, history
<1>5. ASSUME NEW k \in Passkeys, handlePasskeyDelete(u, k) PROVE AccountInv'
  <2>1. u \in Known(operators) /\ calm
        /\ persistLocked(With(u, [operators[u] EXCEPT !.passkeys = @ \ {k}]))
    BY <1>5 DEF handlePasskeyDelete, loggedIn
  <2>2. Tame([operators[u] EXCEPT !.passkeys = @ \ {k}], operators[u])
    BY <2>1, KnownAccounts DEF Tame, IsAccount
  <2> QED BY <2>1, <2>2, TameSaveKeepsInv DEF SavesAs
<1> QED BY <1>2, <1>3, <1>4, <1>5 DEF PasskeySteps

LEMMA KeyStepsKeepInv ==
  ASSUME AccountInv, NEW u \in Users, KeySteps(u), UNCHANGED <<vetted, joins>>
  PROVE  AccountInv'
<1> USE DEF calm, sameHistory
<1>1. ASSUME UNCHANGED <<storeVars, lossy>>, UNCHANGED <<mints, spent, reused>> PROVE AccountInv'
  BY <1>1, UntouchedKeepsInv DEF AccountInv, HistoryTypeOK
<1>2. ASSUME NEW s \in Tickets, NEW t \in Tickets, handleSSHLoginFinish(u, s, t) PROVE AccountInv'
  <2>1. CASE persistLocked(operators)
    BY <1>2, <2>1, SameSaveKeepsInv DEF SavesAs, handleSSHLoginFinish
  <2> QED BY <1>1, <1>2, <2>1 DEF handleSSHLoginFinish
<1>3. ASSUME NEW t \in Tickets, handleSSHLoginBegin(u, t) \/ handleSSHLoginRedeem(u, t) PROVE AccountInv'
  BY <1>1, <1>3 DEF handleSSHLoginBegin, handleSSHLoginRedeem, issueAndSetSession, vars, storeVars, history
<1>4. ASSUME NEW k \in SshKeys, handleSSHKeyAdd(u, k) \/ handleSSHKeyDelete(u, k) PROVE AccountInv'
  <2>1. PICK ks \in SUBSET SshKeys :
          u \in Known(operators) /\ calm /\ persistLocked(With(u, [operators[u] EXCEPT !.keys = ks]))
    <3>1. u \in Known(operators) /\ calm
      BY <1>4 DEF handleSSHKeyAdd, handleSSHKeyDelete, loggedIn
    <3>2. operators[u].keys \subseteq SshKeys
      BY <3>1, KnownAccounts DEF IsAccount
    <3> QED BY <1>4, <3>1, <3>2 DEF handleSSHKeyAdd, handleSSHKeyDelete
  <2>2. Tame([operators[u] EXCEPT !.keys = ks], operators[u])
    BY <2>1, KnownAccounts DEF Tame, IsAccount
  <2> QED BY <2>1, <2>2, TameSaveKeepsInv DEF SavesAs
<1> QED BY <1>2, <1>3, <1>4 DEF KeySteps

LEMMA DevicesKeepInv ==
  ASSUME AccountInv, NEW w \in Savers, NEW u, NEW list, u \in Known(operators),
         changeThenPersist(w, With(u, [operators[u] EXCEPT !.devices = list])), sameHistory
  PROVE  AccountInv'
<1>1. Tame([operators[u] EXCEPT !.devices = list], operators[u])
  BY KnownAccounts DEF Tame, IsAccount
<1> QED BY <1>1, TameSaveKeepsInv DEF SavesAs

LEMMA DeviceStepsKeepInv ==
  ASSUME AccountInv, NEW u \in Users, NEW w \in Savers, DeviceSteps(u, w), UNCHANGED <<vetted, joins>>
  PROVE  AccountInv'
<1> USE DEF calm, sameHistory
<1>1. ASSUME UNCHANGED <<storeVars, lossy>>, UNCHANGED <<mints, spent, reused>> PROVE AccountInv'
  BY <1>1, UntouchedKeepsInv DEF AccountInv, HistoryTypeOK
<1>2. ASSUME NEW pw \in Passwords, handleLogin(w, u, pw) PROVE AccountInv'
  <2>1. CASE UNCHANGED <<storeVars, lossy>> /\ issueAndSetSession(u)
    BY <1>1, <2>1 DEF issueAndSetSession
  <2>2. ASSUME NEW t \in Devices, checkDeviceTrust(w, u, t), issueAndSetSession(u) PROVE AccountInv'
    <3>1. PICK list : /\ changeThenPersist(w, With(u, [operators[u] EXCEPT !.devices = list]))
                      /\ u \in Known(operators)
      BY <2>2 DEF checkDeviceTrust
    <3> QED BY <2>2, <3>1, DevicesKeepInv DEF issueAndSetSession
  <2>3. ASSUME NEW t \in Devices, TrustRefused(u, t), calm PROVE AccountInv'
    <3>1. StoreInv'
      BY <2>3, RefusalKeepsStore DEF AccountInv
    <3>2. UNCHANGED lossy
      BY <2>3 DEF TrustRefused
    <3> QED BY <2>3, <3>1, <3>2 DEF AccountInv, HistoryTypeOK, CodesHonouredOnce
  <2> QED BY <1>2, <2>1, <2>2, <2>3 DEF handleLogin
<1>3. ASSUME handleLoginVerifyTOTP(w, u) PROVE AccountInv'
  <2>1. ASSUME NEW t \in Devices, registerTrustedDevice(w, u, t) PROVE AccountInv'
    <3>1. PICK list : /\ changeThenPersist(w, With(u, [operators[u] EXCEPT !.devices = list]))
                      /\ u \in Known(operators)
      BY <2>1 DEF registerTrustedDevice
    <3> QED BY <1>3, <3>1, DevicesKeepInv DEF handleLoginVerifyTOTP, issueAndSetSession
  <2> QED BY <1>1, <1>3, <2>1 DEF handleLoginVerifyTOTP, issueAndSetSession
<1>4. ASSUME NEW t \in Devices, handleRevokeDevice(w, u, t) PROVE AccountInv'
  <2>1. PICK list : /\ changeThenPersist(w, With(u, [operators[u] EXCEPT !.devices = list]))
                    /\ u \in Known(operators) /\ calm
    BY <1>4 DEF handleRevokeDevice, loggedIn
  <2> QED BY <2>1, DevicesKeepInv
<1>5. CASE IntentExpires(u) \/ Tomorrow
  BY <1>1, <1>5 DEF IntentExpires, Tomorrow, vars, storeVars, history
<1> QED BY <1>2, <1>3, <1>4, <1>5 DEF DeviceSteps

(* Invitations.                                                            *)
Completion == [invite : Invites, user : Users]

(* Why an invited account waits: it is saved, in the file alone, before    *)
(* its name may have been vetted again; of who had it before, the row can  *)
(* tell, but it is the older then.                                         *)
LEMMA InviteeKeepsInv ==
  ASSUME AccountInv, NEW u \in Users, u \notin Known(operators), NEW account,
         IsAccount(account), account.codes.gen = mints, ~account.approved,
         persistLocked(With(u, account)), mints' = mints + 1, UNCHANGED <<spent, reused>>,
         vetted' = vetted \ {u}, joins' \in [Savers -> Completion \cup {None}]
  PROVE  AccountInv'
<1>1. mints \in Nat /\ mints' \in Nat /\ mints <= mints' /\ mints < mints'
  BY KnownAccounts
<1> PICK d : d = [operators EXCEPT ![u] = account]
  OBVIOUS
<1>2. Doc!FileOnlyWrite(d) /\ NoteLoss
  BY DEF With, persistLocked
<1>3. Sound(operators, mints') /\ Admins(operators) \ {u} # {}
  <2>1. Sound(operators, mints')
    BY <1>1, KnownAccounts, SoundIsKept
  <2> QED BY <2>1 DEF Sound, Admins
<1>4. Sound(d, mints')
  BY <1>1, <1>3, ReplaceIsSound
<1>5. ASSUME ~lossy PROVE Clean(d, spent, vetted')
  <2>1. Clean(operators, spent, vetted) /\ \A h \in spent : h[2] # mints
    BY <1>1, <1>5 DEF AccountInv, StoreInv, CopiesInv, HistoryTypeOK
  <2>2. Clean(operators, spent, vetted')
    BY <2>1 DEF Clean
  <2>3. \A c \in account.codes.left : <<u, account.codes.gen, c>> \notin spent
    BY <2>1
  <2> QED BY <1>3, <2>2, <2>3, ReplaceIsClean
<1>6. lossy' \in BOOLEAN /\ (lossy => lossy')
  BY <1>2 DEF NoteLoss
<1>7. StoreInv'
  BY <1>1, <1>2, <1>4, <1>5, <1>6, WriteKeepsStore DEF AccountInv
<1>8. HistoryTypeOK'
  <2>1. \A h \in spent' : h \in Users \X Nat \X Codes /\ h[2] < mints'
    BY <1>1 DEF AccountInv, HistoryTypeOK
  <2>2. vetted' \subseteq Users
    BY DEF AccountInv, HistoryTypeOK
  <2> QED BY <1>1, <1>6, <2>1, <2>2 DEF AccountInv, HistoryTypeOK, Completion
<1> QED BY <1>6, <1>7, <1>8 DEF AccountInv, CodesHonouredOnce

LEMMA CompleteKeepsInv ==
  ASSUME AccountInv, NEW w \in Savers, NEW pw \in Passwords, NEW x \in Secrets \cup {None},
         NEW k \in Passkeys \cup {None}, NEW t \in Tickets, handleInviteComplete(w, pw, x, k, t)
  PROVE  AccountInv'
<1>1. /\ joins[w] # None /\ joins' = [joins EXCEPT ![w] = None]
      /\ joins \in [Savers -> Completion \cup {None}]
  BY DEF handleInviteComplete, AccountInv, HistoryTypeOK, Completion
<1>2. joins' \in [Savers -> Completion \cup {None}] /\ joins[w].user \in Users
  BY <1>1 DEF Completion
<1>3. CASE UNCHANGED <<vars, vetted>>
  BY <1>2, <1>3, UntouchedKeepsInv DEF vars, storeVars, history, Completion
<1>4. CASE ~UNCHANGED <<vars, vetted>>
  <2> DEFINE u == joins[w].user
             account == [Account("operator", pw, mints) EXCEPT
                            !.invited = TRUE, !.totp = x, !.passkeys = {k} \ {None}]
  <2>1. /\ u \notin Known(operators) /\ persistLocked(With(u, account))
        /\ mints' = mints + 1 /\ UNCHANGED <<spent, reused>> /\ vetted' = vetted \ {u}
    BY <1>4 DEF handleInviteComplete, sameAccounts, mint
  <2>2. mints \in Nat
    BY KnownAccounts
  <2>3. IsAccount(account) /\ account.codes.gen = mints /\ ~account.approved
    BY <2>2 DEF IsAccount, Account, Unbound
  <2> HIDE DEF account
  <2> QED BY <1>2, <2>1, <2>3, InviteeKeepsInv
<1> QED BY <1>3, <1>4

LEMMA ApproveKeepsInv ==
  ASSUME AccountInv, NEW caller \in Users, NEW u \in Users, approves(caller, u)
  PROVE  AccountInv'
<1> DEFINE account == [operators[u] EXCEPT !.approved = TRUE]
<1>1. /\ u \in Known(operators) /\ persistLocked(With(u, account)) /\ calm
      /\ vetted' = vetted \cup {u} /\ UNCHANGED joins
  BY DEF approves, handleOperatorsApprove
<1>2. IsAccount(operators[u]) /\ operators[u].codes.gen < mints
  BY <1>1, KnownAccounts DEF Sound
<1>3. IsAccount(account) /\ account.codes = operators[u].codes /\ account.role = operators[u].role
  BY <1>2 DEF IsAccount
<1> HIDE DEF account
<1> PICK d : d = With(u, account)
  OBVIOUS
<1>4. d = [operators EXCEPT ![u] = account] /\ Doc!FileOnlyWrite(d) /\ NoteLoss
  BY <1>1 DEF With, persistLocked
<1>5. account.role = "admin" \/ Admins(operators) \ {u} # {}
  BY <1>1, <1>3, KnownAccounts DEF Sound, Admins
<1>6. Sound(d, mints)
  BY <1>2, <1>3, <1>4, <1>5, KnownAccounts, ReplaceIsSound
<1>7. ASSUME ~lossy PROVE Clean(d, spent, vetted')
  <2>1. Clean(operators, spent, vetted) /\ vetted \subseteq vetted'
    BY <1>1, <1>7 DEF AccountInv, StoreInv, CopiesInv
  <2>2. Clean(operators, spent, vetted')
    BY <2>1 DEF Clean
  <2>3. \A c \in account.codes.left : <<u, account.codes.gen, c>> \notin spent
    BY <1>1, <1>3, <2>1 DEF Clean
  <2> QED BY <1>1, <1>4, <2>2, <2>3, KnownAccounts, ReplaceIsClean
<1>8. lossy' \in BOOLEAN /\ (lossy => lossy')
  BY <1>4 DEF NoteLoss
<1>9. mints' = mints /\ mints \in Nat /\ mints <= mints' /\ UNCHANGED <<spent, reused>>
  BY <1>1, KnownAccounts DEF calm
<1>10. StoreInv'
  BY <1>4, <1>6, <1>7, <1>8, <1>9, WriteKeepsStore DEF AccountInv
<1>11. HistoryTypeOK'
  BY <1>1, <1>8, <1>9 DEF AccountInv, HistoryTypeOK
<1> QED BY <1>8, <1>9, <1>10, <1>11 DEF AccountInv, CodesHonouredOnce

LEMMA InviteStepsKeepInv ==
  ASSUME AccountInv, NEW t \in Tickets, InviteSteps(t)
  PROVE  AccountInv'
<1> USE DEF sameAccounts, vars, storeVars, history
<1>1. ASSUME UNCHANGED vars, UNCHANGED <<vetted, joins>> PROVE AccountInv'
  BY <1>1, UntouchedKeepsInv DEF AccountInv, HistoryTypeOK
<1>2. ASSUME NEW u \in Users, NEW i \in Invites,
             handleInviteCreate(u, i) \/ handleInviteRevoke(u, i) \/ gcInvites(i) \/ handleInviteList(u)
      PROVE  AccountInv'
  BY <1>1, <1>2 DEF handleInviteCreate, handleInviteRevoke, gcInvites, handleInviteList, sameButInvites
<1>3. ASSUME NEW w \in Savers, NEW i \in Invites, NEW u \in Users, handleInvitePreview(w, i, u)
      PROVE  AccountInv'
  <2>1. /\ joins' = [joins EXCEPT ![w] = [invite |-> i, user |-> u]]
        /\ UNCHANGED vars /\ UNCHANGED vetted
    BY <1>3 DEF handleInvitePreview
  <2>2. joins' \in [Savers -> Completion \cup {None}]
    BY <2>1 DEF AccountInv, HistoryTypeOK, Completion
  <2> QED BY <2>1, <2>2, UntouchedKeepsInv DEF Completion
<1>4. ASSUME NEW u \in Users, handleInviteList(u) PROVE AccountInv'
  BY <1>1, <1>4 DEF handleInviteList, sameButInvites
<1>5. ASSUME NEW i \in Invites, NEW u \in Users, handleInvitePasskeyBegin(i, u, t) PROVE AccountInv'
  BY <1>1, <1>5 DEF handleInvitePasskeyBegin, invitationVars
<1> QED BY <1>2, <1>3, <1>4, <1>5, CompleteKeepsInv, ApproveKeepsInv DEF InviteSteps

LEMMA LinkStepsKeepInv ==
  ASSUME AccountInv, \/ \E w \in Savers : TokenSteps(w)
                     \/ \E u \in Users : LinkSteps(u)
  PROVE  AccountInv'
<1> USE DEF sameAccounts, vars, storeVars, history
<1>1. ASSUME UNCHANGED vars, UNCHANGED <<vetted, joins>> PROVE AccountInv'
  BY <1>1, UntouchedKeepsInv DEF AccountInv, HistoryTypeOK
<1>2. ASSUME NEW w \in Savers, TokenSteps(w) PROVE AccountInv'
  BY <1>1, <1>2 DEF TokenSteps, handleAPITokenCreate, handleAPITokenDelete, candidates,
                    verifyAPIToken, verifyFails, sameButTokens
<1>3. ASSUME NEW w \in Savers, record(w) \/ \E l \in Links : submitSeen(w, l) PROVE AccountInv'
  BY <1>1, <1>3 DEF record, submitSeen
<1>4. ASSUME NEW u \in Users, NEW w \in Savers, NEW pw \in Passwords, submitSet(w, u, pw)
      PROVE  AccountInv'
  <2>1. /\ u \in Known(operators) /\ calm /\ UNCHANGED <<vetted, joins>>
        /\ changeThenPersist(w, With(u, [operators[u] EXCEPT !.pw = pw]))
    BY <1>4 DEF submitSet
  <2>2. Tame([operators[u] EXCEPT !.pw = pw], operators[u])
    BY <2>1, KnownAccounts DEF Tame, IsAccount
  <2> QED BY <2>1, <2>2, TameSaveKeepsInv DEF SavesAs, calm, sameHistory
<1> QED BY <1>2, <1>3, <1>4 DEF LinkSteps

------------------------------------------------------------------------------
LEMMA AccountInitInv == AccountsInit => AccountInv
<1> SUFFICES ASSUME AccountsInit PROVE AccountInv
  OBVIOUS
<1>1. PICK ops \in [Users -> Operator \cup {Absent}], users \in SUBSET Users :
        SetUp(ops) /\ OperatorsInit(ops, users)
  BY DEF AccountsInit
<1>2. \A u \in Known(ops) : IsAccount(ops[u]) /\ ops[u].codes.gen = 0
  <2> SUFFICES ASSUME NEW u \in Known(ops) PROVE IsAccount(ops[u]) /\ ops[u].codes.gen = 0
    OBVIOUS
  <2>1. ops[u] \in Operator /\ ops[u].codes.gen = 0
    BY <1>1 DEF Known, SetUp
  <2>2. ops[u].codes \in [gen : Nat, left : SUBSET Codes]
    BY <2>1 DEF Operator
  <2> QED BY <2>1, <2>2 DEF Operator, IsAccount
<1>3. Sound(ops, 1)
  BY <1>1, <1>2 DEF Sound, SetUp
<1>4. Clean(ops, {}, {})
  BY <1>1 DEF Clean, SetUp
<1>5. /\ operators = ops /\ file = ops /\ row = ops /\ newer = FALSE
      /\ adrift = FALSE /\ overlapped = FALSE /\ lossy = FALSE /\ reused = FALSE
      /\ mints = 1 /\ spent = {} /\ vetted = {}
      /\ saves = [w \in Savers |-> Doc!Idle] /\ joins = [w \in Savers |-> None]
  BY <1>1 DEF OperatorsInit, AccountsInit, InvitationsInit
<1>6. \A w \in Savers : saves[w].at = "idle" /\ IsSave(saves[w])
  BY <1>5 DEF Doc!Idle, IsSave
<1>7. StoreInv
  BY <1>3, <1>4, <1>5, <1>6 DEF StoreInv, SavesTypeOK, CopiesInv, RowIsOlder, Doc!Writing
<1> QED BY <1>5, <1>7 DEF AccountInv, HistoryTypeOK, CodesHonouredOnce

accountVars == <<vars, signInVars, invitationVars>>

LEMMA AccountStepInv == AccountInv /\ [AccountsNext]_accountVars => AccountInv'
<1> SUFFICES ASSUME AccountInv, [AccountsNext]_accountVars PROVE AccountInv'
  OBVIOUS
<1>1. CASE UNCHANGED accountVars
  BY <1>1, UntouchedKeepsInv
     DEF accountVars, vars, storeVars, history, invitationVars, AccountInv, HistoryTypeOK
<1>2. CASE OperatorWork
  <2>1. UNCHANGED <<vetted, joins>>
    BY <1>2 DEF OperatorWork, invitationVars
  <2> QED BY <1>2, <2>1, AccountStepsKeepInv, SecretStepsKeepInv DEF OperatorWork
<1>3. CASE SignInWork
  <2>1. UNCHANGED <<vetted, joins>>
    BY <1>3 DEF SignInWork, invitationVars
  <2>2. ASSUME NEW w \in Savers, persist(w) PROVE AccountInv'
    <3>1. StoreInv' /\ UNCHANGED <<mints, spent, reused>> /\ NoteLoss
      BY <2>1, <2>2, PersistKeepsStore DEF AccountInv, persist
    <3>2. lossy' \in BOOLEAN /\ (lossy => lossy')
      BY <3>1 DEF NoteLoss
    <3> QED BY <2>1, <3>1, <3>2 DEF AccountInv, HistoryTypeOK, CodesHonouredOnce
  <2>3. Persisting => AccountInv'
    BY <2>2 DEF Persisting
  <2> QED BY <1>3, <2>1, <2>3, IdentityStepsKeepInv, TelegramStepsKeepInv, TicketStepsKeepInv,
             PasskeyStepsKeepInv, KeyStepsKeepInv, DeviceStepsKeepInv DEF SignInWork
<1>4. CASE InvitationWork
  BY <1>4, InviteStepsKeepInv, LinkStepsKeepInv DEF InvitationWork
<1>5. CASE InvitationsRestart
  <2>1. PICK attached \in BOOLEAN : Restart(attached)
    BY <1>5 DEF InvitationsRestart, SignInRestart
  <2>6. UNCHANGED vetted /\ joins' = [w \in Savers |-> None]
    BY <1>5 DEF InvitationsRestart
  <2>2. StoreInv'
    BY <2>1, <2>6, RestartKeepsStore DEF AccountInv
  <2>3. /\ mints' \in {mints, mints + 1} /\ UNCHANGED <<spent, reused>>
        /\ lossy' \in BOOLEAN /\ (lossy => lossy')
    BY <2>1 DEF Restart, AccountInv, HistoryTypeOK
  <2>4. mints' \in Nat /\ mints <= mints'
    BY <2>3 DEF AccountInv, HistoryTypeOK
  <2>5. \A h \in spent' : h \in Users \X Nat \X Codes /\ h[2] < mints'
    BY <2>3, <2>4 DEF AccountInv, HistoryTypeOK
  <2> QED BY <2>2, <2>3, <2>4, <2>5, <2>6 DEF AccountInv, HistoryTypeOK, CodesHonouredOnce
<1> QED BY <1>1, <1>2, <1>3, <1>4, <1>5 DEF AccountsNext

LEMMA AccountsKeepInv == AccountsSpec => []AccountInv
  BY AccountInitInv, AccountStepInv, PTL DEF AccountsSpec, accountVars

(* Whatever the handlers and the host's commands do, in the memory, in     *)
(* every copy a boot may load and in every one that is being written there *)
(* is an admin, and the accounts have their types.                         *)
THEOREM AdminsRemain == AccountsSpec => []AdminRemains
<1>1. AccountInv => AdminRemains
  BY KnownAccounts DEF AdminRemains, Sound
<1> QED BY <1>1, AccountsKeepInv, PTL

(* For any accounts, codes and requests at once, a recovery code works     *)
(* once unless a save failed or was overtaken, also across restarts.       *)
THEOREM CodesWorkOnce == AccountsSpec => []CodesHonouredOnce
<1>1. AccountInv => CodesHonouredOnce
  BY DEF AccountInv
<1> QED BY <1>1, AccountsKeepInv, PTL

(* With no save under way, and unless two overlapped, a boot that can mend *)
(* the row or does without it loads the file, for any number of savers.    *)
THEOREM BootsFindTheFile == AccountsSpec => []BootFindsFile
<1>1. AccountInv => BootFindsFile
  <2> SUFFICES ASSUME AccountInv, Doc!Quiet, ~overlapped,
                      NEW attached \in BOOLEAN, NEW readable \in BOOLEAN, NEW how \in {"ok", "blind"}
               PROVE  Doc!Loaded(attached, how, readable) = file
    BY DEF BootFindsFile, Doc!BootFindsFile
  <2>1. file # NoDoc /\ row # NoDoc
    BY SoundIsSaved DEF AccountInv, StoreInv, CopiesInv
  <2>2. newer \/ row = file
    BY DEF AccountInv, StoreInv, RowIsOlder
  <2> QED BY <2>1, <2>2 DEF Doc!Loaded, Doc!FromRow, Doc!Reconciled
<1> QED BY <1>1, AccountsKeepInv, PTL

(* For any invitations, names and admins, through restarts whose boot      *)
(* approves who it takes for older: an invited account is approved only    *)
(* when an admin approved it, unless a save was lost.                      *)
THEOREM InviteesAreVetted == AccountsSpec => []InviteeNeedsApproval
<1>1. AccountInv => InviteeNeedsApproval
  BY DEF AccountInv, StoreInv, CopiesInv, Clean, InviteeNeedsApproval
<1> QED BY <1>1, AccountsKeepInv, PTL

------------------------------------------------------------------------------
(* Tokens.                                                                 *)
(* A save of the tokens next, of which those answered to be revoked, also  *)
(* by this request, are none.                                              *)
LEMMA SaveKeepsTokens ==
  ASSUME TokensInv, NEW next \in TokenRecords, persistTokensLocked(next),
         answered \subseteq answered', answered' \subseteq ApiTokens,
         ~misread => \A id \in answered' : next[id] = None,
         apiAdrift' => UNCHANGED answered,
         misread' = misread, bearers' = [w \in Savers |-> bearers'[w]],
         \A w \in Savers : bearers'[w] \in {bearers[w], None}
  PROVE  TokensInv'
<1>1. PICK fileOk \in BOOLEAN, rowOk \in BOOLEAN :
        /\ apiTokens' = next
        /\ apiFile' = IF fileOk THEN next ELSE apiFile
        /\ apiRow' = IF fileOk /\ rowOk THEN next ELSE apiRow
        /\ apiNewer' = IF fileOk THEN ~rowOk ELSE apiNewer
        /\ apiAdrift' = ~fileOk
  BY DEF persistTokensLocked, TokenDoc!LockedWrite, TokenDoc!Put
<1>2. CASE fileOk
  BY <1>1, <1>2 DEF TokensInv, Revoked
<1>3. CASE ~fileOk
  BY <1>1, <1>3 DEF TokensInv, Revoked
<1> QED BY <1>2, <1>3

LEMMA UntouchedTokens ==
  ASSUME TokensInv, UNCHANGED <<tokenStore, answered>>
  PROVE  TokensInv'
BY DEF tokenStore, TokensInv, Revoked

LEMMA TokenStepsKeepInv ==
  ASSUME TokensInv, NEW w \in Savers, TokenSteps(w)
  PROVE  TokensInv'
<1>1. ASSUME NEW u \in Users, NEW id \in ApiTokens, handleAPITokenCreate(u, id) PROVE TokensInv'
  <2>1. [apiTokens EXCEPT ![id] = u] \in TokenRecords
    BY DEF TokensInv, TokenRecords
  <2>2. ~misread => \A a \in answered : [apiTokens EXCEPT ![id] = u][a] = None
    BY <1>1 DEF handleAPITokenCreate, TokensInv, TokenRecords, Revoked
  <2> QED BY <1>1, <2>1, <2>2, SaveKeepsTokens DEF handleAPITokenCreate, TokensInv
<1>2. ASSUME NEW u \in Users, NEW id \in ApiTokens, handleAPITokenDelete(u, id) PROVE TokensInv'
  <2> DEFINE next == [apiTokens EXCEPT ![id] = None]
  <2>1. /\ persistTokensLocked(next) /\ UNCHANGED <<bearers, misread>>
        /\ answered' = IF apiAdrift' THEN answered ELSE answered \cup {id}
    BY <1>2 DEF handleAPITokenDelete
  <2>2. next \in TokenRecords
    BY DEF TokensInv, TokenRecords
  <2>3. ~misread => \A a \in answered \cup {id} : next[a] = None
    BY DEF TokensInv, TokenRecords, Revoked
  <2> HIDE DEF next
  <2> QED BY <2>1, <2>2, <2>3, SaveKeepsTokens DEF TokensInv
<1>3. ASSUME NEW id \in ApiTokens, candidates(w, id) PROVE TokensInv'
  <2>1. /\ apiTokens[id] # None /\ UNCHANGED <<apiTokens, apiFile, apiRow, apiNewer, apiAdrift, misread, answered>>
        /\ bearers' = [bearers EXCEPT ![w] =
                        [token |-> id, owner |-> apiTokens[id], late |-> id \in answered]]
    BY <1>3 DEF candidates
  <2>2. ~misread => id \notin answered
    BY <2>1 DEF TokensInv, Revoked
  <2>3. /\ bearers' = [v \in Savers |-> bearers'[v]]
        /\ bearers'[w].late <=> id \in answered
        /\ \A v \in Savers \ {w} : bearers'[v] = bearers[v]
    BY <2>1 DEF TokensInv
  <2> QED BY <2>1, <2>2, <2>3 DEF TokensInv, Revoked
<1>4. CASE verifyAPIToken(w)
  <2>1. /\ UNCHANGED <<answered, misread>>
        /\ bearers' = [bearers EXCEPT ![w] = None]
        /\ persistTokensLocked(apiTokens) \/ UNCHANGED <<apiTokens, apiFile, apiRow, apiNewer, apiAdrift>>
    BY <1>4 DEF verifyAPIToken
  <2>2. /\ bearers' = [v \in Savers |-> bearers'[v]]
        /\ \A v \in Savers : bearers'[v] \in {bearers[v], None}
    BY <2>1 DEF TokensInv
  <2>3. CASE persistTokensLocked(apiTokens)
    BY <2>1, <2>2, <2>3, SaveKeepsTokens DEF TokensInv, Revoked
  <2>4. CASE UNCHANGED <<apiTokens, apiFile, apiRow, apiNewer, apiAdrift>>
    BY <2>1, <2>2, <2>4 DEF TokensInv, Revoked
  <2> QED BY <2>1, <2>3, <2>4
<1>5. CASE verifyFails(w)
  <2>1. /\ UNCHANGED <<apiTokens, apiFile, apiRow, apiNewer, apiAdrift, misread, answered>>
        /\ bearers' = [bearers EXCEPT ![w] = None]
    BY <1>5 DEF verifyFails
  <2>2. /\ bearers' = [v \in Savers |-> bearers'[v]]
        /\ \A v \in Savers : bearers'[v] \in {bearers[v], None}
    BY <2>1 DEF TokensInv
  <2> QED BY <2>1, <2>2 DEF TokensInv, Revoked
<1> QED BY <1>1, <1>2, <1>3, <1>4, <1>5 DEF TokenSteps

(* A boot loads the file or a row that is not older, or notes that it did  *)
(* not; a row that it leaves stale is still the older of the two.          *)
LEMMA BootKeepsTokens ==
  ASSUME TokensInv, NEW attached \in BOOLEAN, newAPITokenStore(attached),
         bearers' = [w \in Savers |-> None], UNCHANGED answered
  PROVE  TokensInv'
<1>1. PICK readable \in BOOLEAN, how \in {"ok", "failed", "blind"} :
        /\ TokenDoc!Boot(attached, how, readable, TokenDoc!Loaded(attached, how, readable))
        /\ misread' = (misread \/ (apiNewer /\ how = "failed"
                                     /\ TokenDoc!FromRow(attached, how, readable)))
  BY DEF newAPITokenStore
<1>2. PICK loaded : loaded = TokenDoc!Loaded(attached, how, readable)
  OBVIOUS
<1>3. PICK stored : stored = IF attached THEN TokenDoc!Reconciled(how) ELSE apiRow
  OBVIOUS
<1>4. /\ apiTokens' = loaded
      /\ \/ /\ apiFile' = loaded /\ apiAdrift' = FALSE
            /\ loaded # loaded \/ (attached /\ ~TokenDoc!FromRow(attached, how, readable))
            /\ \/ apiRow' = stored /\ apiNewer' = TRUE
               \/ apiRow' = loaded /\ apiNewer' = FALSE
         \/ /\ apiFile' = apiFile /\ apiRow' = stored /\ apiAdrift' = (loaded # apiFile)
            /\ apiNewer' = (apiNewer /\ ~(attached /\ how # "failed"))
  BY <1>1, <1>2, <1>3 DEF TokenDoc!Boot
<1>5. apiFile # None /\ apiRow # None
  BY TokensAssumption DEF TokensInv, TokenRecords
<1>6. TokenDoc!Reconciled(how) \in {apiFile, apiRow}
  BY DEF TokenDoc!Reconciled
<1>7. loaded \in {apiFile, apiRow} /\ stored \in {apiFile, apiRow}
  BY <1>2, <1>3, <1>6 DEF TokenDoc!Loaded
<1>8. ~misread' => ~misread /\ (loaded = apiFile \/ ~apiNewer)
  BY <1>1, <1>2, <1>5 DEF TokenDoc!Loaded, TokenDoc!FromRow, TokenDoc!Reconciled
<1>9. stored = apiFile \/ (stored = apiRow /\ (apiNewer => ~(attached /\ how # "failed")))
  BY <1>3, <1>5 DEF TokenDoc!Reconciled
<1>10. /\ apiTokens' \in TokenRecords /\ apiFile' \in TokenRecords /\ apiRow' \in TokenRecords
       /\ apiNewer' \in BOOLEAN /\ apiAdrift' \in BOOLEAN /\ misread' \in BOOLEAN
  BY <1>1, <1>4, <1>7 DEF TokensInv
<1>11. ASSUME ~misread' PROVE Revoked(loaded) /\ Revoked(apiFile) /\ (apiNewer \/ Revoked(apiRow))
  BY <1>7, <1>8, <1>11 DEF TokensInv
<1>12. ASSUME ~misread'
       PROVE  /\ \A id \in answered : apiTokens'[id] = None /\ apiFile'[id] = None
              /\ apiNewer' \/ \A id \in answered : apiRow'[id] = None
  <2>1. (\A id \in answered : stored[id] = None) \/ (apiNewer /\ ~(attached /\ how # "failed"))
    BY <1>9, <1>11, <1>12 DEF Revoked
  <2> QED BY <1>4, <1>11, <1>12, <2>1 DEF Revoked
<1> QED BY <1>10, <1>12 DEF TokensInv, Revoked

LEMMA TokensInitInv == AccountsInit => TokensInv
  BY DEF AccountsInit, InvitationsInit, TokensInv, TokenRecords, Revoked

LEMMA TokensStepInv == TokensInv /\ [AccountsNext]_accountVars => TokensInv'
<1> SUFFICES ASSUME TokensInv, [AccountsNext]_accountVars PROVE TokensInv'
  OBVIOUS
<1>1. CASE OperatorWork \/ SignInWork \/ UNCHANGED accountVars
  BY <1>1, UntouchedTokens DEF OperatorWork, SignInWork, accountVars, invitationVars, tokenStore
<1>2. ASSUME NEW t \in Tickets, InviteSteps(t) PROVE TokensInv'
  BY <1>2, UntouchedTokens
     DEF InviteSteps, handleInviteCreate, handleInviteRevoke, gcInvites, handleInviteList,
         handleInvitePreview, handleInvitePasskeyBegin, handleInviteComplete, approves,
         sameButInvites, invitationVars, tokenStore
<1>3. ASSUME NEW u \in Users, LinkSteps(u) PROVE TokensInv'
  BY <1>3, UntouchedTokens DEF LinkSteps, record, submitSeen, submitSet
<1>4. CASE InvitationsRestart
  BY <1>4, BootKeepsTokens DEF InvitationsRestart
<1> QED BY <1>1, <1>2, <1>3, <1>4, TokenStepsKeepInv DEF AccountsNext, InvitationWork

(* For any tokens, owners and requests at once: a token whose revocation   *)
(* was answered with OK is accepted from no request that comes after the   *)
(* answer, whichever files and rows are not written, and after restarts    *)
(* with or without the database, unless a boot that could not mend a row   *)
(* older than the file loaded that row.                                    *)
THEOREM RevocationsHold == AccountsSpec => []RevokedStaysRevoked
<1>1. TokensInv => RevokedStaysRevoked
  BY DEF TokensInv, Revoked, RevokedStaysRevoked
<1> QED BY <1>1, TokensInitInv, TokensStepInv, PTL DEF AccountsSpec, accountVars

------------------------------------------------------------------------------
(* Tickets: one that is not gone was not honoured.  With that every step   *)
(* of the handlers is a step of OneShot, or touches no ticket of its kind. *)
IsTicket(k) ==
    k \in [at : {"none", "open", "lapsed", "gone"}, kind : Kinds \cup {None},
           who : Users \cup Subjects \cup {None}]

TicketsInv ==
    /\ tickets = [t \in Tickets |-> tickets[t]] /\ \A t \in Tickets : IsTicket(tickets[t])
    /\ uses \in [Tickets -> Nat]
    /\ \A t \in Tickets : tickets[t].at # "gone" => uses[t] = 0

promised == {t \in Open : tickets[t].kind # "sso"}
TicketWork == TicketsInv' /\ [Promise!Next]_<<promised, uses>>

LEMMA OtherWork ==
  ASSUME TicketsInv, UNCHANGED <<tickets, uses>>
  PROVE  TicketWork
BY DEF TicketsInv, TicketWork, promised, Open

LEMMA PutWorks ==
  ASSUME TicketsInv, NEW t \in Tickets, NEW kind \in Kinds,
         NEW who \in Users \cup Subjects \cup {None}, put(t, kind, who)
  PROVE  TicketWork
<1> DEFINE k == [at |-> "open", kind |-> kind, who |-> who]
<1>1. tickets[t].at = "none" /\ tickets' = [tickets EXCEPT ![t] = k] /\ uses' = uses
  BY DEF put, Unissued
<1>2. IsTicket(k) /\ k.at = "open" /\ k.kind = kind
  BY DEF IsTicket
<1> HIDE DEF k
<1>3. /\ tickets' = [s \in Tickets |-> tickets'[s]] /\ tickets'[t] = k
      /\ \A s \in Tickets \ {t} : tickets'[s] = tickets[s]
  BY <1>1 DEF TicketsInv
<1>4. TicketsInv'
  BY <1>1, <1>2, <1>3 DEF TicketsInv
<1>5. CASE kind = "sso"
  <2>1. promised' = promised
    BY <1>1, <1>2, <1>3, <1>5 DEF promised, Open
  <2> QED BY <1>1, <1>4, <2>1 DEF TicketWork
<1>6. CASE kind # "sso"
  <2>1. promised' = promised \cup {t} /\ t \notin promised
    BY <1>1, <1>2, <1>3, <1>6 DEF promised, Open
  <2>2. uses[t] = 0
    BY <1>1 DEF TicketsInv
  <2>3. Promise!Issue(t)
    BY <1>1, <2>1, <2>2 DEF Promise!Issue, promised
  <2> QED BY <1>4, <2>3 DEF TicketWork, Promise!Next
<1> QED BY <1>5, <1>6

(* A ticket that goes, honoured or not.                                    *)
LEMMA Gone ==
  ASSUME TicketsInv, NEW t \in Tickets, tickets' = [tickets EXCEPT ![t].at = "gone"]
  PROVE  /\ tickets' = [s \in Tickets |-> tickets'[s]] /\ \A s \in Tickets : IsTicket(tickets'[s])
         /\ tickets'[t].at = "gone" /\ \A s \in Tickets \ {t} : tickets'[s] = tickets[s]
         /\ promised' = promised \ {t}
<1>1. IsTicket(tickets[t])
  BY DEF TicketsInv
<1>2. IsTicket([tickets[t] EXCEPT !.at = "gone"])
  BY <1>1 DEF IsTicket
<1>3. /\ tickets' = [s \in Tickets |-> tickets'[s]]
      /\ tickets'[t] = [tickets[t] EXCEPT !.at = "gone"]
      /\ \A s \in Tickets \ {t} : tickets'[s] = tickets[s]
  BY DEF TicketsInv
<1>4. tickets'[t].at = "gone"
  BY <1>1, <1>3 DEF IsTicket
<1>5. \A s \in Tickets : IsTicket(tickets'[s])
  BY <1>2, <1>3 DEF TicketsInv
<1>6. promised' = promised \ {t}
  BY <1>3, <1>4 DEF promised, Open
<1> QED BY <1>3, <1>4, <1>5, <1>6

LEMMA TakeWorks ==
  ASSUME TicketsInv, NEW t \in Tickets, NEW kind \in Kinds \ {"sso"}, NEW who, take(t, kind, who)
  PROVE  TicketWork
<1>1. /\ tickets[t].at = "open" /\ tickets[t].kind = kind
      /\ tickets' = [tickets EXCEPT ![t].at = "gone"] /\ uses' = [uses EXCEPT ![t] = @ + 1]
  BY DEF take
<1>2. uses[t] = 0 /\ t \in promised
  BY <1>1 DEF TicketsInv, promised, Open
<1>3. uses' = [uses EXCEPT ![t] = 1]
  BY <1>1, <1>2 DEF TicketsInv
<1>4. TicketsInv'
  <2>1. /\ tickets' = [s \in Tickets |-> tickets'[s]] /\ \A s \in Tickets : IsTicket(tickets'[s])
        /\ tickets'[t].at = "gone" /\ \A s \in Tickets \ {t} : tickets'[s] = tickets[s]
    BY <1>1, Gone
  <2>2. uses' \in [Tickets -> Nat] /\ \A s \in Tickets \ {t} : uses'[s] = uses[s]
    BY <1>3 DEF TicketsInv
  <2>3. ASSUME NEW s \in Tickets, tickets'[s].at # "gone" PROVE uses'[s] = 0
    BY <2>1, <2>2, <2>3 DEF TicketsInv
  <2> QED BY <2>1, <2>2, <2>3 DEF TicketsInv
<1>5. promised' = promised \ {t}
  BY <1>1, Gone
<1>6. Promise!Honour(t)
  BY <1>2, <1>3, <1>5 DEF Promise!Honour, promised
<1> QED BY <1>4, <1>6 DEF TicketWork, Promise!Next

LEMMA RefusalWorks ==
  ASSUME TicketsInv, NEW t \in Tickets, tickets' = [tickets EXCEPT ![t].at = "gone"], UNCHANGED uses
  PROVE  TicketWork
<1>1. TicketsInv' /\ promised' = promised \ {t}
  BY Gone DEF TicketsInv
<1>2. t \in promised => Promise!Close(t)
  BY <1>1 DEF Promise!Close, promised
<1>3. t \notin promised => promised' = promised
  BY <1>1
<1> QED BY <1>1, <1>2, <1>3 DEF TicketWork, Promise!Next

LEMMA ConsumeWorks ==
  ASSUME TicketsInv, NEW t \in Tickets, consumeState(t)
  PROVE  TicketWork
BY RefusalWorks DEF consumeState

(* The sweep takes tickets that lapsed: none that could be honoured.       *)
LEMMA SweptTickets ==
  ASSUME TicketsInv
  PROVE  /\ gc = [t \in Tickets |-> gc[t]]
         /\ \A t \in Tickets : /\ IsTicket(gc[t]) /\ gc[t].kind = tickets[t].kind
                               /\ gc[t].at = "open" <=> tickets[t].at = "open"
                               /\ gc[t].at # "gone" => tickets[t].at # "gone"
<1>1. \A k : IsTicket(k) => LET swept == [k EXCEPT !.at = "gone"]
                            IN  IsTicket(swept) /\ swept.at = "gone" /\ swept.kind = k.kind
  BY DEF IsTicket
<1> QED BY <1>1 DEF gc, TicketsInv

LEMMA CollectWorks ==
  ASSUME TicketsInv, collect
  PROVE  TicketWork
<1>1. tickets' = gc /\ uses' = uses
  BY DEF collect
<1>2. TicketsInv' /\ promised' = promised
  BY <1>1, SweptTickets DEF TicketsInv, promised, Open
<1> QED BY <1>1, <1>2 DEF TicketWork

LEMMA LapseWorks ==
  ASSUME TicketsInv, NEW t \in Tickets, Lapse(t)
  PROVE  TicketWork
<1>1. CASE t \in Open /\ tickets' = [tickets EXCEPT ![t].at = "lapsed"] /\ UNCHANGED uses
  <2>1. IsTicket(tickets[t]) /\ tickets[t].at = "open"
    BY <1>1 DEF TicketsInv, Open
  <2>2. LET k == [tickets[t] EXCEPT !.at = "lapsed"]
        IN  IsTicket(k) /\ k.at = "lapsed"
    BY <2>1 DEF IsTicket
  <2>3. /\ tickets' = [s \in Tickets |-> tickets'[s]]
        /\ IsTicket(tickets'[t]) /\ tickets'[t].at = "lapsed"
        /\ \A s \in Tickets \ {t} : tickets'[s] = tickets[s]
    BY <1>1, <2>2 DEF TicketsInv
  <2>4. TicketsInv' /\ promised' = promised \ {t}
    BY <1>1, <2>1, <2>3 DEF TicketsInv, promised, Open
  <2>5. t \in promised => Promise!Close(t)
    BY <1>1, <2>4 DEF Promise!Close, promised
  <2>6. t \notin promised => promised' = promised
    BY <2>4
  <2> QED BY <1>1, <2>4, <2>5, <2>6 DEF TicketWork, Promise!Next
<1>2. CASE tickets' = [tickets EXCEPT ![t].at = "gone"] /\ UNCHANGED uses
  BY <1>2, RefusalWorks
<1> QED BY <1>1, <1>2 DEF Lapse

(* Where a signature is exchanged for a ticket, the sweep runs as well.    *)
LEMMA ExchangeWorks ==
  ASSUME TicketsInv, NEW u \in Users, NEW s \in Tickets, NEW t \in Tickets,
         handleSSHLoginFinish(u, s, t)
  PROVE  TicketWork
<1> DEFINE k == [at |-> "open", kind |-> "sshTicket", who |-> u]
<1>1. CASE consumeState(s)
  BY <1>1, ConsumeWorks
<1>2. CASE ~consumeState(s)
  <2>1. /\ tickets[s].at = "open" /\ tickets[s].kind = "ssh" /\ tickets[t].at = "none"
        /\ tickets' = [gc EXCEPT ![s].at = "gone", ![t] = k]
        /\ uses' = [uses EXCEPT ![s] = @ + 1]
    BY <1>2 DEF handleSSHLoginFinish, Unissued
  <2>2. IsTicket(k) /\ k.at = "open" /\ k.kind = "sshTicket"
    BY DEF IsTicket, Kinds
  <2> HIDE DEF k
  <2>3. LET swept == [gc[s] EXCEPT !.at = "gone"] IN IsTicket(swept) /\ swept.at = "gone"
    BY SweptTickets DEF IsTicket
  <2>4. /\ tickets' = [r \in Tickets |-> tickets'[r]] /\ s # t
        /\ tickets'[s] = [gc[s] EXCEPT !.at = "gone"] /\ tickets'[t] = k
        /\ \A r \in Tickets \ {s, t} : tickets'[r] = gc[r]
    BY <2>1, SweptTickets
  <2>5. uses[s] = 0 /\ uses[t] = 0
    BY <2>1 DEF TicketsInv
  <2>6. uses' = [uses EXCEPT ![s] = 1]
    BY <2>1, <2>5
  <2>7. \A r \in Tickets : IsTicket(tickets'[r])
    <3>1. ASSUME NEW r \in Tickets PROVE IsTicket(gc[r])
      BY SweptTickets
    <3> QED BY <2>2, <2>3, <2>4, <3>1
  <2>8. \A r \in Tickets : tickets'[r].at # "gone" => uses'[r] = 0
    <3>1. ASSUME NEW r \in Tickets \ {s, t}, tickets'[r].at # "gone" PROVE uses[r] = 0
      BY <2>4, <3>1, SweptTickets DEF TicketsInv
    <3>2. \A r \in Tickets \ {s} : uses'[r] = uses[r]
      BY <2>6 DEF TicketsInv
    <3> QED BY <2>3, <2>4, <2>5, <3>1, <3>2
  <2>9. TicketsInv'
    BY <2>4, <2>6, <2>7, <2>8 DEF TicketsInv
  <2>10. s \in promised /\ t \notin promised
    BY <2>1 DEF promised, Open
  <2>11. promised' = (promised \ {s}) \cup {t}
    <3>1. ASSUME NEW r \in Tickets \ {s, t}
          PROVE  /\ tickets'[r].kind = tickets[r].kind
                 /\ tickets'[r].at = "open" <=> tickets[r].at = "open"
      BY <2>4, <3>1, SweptTickets
    <3>2. /\ tickets'[s].at = "gone" /\ tickets'[t].at = "open" /\ tickets'[t].kind = "sshTicket"
      BY <2>2, <2>3, <2>4
    <3> QED BY <3>1, <3>2 DEF promised, Open
  <2>12. Promise!Exchange(s, t)
    BY <2>5, <2>6, <2>10, <2>11 DEF Promise!Exchange, promised
  <2> QED BY <2>9, <2>12 DEF TicketWork, Promise!Next
<1> QED BY <1>1, <1>2

LEMMA CrashWorks ==
  ASSUME TicketsInv, NEW attached \in BOOLEAN, SignInRestart(attached)
  PROVE  TicketWork
<1>1. /\ tickets' = [t \in Tickets |->
              IF tickets[t].at = "none" \/ tickets[t].kind = "sso" THEN tickets[t]
              ELSE [tickets[t] EXCEPT !.at = "gone"]]
      /\ uses' = uses
  BY DEF SignInRestart
<1>2. \A k : IsTicket(k) => LET dropped == [k EXCEPT !.at = "gone"]
                            IN  IsTicket(dropped) /\ dropped.at = "gone"
  BY DEF IsTicket
<1>3. TicketsInv' /\ promised' = {}
  BY <1>1, <1>2 DEF TicketsInv, promised, Open
<1>4. Promise!Crash
  BY <1>1, <1>3 DEF Promise!Crash, promised
<1> QED BY <1>3, <1>4 DEF TicketWork, Promise!Next

LEMMA IdentitiesWork ==
  ASSUME TicketsInv, NEW p \in Providers, IdentitySteps(p)
  PROVE  TicketWork
<1> USE DEF Kinds, sameTickets
<1>1. ASSUME NEW t \in Tickets, handleStart(t) PROVE TicketWork
  BY <1>1, PutWorks DEF handleStart
<1>2. ASSUME NEW u \in Users, NEW t \in Tickets, handleBindStart(u, t) PROVE TicketWork
  BY <1>2, PutWorks DEF handleBindStart
<1>3. ASSUME NEW w \in Savers, NEW t \in Tickets, handleCallback(w, t) PROVE TicketWork
  BY <1>3, TakeWorks, ConsumeWorks DEF handleCallback
<1>4. ASSUME NEW w \in Savers, exchangeFails(w) \/ pictured(w) PROVE TicketWork
  BY <1>4, OtherWork DEF exchangeFails, pictured
<1>5. ASSUME NEW w \in Savers, NEW u \in Users, NEW x \in Subjects, identified(w, u, p, x)
      PROVE  TicketWork
  BY <1>5, OtherWork DEF identified
<1> QED BY <1>1, <1>2, <1>3, <1>4, <1>5 DEF IdentitySteps

LEMMA TelegramWorks == ASSUME TicketsInv, TelegramSteps PROVE TicketWork
<1> USE DEF Kinds, sameTickets
<1>1. ASSUME NEW t \in Tickets, NEW x \in Subjects, mintTGBindTicket(t, x) PROVE TicketWork
  BY <1>1, PutWorks DEF mintTGBindTicket
<1>2. ASSUME NEW w \in Savers, NEW u \in Users, NEW t \in Tickets, NEW x \in Subjects,
             handleTGBindTicket(w, u, t, x)
      PROVE  TicketWork
  BY <1>2, TakeWorks, ConsumeWorks DEF handleTGBindTicket
<1>3. ASSUME UNCHANGED signInVars PROVE TicketWork
  BY <1>3, OtherWork DEF signInVars
<1>4. ASSUME NEW w \in Savers, NEW u \in Users, handleIdentities(w, u, "telegram") PROVE TicketWork
  BY <1>4, OtherWork DEF handleIdentities
<1> QED BY <1>1, <1>2, <1>3, <1>4 DEF TelegramSteps

LEMMA TicketOnlyWorks == ASSUME TicketsInv, TicketOnlySteps PROVE TicketWork
<1> USE DEF Kinds, sameTickets
<1>1. ASSUME NEW u \in Users, NEW t \in Tickets, handleAuthorize(u, t) \/ mintSSOTicket(t, u)
      PROVE  TicketWork
  BY <1>1, PutWorks DEF handleAuthorize, mintSSOTicket
<1>2. ASSUME NEW u \in Users, NEW t \in Tickets, handleIngest(t, u) PROVE TicketWork
  BY <1>2, OtherWork DEF handleIngest
<1>3. ASSUME NEW t \in Tickets, handleToken(t) PROVE TicketWork
  BY <1>3, TakeWorks, ConsumeWorks DEF handleToken
<1>4. ASSUME NEW u \in Users, handleLogout(u) PROVE TicketWork
  BY <1>4, OtherWork DEF handleLogout
<1> QED BY <1>1, <1>2, <1>3, <1>4 DEF TicketOnlySteps

LEMMA PasskeysWork == ASSUME TicketsInv, NEW u \in Users, PasskeySteps(u) PROVE TicketWork
<1> USE DEF Kinds
<1>1. ASSUME NEW t \in Tickets, NEW k \in Passkeys,
             \/ handlePasskeyLoginFinish(t, u, k)
             \/ \E caller \in Users : handlePasskeyRegFinish(caller, t, k)
      PROVE  TicketWork
  BY <1>1, TakeWorks, ConsumeWorks DEF handlePasskeyRegFinish, handlePasskeyLoginFinish
<1>2. ASSUME NEW t \in Tickets, handlePasskeyLoginBegin(t) \/ handlePasskeyRegBegin(u, t)
      PROVE  TicketWork
  BY <1>2, PutWorks DEF handlePasskeyLoginBegin, handlePasskeyRegBegin
<1>3. ASSUME UNCHANGED signInVars PROVE TicketWork
  BY <1>3, OtherWork DEF signInVars
<1> QED BY <1>1, <1>2, <1>3 DEF PasskeySteps

LEMMA KeysWork == ASSUME TicketsInv, NEW u \in Users, KeySteps(u) PROVE TicketWork
<1> USE DEF Kinds
<1>1. ASSUME NEW t \in Tickets, handleSSHLoginBegin(u, t) PROVE TicketWork
  BY <1>1, PutWorks DEF handleSSHLoginBegin
<1>2. ASSUME NEW t \in Tickets, handleSSHLoginRedeem(u, t) PROVE TicketWork
  BY <1>2, TakeWorks DEF handleSSHLoginRedeem
<1>3. ASSUME UNCHANGED signInVars PROVE TicketWork
  BY <1>3, OtherWork DEF signInVars
<1> QED BY <1>1, <1>2, <1>3, ExchangeWorks DEF KeySteps

LEMMA DevicesWork ==
  ASSUME TicketsInv, NEW u \in Users, NEW w \in Savers, DeviceSteps(u, w)
  PROVE  TicketWork
<1>1. UNCHANGED <<tickets, uses>>
  BY DEF DeviceSteps, handleLogin, handleLoginVerifyTOTP, IntentExpires, sameTickets, signInVars
<1> QED BY <1>1, OtherWork

LEMMA InvitationsWork ==
  ASSUME TicketsInv, InvitationWork
  PROVE  TicketWork
<1> USE DEF signInVars, sameAccounts
<1>1. ASSUME NEW t \in Tickets, InviteSteps(t) PROVE TicketWork
  <2>1. ASSUME NEW i \in Invites, NEW u \in Users, handleInvitePasskeyBegin(i, u, t) PROVE TicketWork
    BY <2>1, PutWorks DEF handleInvitePasskeyBegin, Kinds
  <2>2. ASSUME NEW w \in Savers, NEW pw \in Passwords, NEW x \in Secrets \cup {None},
               NEW k \in Passkeys \cup {None}, handleInviteComplete(w, pw, x, k, t)
        PROVE  TicketWork
    <3>1. PICK u : sameTickets \/ consumeState(t) \/ take(t, "register", u)
      BY <2>2 DEF handleInviteComplete
    <3> QED BY <3>1, OtherWork, ConsumeWorks, TakeWorks DEF sameTickets, Kinds
  <2>3. CASE UNCHANGED <<tickets, uses>>
    BY <2>3, OtherWork
  <2> QED BY <1>1, <2>1, <2>2, <2>3
          DEF InviteSteps, handleInviteCreate, handleInviteRevoke, gcInvites, handleInviteList,
              handleInvitePreview, approves
<1>2. ASSUME NEW w \in Savers, TokenSteps(w) PROVE TicketWork
  BY <1>2, OtherWork DEF TokenSteps, handleAPITokenCreate, handleAPITokenDelete, candidates,
                         verifyAPIToken, verifyFails
<1>3. ASSUME NEW u \in Users, LinkSteps(u) PROVE TicketWork
  BY <1>3, OtherWork DEF LinkSteps, record, submitSeen, submitSet
<1> QED BY <1>1, <1>2, <1>3 DEF InvitationWork

LEMMA TicketsStep == TicketsInv /\ [AccountsNext]_accountVars => TicketWork
<1> SUFFICES ASSUME TicketsInv, [AccountsNext]_accountVars PROVE TicketWork
  OBVIOUS
<1>1. ASSUME UNCHANGED signInVars PROVE TicketWork
  BY <1>1, OtherWork DEF signInVars
<1>2. CASE OperatorWork \/ UNCHANGED accountVars
  BY <1>1, <1>2 DEF OperatorWork, accountVars
<1>3. CASE SignInWork
  <2>1. CASE TicketSteps
    BY <2>1, CollectWorks, LapseWorks DEF TicketSteps
  <2>2. CASE Persisting
    BY <1>1, <2>2 DEF Persisting
  <2>3. ASSUME NEW u \in Users, PasskeySteps(u) \/ KeySteps(u) \/ \E w \in Savers : DeviceSteps(u, w)
        PROVE  TicketWork
    BY <2>3, PasskeysWork, KeysWork, DevicesWork
  <2> QED BY <1>3, <2>1, <2>2, <2>3, IdentitiesWork, TelegramWorks, TicketOnlyWorks DEF SignInWork
<1>4. CASE InvitationsRestart
  BY <1>4, CrashWorks DEF InvitationsRestart
<1> QED BY <1>2, <1>3, <1>4, InvitationsWork DEF AccountsNext

(* The handlers and stores implement OneShot, for any tickets and clients  *)
(* at once: a challenge, state, code or ticket that the console stores is  *)
(* honoured once, and never after it lapsed, was refused or a restart      *)
(* forgot it.  Of the signed ones, which are not stored, it says nothing.  *)
THEOREM TicketsWorkOnce == AccountsSpec => TicketsAreOneShot
<1>1. AccountsInit => TicketsInv /\ Promise!Init
  BY DEF AccountsInit, SignInInit, TicketsInv, Unissued, IsTicket, Open, Promise!Init
<1>2. TicketsInv /\ [AccountsNext]_accountVars => TicketsInv' /\ [Promise!Next]_<<promised, uses>>
  BY TicketsStep DEF TicketWork
<1> QED BY <1>1, <1>2, PTL DEF AccountsSpec, accountVars, TicketsAreOneShot, Promise!Spec, promised
==============================================================================
