----------------------------- MODULE HubProofs -----------------------------
(***************************************************************************)
(* What the hub told a client survives crashes and failed saves, for any    *)
(* number of tokens and concurrent requests.                               *)
(*                                                                         *)
(* The key is Ahead: what the running hub has in memory is the token file   *)
(* plus additions and revocations, never less.  A save can then only add    *)
(* to the file and revoke in it, so replacing the file keeps every promise, *)
(* and loading it after a crash starts from them.                          *)
(***************************************************************************)
EXTENDS Hub, TLAPS

\* A token keeps its secret: its own, or the admin key for a seeded admin.
Secrets(store) ==
  /\ \A t \in Id : Present(store, t) =>
       store[t].secret = t \/ (store[t].secret = AdminKey /\ store[t].kind = "admin")
  /\ \A s, t \in Id : Active(store, s) /\ Active(store, t)
                       /\ store[s].secret = store[t].secret => s = t

\* Memory is the file plus additions and revocations.
Ahead ==
  phase # "down" => \A t \in Id : Present(disk, t) =>
    Present(tokens, t) /\ (~Active(disk, t) => ~Active(tokens, t))

\* A request that saves holds the lock; a stopped hub has no requests.
LockInv ==
  /\ \A w \in Writer : pc[w] \in {"write", "rename"} <=> lock = w
  /\ phase = "down" => lock = None /\ \A w \in Writer : pc[w] = "idle"
  /\ \A w \in Writer : pc[w] = "rename" => tmp = tokens

\* What a request is saving is in memory, and what it is about to report is
\* in the file.
Done(store, o, t) ==
  /\ t \in Id
  /\ o \in {"mint", "revoke", "seed"}
  /\ Present(store, t)
  /\ o = "revoke" => ~Active(store, t)

TaskInv ==
  \A w \in Writer :
    /\ pc[w] \in {"write", "rename"} => Done(tokens, op[w], target[w])
    /\ pc[w] = "reply" => Done(disk, op[w], target[w])

HubInv ==
  /\ TypeOK /\ LockInv /\ TaskInv /\ Ahead
  /\ Secrets(tokens) /\ Secrets(disk)
  /\ AckedSurvives /\ WriteThrough

-----------------------------------------------------------------------------
(***************************************************************************)
(* A hub that starts for the first time promises nothing.                  *)
(***************************************************************************)
LEMMA HubInit == Init => HubInv
  BY NamesAssumption
  DEF Init, HubInv, TypeOK, LockInv, TaskInv, Done, Ahead, Secrets, AckedSurvives,
      WriteThrough, Present, Active, Empty, Store, Token, Kind, Writer

(***************************************************************************)
(* Loading the file: memory and file agree.                                *)
(***************************************************************************)
LEMMA LoadStep == HubInv /\ LoadFile => HubInv'
  <1> SUFFICES ASSUME HubInv, LoadFile PROVE HubInv'
    OBVIOUS
  <1>1. TypeOK' /\ LockInv' /\ TaskInv'
    BY DEF HubInv, TypeOK, LockInv, TaskInv, Done, LoadFile, reqVars
  <1>2. Ahead' /\ WriteThrough' /\ Secrets(tokens)' /\ Secrets(disk)'
    BY DEF HubInv, Ahead, WriteThrough, Secrets, LoadFile, Present, Active
  <1>3. AckedSurvives'
    BY DEF HubInv, AckedSurvives, LoadFile, Present, Active
  <1> QED
    BY <1>1, <1>2, <1>3 DEF HubInv

LEMMA CrashStep == HubInv /\ Crash => HubInv'
  <1> SUFFICES ASSUME HubInv, Crash PROVE HubInv'
    OBVIOUS
  <1>1. TypeOK'
    BY DEF HubInv, TypeOK, Crash, Store, Empty
  <1>2. Secrets(tokens)' /\ Secrets(disk)'
    BY DEF HubInv, Crash, Secrets, Present, Active, Empty
  <1>3. LockInv'
    BY NamesAssumption DEF Crash, LockInv, Writer
  <1>4. TaskInv' /\ Ahead' /\ AckedSurvives' /\ WriteThrough'
    BY DEF HubInv, Crash, TaskInv, Ahead, AckedSurvives, WriteThrough, Present, Active
  <1> QED
    BY <1>1, <1>2, <1>3, <1>4 DEF HubInv

(***************************************************************************)
(* Every change of the map adds a token under an unused ID or revokes one.  *)
(***************************************************************************)
Grows(t, token) ==
  /\ t \in Id /\ token \in Token
  /\ Unused(t) \/ (Present(tokens, t) /\ ~token.active)

LEMMA ChangeStep ==
  ASSUME HubInv, NEW w \in Writer, NEW o \in {"mint", "revoke", "seed"}, NEW t, NEW token,
         Grows(t, token), phase # "down", pc[w] \in {"idle", "authed"},
         Change(w, o, t, token), o = "revoke" => ~token.active,
         Secrets(tokens')
  PROVE  HubInv'
  <1>1. TypeOK'
    BY DEF HubInv, TypeOK, Change, Grows, Store
  <1>2. LockInv'
    BY NamesAssumption DEF HubInv, TypeOK, LockInv, Change, Writer
  <1>3. TaskInv'
    <2>1. tokens'[t] = token /\ token # None
      BY NamesAssumption DEF HubInv, TypeOK, Store, Change, Grows, Token, Kind
    <2>2. Done(tokens', o, t)
      BY <2>1 DEF Done, Grows, Present, Active
    <2>3. ASSUME NEW v \in Writer, v # w
          PROVE  pc'[v] = pc[v] /\ op'[v] = op[v] /\ target'[v] = target[v]
                 /\ pc[v] \notin {"write", "rename"}
      BY <2>3, NamesAssumption DEF HubInv, TypeOK, LockInv, Change, Writer
    <2>4. pc'[w] = "write" /\ op'[w] = o /\ target'[w] = t /\ disk' = disk
      BY DEF HubInv, TypeOK, Change
    <2> QED
      BY <2>2, <2>3, <2>4 DEF HubInv, TaskInv, Done, Present, Active
  <1>4. Ahead'
    BY NamesAssumption
    DEF HubInv, TypeOK, Ahead, Change, Grows, Unused, Present, Active, Store, Token, Kind
  <1>5. Secrets(disk)'
    BY DEF HubInv, Change, Secrets, Present, Active
  <1>6. AckedSurvives'
    BY <1>4 DEF HubInv, AckedSurvives, Ahead, Change, Present, Active, TypeOK
  <1>7. WriteThrough'
    BY NamesAssumption DEF WriteThrough, Change, Writer
  <1> QED
    BY <1>1, <1>2, <1>3, <1>4, <1>5, <1>6, <1>7 DEF HubInv, Secrets, Present, Active

LEMMA SeedStep == ASSUME NEW t \in Id, HubInv, SeedNew(t) PROVE HubInv'
  <1> DEFINE token == [secret |-> AdminKey, kind |-> "admin", active |-> TRUE]
  <1>1. Grows(t, token)
    BY DEF Grows, SeedNew, Token, Kind
  <1>2. Secrets(tokens')
    <2>1. tokens' = [tokens EXCEPT ![t] = token] /\ Unused(t) /\ ~Seeded
      BY DEF SeedNew, Change
    <2> QED
      BY <2>1, NamesAssumption
      DEF HubInv, TypeOK, Secrets, Present, Active, Seeded, Holders, Unused, Store, Token, Kind
  <1> QED
    BY <1>1, <1>2, ChangeStep DEF SeedNew, Writer, HubInv

LEMMA MintStep == ASSUME NEW h \in Handler, NEW t \in Id, NEW k \in Kind, HubInv, Mint(h, t, k) PROVE HubInv'
  <1> DEFINE token == [secret |-> t, kind |-> k, active |-> TRUE]
  <1>1. Grows(t, token)
    BY DEF Grows, Mint, Token
  <1>2. Secrets(tokens')
    <2>1. tokens' = [tokens EXCEPT ![t] = token] /\ Unused(t)
      BY DEF Mint, Change
    <2> QED
      BY <2>1, NamesAssumption
      DEF HubInv, TypeOK, Secrets, Present, Active, Unused, Store, Token, Kind
  <1>3. phase # "down"
    BY DEF HubInv, LockInv, Mint, Writer
  <1> QED
    BY <1>1, <1>2, <1>3, ChangeStep DEF Mint, Writer

LEMMA RevokeStep == ASSUME NEW h \in Handler, NEW t \in Id, HubInv, Revoke(h, t) PROVE HubInv'
  <1> DEFINE token == [tokens[t] EXCEPT !.active = FALSE]
  <1>0. tokens[t] \in Token
    BY DEF HubInv, TypeOK, Store, Revoke, Present
  <1>1. Grows(t, token) /\ ~token.active
    BY <1>0 DEF Grows, Revoke, Token
  <1>2. Secrets(tokens')
    <2>1. tokens' = [tokens EXCEPT ![t] = token] /\ Present(tokens, t)
      BY DEF Revoke, Change
    <2> QED
      BY <1>0, <2>1, NamesAssumption
      DEF HubInv, TypeOK, Secrets, Present, Active, Store, Token, Kind
  <1>3. phase # "down"
    BY DEF HubInv, LockInv, Revoke, Writer
  <1> QED
    BY <1>1, <1>2, <1>3, ChangeStep DEF Revoke, Writer

(***************************************************************************)
(* The save.                                                               *)
(***************************************************************************)
LEMMA WriteStep == ASSUME NEW w \in Writer, HubInv, WriteTmp(w) PROVE HubInv'
  BY NamesAssumption
  DEF WriteTmp, HubInv, TypeOK, LockInv, TaskInv, Done, Ahead, Secrets, AckedSurvives,
      WriteThrough, Present, Active

LEMMA RenameStep == ASSUME NEW w \in Writer, HubInv, Rename(w) PROVE HubInv'
  <1>1. disk' = tokens /\ tokens' = tokens /\ lock = w /\ phase # "down"
    BY DEF Rename, HubInv, LockInv
  <1>2. TypeOK'
    BY <1>1 DEF Rename, HubInv, TypeOK
  <1>3. LockInv'
    BY <1>1, NamesAssumption DEF Rename, HubInv, TypeOK, LockInv, Writer
  <1>4. Ahead' /\ WriteThrough' /\ Secrets(tokens)' /\ Secrets(disk)'
    BY <1>1 DEF Ahead, WriteThrough, HubInv, Secrets, Present, Active
  <1>5. \A t \in Id : Present(disk, t) =>
          Present(disk', t) /\ (~Active(disk, t) => ~Active(disk', t))
    BY <1>1 DEF HubInv, Ahead, Present, Active
  <1>6. AckedSurvives'
    BY <1>1, <1>5 DEF Rename, HubInv, TypeOK, AckedSurvives, Present, Active
  <1>7. TaskInv'
    BY <1>1, <1>5 DEF Rename, HubInv, TypeOK, LockInv, TaskInv, Done, Present, Active
  <1> QED
    BY <1>2, <1>3, <1>4, <1>6, <1>7 DEF HubInv

LEMMA ReplyStep == ASSUME NEW w \in Writer, HubInv, Reply(w) PROVE HubInv'
  <1>1. Done(disk, op[w], target[w]) /\ phase # "down"
    BY DEF Reply, HubInv, TaskInv, LockInv
  <1>2. TypeOK'
    BY <1>1 DEF Reply, Finish, HubInv, TypeOK, Done
  <1>3. LockInv' /\ TaskInv'
    BY <1>1, NamesAssumption DEF Reply, Finish, HubInv, TypeOK, LockInv, TaskInv, Done, Present, Active, Writer
  <1>4. Ahead' /\ WriteThrough' /\ Secrets(tokens)' /\ Secrets(disk)'
    BY <1>1 DEF Reply, HubInv, Ahead, WriteThrough, Secrets, Present, Active
  <1>5. AckedSurvives'
    BY <1>1 DEF Reply, HubInv, AckedSurvives, Ahead, Done, Present, Active
  <1> QED
    BY <1>2, <1>3, <1>4, <1>5 DEF HubInv

LEMMA FailStep == ASSUME NEW h \in Handler, HubInv, SaveFails(h) PROVE HubInv'
  BY NamesAssumption
  DEF SaveFails, Finish, HubInv, TypeOK, LockInv, TaskInv, Done, Ahead, Secrets,
      AckedSurvives, WriteThrough, Present, Active, Writer

(***************************************************************************)
(* Steps that touch neither the tokens nor the files.                      *)
(***************************************************************************)
LEMMA QuietStep ==
  ASSUME HubInv, \/ SeedPresent \/ SeedBlank
                 \/ \E h \in Handler : Decline(h) \/ \E s \in Id \cup {AdminKey} : Authenticate(h, s)
                 \/ UNCHANGED vars
  PROVE  HubInv'
  <1>1. CASE SeedPresent \/ SeedBlank
    BY <1>1 DEF SeedPresent, SeedBlank, reqVars, HubInv, TypeOK, LockInv, TaskInv, Done, Ahead, Secrets,
                AckedSurvives, WriteThrough, Present, Active
  <1>2. ASSUME NEW h \in Handler, Decline(h) PROVE HubInv'
    BY <1>2, NamesAssumption
    DEF Decline, Finish, HubInv, TypeOK, LockInv, TaskInv, Done, Ahead, Secrets,
        AckedSurvives, WriteThrough, Present, Active, Writer
  <1>3. ASSUME NEW h \in Handler, NEW s, Authenticate(h, s) PROVE HubInv'
    <2>1. role' \in [Writer -> Kind \cup {None}]
      BY <1>3 DEF Authenticate, Holders, HubInv, TypeOK, Store, Token, Present, Active, Writer
    <2> QED
      BY <1>3, <2>1, NamesAssumption
      DEF Authenticate, HubInv, TypeOK, LockInv, TaskInv, Done, Ahead, Secrets,
          AckedSurvives, WriteThrough, Present, Active, Writer
  <1>4. CASE UNCHANGED vars
    BY <1>4 DEF vars, reqVars, HubInv, TypeOK, LockInv, TaskInv, Done, Ahead, Secrets,
                AckedSurvives, WriteThrough, Present, Active
  <1> QED
    BY <1>1, <1>2, <1>3, <1>4

LEMMA HubStep == HubInv /\ [Next]_vars => HubInv'
  <1> SUFFICES ASSUME HubInv, [Next]_vars PROVE HubInv'
    OBVIOUS
  <1>1. CASE LoadFile \/ Crash
    BY <1>1, LoadStep, CrashStep
  <1>2. ASSUME NEW t \in Id, SeedNew(t) PROVE HubInv'
    BY <1>2, SeedStep
  <1>3. ASSUME NEW h \in Handler, Serve(h) PROVE HubInv'
    BY <1>3, QuietStep, MintStep, RevokeStep, FailStep DEF Serve
  <1>4. ASSUME NEW w \in Writer, WriteTmp(w) \/ Rename(w) \/ Reply(w) PROVE HubInv'
    BY <1>4, WriteStep, RenameStep, ReplyStep
  <1>5. CASE SeedPresent \/ SeedBlank \/ UNCHANGED vars
    BY <1>5, QuietStep
  <1> QED
    BY <1>1, <1>2, <1>3, <1>4, <1>5 DEF Next

LEMMA HubInvHolds == Spec => []HubInv
  BY HubInit, HubStep, PTL DEF Spec

\* Every variable keeps its type.
THEOREM HubTyped == Spec => []TypeOK
  <1>1. HubInv => TypeOK
    BY DEF HubInv
  <1> QED
    BY <1>1, HubInvHolds, PTL

\* What a client was told survives every crash and failed save.
THEOREM PromisesKept == Spec => []AckedSurvives
  <1>1. HubInv => AckedSurvives
    BY DEF HubInv
  <1> QED
    BY <1>1, HubInvHolds, PTL

\* Memory and file agree between saves.
THEOREM FileCurrent == Spec => []WriteThrough
  <1>1. HubInv => WriteThrough
    BY DEF HubInv
  <1> QED
    BY <1>1, HubInvHolds, PTL

\* A secret opens at most one active token.
THEOREM SecretsUnique == Spec => []ActiveUnique
  <1>1. HubInv => ActiveUnique
    BY DEF HubInv, Secrets, ActiveUnique
  <1> QED
    BY <1>1, HubInvHolds, PTL

-----------------------------------------------------------------------------
(***************************************************************************)
(* The store implements the ledger.  Ahead is not enough: a token in memory *)
(* must be the one in the file, or that one revoked.                       *)
(***************************************************************************)
Kept ==
  phase # "down" => \A t \in Id : Present(disk, t) =>
    tokens[t] \in {disk[t], Book!Struck(disk[t])}

\* Revoking twice is revoking once.
LEMMA StruckTwice ==
  ASSUME NEW e \in Token
  PROVE  Book!Struck(e) \in Token /\ Book!Struck(Book!Struck(e)) = Book!Struck(e)
  BY DEF Book!Struck, Token

LEMMA ChangeKept ==
  ASSUME HubInv, Kept, NEW w, NEW o, NEW t \in Id, NEW token, Change(w, o, t, token),
         Unused(t) \/ (Present(tokens, t) /\ token = [tokens[t] EXCEPT !.active = FALSE])
  PROVE  Kept'
  <1> SUFFICES ASSUME phase # "down", NEW u \in Id, Present(disk, u)
               PROVE  tokens'[u] \in {disk[u], Book!Struck(disk[u])}
    BY DEF Kept, Change, Present
  <1>1. tokens[u] \in {disk[u], Book!Struck(disk[u])} /\ disk[u] \in Token
    BY DEF Kept, HubInv, TypeOK, Store, Present
  <1>2. CASE u # t
    BY <1>1, <1>2 DEF Change, HubInv, TypeOK, Store
  <1>3. CASE u = t
    <2>1. tokens'[u] = Book!Struck(tokens[u])
      BY <1>3 DEF Change, Unused, Present, HubInv, TypeOK, Store, Book!Struck
    <2> QED BY <1>1, <2>1, StruckTwice
  <1> QED BY <1>2, <1>3

LEMMA KeptStep == HubInv /\ Kept /\ [Next]_vars => Kept'
  <1> SUFFICES ASSUME HubInv, Kept, [Next]_vars PROVE Kept'
    OBVIOUS
  <1>1. CASE LoadFile \/ Crash
    BY <1>1 DEF LoadFile, Crash, Kept
  <1>2. ASSUME NEW t \in Id, SeedNew(t) PROVE Kept'
    BY <1>2, ChangeKept DEF SeedNew
  <1>3. ASSUME NEW h \in Handler, NEW t \in Id,
               Revoke(h, t) \/ \E k \in Kind : Mint(h, t, k)
        PROVE  Kept'
    BY <1>3, ChangeKept DEF Revoke, Mint
  <1>4. ASSUME NEW w \in Writer, Rename(w) PROVE Kept'
    BY <1>4 DEF Rename, HubInv, LockInv, Kept
  <1>5. ASSUME UNCHANGED <<tokens, disk>>, phase' # "down" => phase # "down" PROVE Kept'
    BY <1>5 DEF Kept, Present
  <1>6. ASSUME NEW w \in Writer, WriteTmp(w) \/ Reply(w) PROVE Kept'
    BY <1>5, <1>6 DEF WriteTmp, Reply, HubInv, LockInv
  <1>7. ASSUME NEW h \in Handler,
               Decline(h) \/ SaveFails(h) \/ \E s \in Id \cup {AdminKey} : Authenticate(h, s)
        PROVE  Kept'
    BY <1>5, <1>7 DEF Decline, SaveFails, Authenticate
  <1>8. CASE SeedPresent \/ SeedBlank \/ UNCHANGED vars
    BY <1>5, <1>8 DEF SeedPresent, SeedBlank, vars
  <1> QED
    BY <1>1, <1>2, <1>3, <1>4, <1>6, <1>7, <1>8 DEF Next, Serve

\* Only a rename enters something, and only a reply tells somebody.
LEMMA LedgerStep == HubInv /\ HubInv' /\ Kept /\ [Next]_vars => [Book!Next]_(Book!vars)
  <1> SUFFICES ASSUME HubInv, HubInv', Kept, [Next]_vars PROVE [Book!Next]_(Book!vars)
    OBVIOUS
  <1>1. ASSUME NEW w \in Writer, Rename(w) PROVE Book!Enter
    <2>1. disk' = tokens /\ phase # "down" /\ UNCHANGED <<minted, revoked>>
      BY <1>1 DEF Rename, HubInv, LockInv
    <2> QED BY <2>1 DEF Book!Enter, Kept, Present, HubInv, TypeOK, Store
  <1>2. ASSUME NEW w \in Writer, Reply(w) PROVE [Book!Next]_(Book!vars)
    <2>1. Done(disk, op[w], target[w]) /\ disk' = disk
      BY <1>2 DEF Reply, HubInv, TaskInv
    <2>2. CASE op[w] = "mint"
      <3>1. Book!Promise(target[w])
        BY <1>2, <2>1, <2>2 DEF Reply, Done, Present, Book!Promise
      <3> QED BY <2>1, <3>1 DEF Book!Next, Done
    <2>3. CASE op[w] = "revoke"
      <3>1. Book!Withdraw(target[w])
        BY <1>2, <2>1, <2>3 DEF Reply, Done, Present, Active, Book!Withdraw
      <3> QED BY <2>1, <3>1 DEF Book!Next, Done
    <2>4. CASE op[w] = "seed"
      BY <1>2, <2>1, <2>4 DEF Reply, Book!vars
    <2> QED BY <2>1, <2>2, <2>3, <2>4 DEF Done
  <1>3. ASSUME UNCHANGED <<disk, minted, revoked>> PROVE UNCHANGED Book!vars
    BY <1>3 DEF Book!vars
  <1>4. ASSUME NEW h \in Handler, Serve(h) PROVE UNCHANGED Book!vars
    BY <1>3, <1>4 DEF Serve, Authenticate, Mint, Revoke, Change, Decline, SaveFails
  <1>5. CASE LoadFile \/ Crash \/ SeedPresent \/ SeedBlank \/ UNCHANGED vars
    BY <1>3, <1>5 DEF LoadFile, Crash, SeedPresent, SeedBlank, vars
  <1>6. ASSUME NEW t \in Id, SeedNew(t) PROVE UNCHANGED Book!vars
    BY <1>3, <1>6 DEF SeedNew, Change
  <1>7. ASSUME NEW w \in Writer, WriteTmp(w) PROVE UNCHANGED Book!vars
    BY <1>3, <1>7 DEF WriteTmp
  <1> QED
    BY <1>1, <1>2, <1>4, <1>5, <1>6, <1>7 DEF Next, Book!Next

\* The token file behind any number of requests, crashes and failed saves is a
\* ledger.
THEOREM ImplementsLedger == Spec => KeepsLedger
  <1>1. Init => Book!Init /\ Kept
    BY DEF Init, Book!Init, Empty, Kept
  <1>2. Spec => []Kept
    BY <1>1, KeptStep, HubInvHolds, PTL DEF Spec
  <1> QED
    BY <1>1, <1>2, LedgerStep, HubInvHolds, PTL DEF Spec, Book!Spec, KeepsLedger
=============================================================================
