-------------------------------- MODULE Hub --------------------------------
(***************************************************************************)
(* The hub's token store (internal/hub/store.go) behind its HTTP handlers   *)
(* (internal/hub/server.go: authed, adminOnly, tokens, revoke) and the      *)
(* start-up of cmd/llama-hub/main.go: load the token file, seed the admin   *)
(* key, serve.  The hub can crash between any two steps, a write of the     *)
(* token file or its rename can fail, and handlers run concurrently.        *)
(*                                                                         *)
(* A secret is only ever compared by its hash, so a secret stands for its   *)
(* hash.  newSecret is random: the secret of a minted token is new, and is  *)
(* named by the token's ID.  Labels, scopes and dates are display data.     *)
(***************************************************************************)
EXTENDS Integers, FiniteSets

CONSTANTS
  Id,        \* token IDs
  Handler,   \* concurrent HTTP requests
  AdminKey,  \* the secret in LLAMA_HUB_ADMIN_KEY, when it is set
  Main,      \* the goroutine of main, which seeds the admin key
  None

ASSUME NamesAssumption ==
  /\ AdminKey \notin Id /\ None \notin Id \cup Handler
  /\ None \notin [secret : Id \cup {AdminKey}, kind : {"admin", "node", "user"}, active : BOOLEAN]
  /\ Main \notin Handler /\ Main # None

VARIABLES
  phase,   \* of the process: "down", "loaded", "serving"
  tokens,  \* s.tokens, None where there is no such ID
  disk,    \* the token file
  tmp,     \* the temporary file
  lock,    \* who holds s.mu for writing
  pc,      \* where each request, and main, is
  role,    \* the kind of the token that authenticated the request
  op,      \* what it is saving: "mint", "revoke" or "seed"
  target,  \* the ID it mints, revokes or seeds
  minted,  \* IDs whose plaintext a client has been given
  revoked, \* IDs whose revocation a client has been told of
  dirty    \* has a save failed since the last one that worked?

reqVars == <<pc, role, op, target>>
vars == <<phase, tokens, disk, tmp, lock, reqVars, minted, revoked, dirty>>

-----------------------------------------------------------------------------
Kind == {"admin", "node", "user"}
Token == [secret : Id \cup {AdminKey}, kind : Kind, active : BOOLEAN]
Store == [Id -> Token \cup {None}]
Writer == Handler \cup {Main}

Present(store, t) == store[t] # None
Active(store, t)  == Present(store, t) /\ store[t].active

\* Verify: some active token has this secret
Holders(s) == {t \in Id : Active(tokens, t) /\ tokens[t].secret = s}

\* newID: an ID that neither the store nor the file has
Unused(t) == ~Present(tokens, t) /\ ~Present(disk, t)

Empty == [t \in Id |-> None]

Init ==
  /\ phase = "down" /\ tokens = Empty /\ disk = Empty /\ tmp = Empty
  /\ lock = None
  /\ pc = [w \in Writer |-> "idle"]
  /\ role = [w \in Writer |-> None]
  /\ op = [w \in Writer |-> None]
  /\ target = [w \in Writer |-> None]
  /\ minted = {} /\ revoked = {} /\ dirty = FALSE

(***************************************************************************)
(* Start-up and crash.                                                     *)
(***************************************************************************)
\* NewStore, load
LoadFile ==
  /\ phase = "down"
  /\ phase' = "loaded"
  /\ tokens' = disk
  /\ dirty' = FALSE
  /\ UNCHANGED <<disk, tmp, lock, reqVars, minted, revoked>>

\* Mutant of Seeded: EnsureAdmin does not look for the key.
SeededNotChecked == FALSE

Seeded == \E t \in Holders(AdminKey) : tokens[t].kind = "admin"

\* EnsureAdmin finds an active admin token with the key: nothing to save
SeedPresent ==
  /\ phase = "loaded" /\ pc[Main] = "idle"
  /\ Seeded
  /\ phase' = "serving"
  /\ UNCHANGED <<tokens, disk, tmp, lock, reqVars, minted, revoked, dirty>>

\* LLAMA_HUB_ADMIN_KEY is blank in this start of the hub: EnsureAdmin does
\* nothing, whatever tokens there are
SeedBlank ==
  /\ phase = "loaded" /\ pc[Main] = "idle"
  /\ phase' = "serving"
  /\ UNCHANGED <<tokens, disk, tmp, lock, reqVars, minted, revoked, dirty>>

\* s.mu is taken and the map entry t is set; the save follows under the lock
Change(w, o, t, token) ==
  /\ lock = None
  /\ lock' = w
  /\ tokens' = [tokens EXCEPT ![t] = token]
  /\ op' = [op EXCEPT ![w] = o]
  /\ target' = [target EXCEPT ![w] = t]
  /\ pc' = [pc EXCEPT ![w] = "write"]
  /\ UNCHANGED <<phase, disk, tmp, role, minted, revoked, dirty>>

\* The request is over.
Finish(w) ==
  /\ pc' = [pc EXCEPT ![w] = "idle"]
  /\ role' = [role EXCEPT ![w] = None]
  /\ op' = [op EXCEPT ![w] = None]
  /\ target' = [target EXCEPT ![w] = None]

\* EnsureAdmin adds a token for the key
SeedNew(t) ==
  /\ phase = "loaded" /\ pc[Main] = "idle"
  /\ ~Seeded
  /\ Unused(t)
  /\ Change(Main, "seed", t, [secret |-> AdminKey, kind |-> "admin", active |-> TRUE])

\* The process ends: the store and every request in it are gone.
Crash ==
  /\ phase # "down"
  /\ phase' = "down"
  /\ tokens' = Empty
  /\ lock' = None
  /\ pc' = [w \in Writer |-> "idle"]
  /\ role' = [w \in Writer |-> None]
  /\ op' = [w \in Writer |-> None]
  /\ target' = [w \in Writer |-> None]
  /\ UNCHANGED <<disk, tmp, minted, revoked, dirty>>

(***************************************************************************)
(* Requests.                                                               *)
(***************************************************************************)
\* Mutant of Authenticate: the token's ID is kept where its kind is meant.
AuthenticateById(h, s) ==
  /\ phase = "serving" /\ pc[h] = "idle" /\ lock = None
  /\ \E t \in Holders(s) : role' = [role EXCEPT ![h] = t]
  /\ pc' = [pc EXCEPT ![h] = "authed"]
  /\ UNCHANGED <<phase, tokens, disk, tmp, lock, op, target, minted, revoked, dirty>>

\* authed: Verify under the read lock; a request whose secret is unknown or
\* revoked is answered 401 and changes nothing
Authenticate(h, s) ==
  /\ phase = "serving" /\ pc[h] = "idle" /\ lock = None
  /\ \E t \in Holders(s) : role' = [role EXCEPT ![h] = tokens[t].kind]
  /\ pc' = [pc EXCEPT ![h] = "authed"]
  /\ UNCHANGED <<phase, tokens, disk, tmp, lock, op, target, minted, revoked, dirty>>

\* Mutant of Mint: s.mu is released before the save.
MintUnlocked(h, t, k) ==
  /\ pc[h] = "authed" /\ role[h] = "admin" /\ lock = None
  /\ Unused(t)
  /\ tokens' = [tokens EXCEPT ![t] = [secret |-> t, kind |-> k, active |-> TRUE]]
  /\ op' = [op EXCEPT ![h] = "mint"]
  /\ target' = [target EXCEPT ![h] = t]
  /\ pc' = [pc EXCEPT ![h] = "write"]
  /\ UNCHANGED <<phase, disk, tmp, lock, role, minted, revoked, dirty>>

\* tokens, POST: Mint
Mint(h, t, k) ==
  /\ pc[h] = "authed" /\ role[h] = "admin"
  /\ Unused(t)
  /\ Change(h, "mint", t, [secret |-> t, kind |-> k, active |-> TRUE])

\* Mutant of Revoke: the token is deleted.
RevokeDeletes(h, t) ==
  /\ pc[h] = "authed" /\ role[h] = "admin"
  /\ Present(tokens, t)
  /\ Change(h, "revoke", t, None)

\* revoke: Revoke of an ID that is in the map, active or not
Revoke(h, t) ==
  /\ pc[h] = "authed" /\ role[h] = "admin"
  /\ Present(tokens, t)
  /\ Change(h, "revoke", t, [tokens[t] EXCEPT !.active = FALSE])

\* The request ends without a change: a 403, a 400, or a read.
Decline(h) ==
  /\ pc[h] = "authed"
  /\ Finish(h)
  /\ UNCHANGED <<phase, tokens, disk, tmp, lock, minted, revoked, dirty>>

(***************************************************************************)
(* saveLocked: write the temporary file, rename it over the token file.    *)
(***************************************************************************)
\* Mutant of WriteTmp: the temporary file is never renamed.
WriteTmpOnly(w) ==
  /\ pc[w] = "write"
  /\ tmp' = tokens
  /\ pc' = [pc EXCEPT ![w] = "reply"]
  /\ lock' = None
  /\ UNCHANGED <<phase, tokens, disk, role, op, target, minted, revoked, dirty>>

WriteTmp(w) ==
  /\ pc[w] = "write"
  /\ tmp' = tokens
  /\ pc' = [pc EXCEPT ![w] = "rename"]
  /\ UNCHANGED <<phase, tokens, disk, lock, role, op, target, minted, revoked, dirty>>

Rename(w) ==
  /\ pc[w] = "rename"
  /\ disk' = tmp
  /\ pc' = [pc EXCEPT ![w] = "reply"]
  /\ lock' = None
  /\ dirty' = FALSE
  /\ UNCHANGED <<phase, tokens, tmp, role, op, target, minted, revoked>>

\* The plaintext is returned once, a revocation is confirmed, or main goes on
\* to listen.
Reply(w) ==
  /\ pc[w] = "reply"
  /\ Finish(w)
  /\ phase' = IF op[w] = "seed" THEN "serving" ELSE phase
  /\ minted' = minted \cup {t \in {target[w]} : op[w] = "mint"}
  /\ revoked' = revoked \cup {t \in {target[w]} : op[w] = "revoke"}
  /\ UNCHANGED <<tokens, disk, tmp, lock, dirty>>

\* WriteFile or Rename fails: the client is told, the map keeps the change.
SaveFails(h) ==
  /\ pc[h] \in {"write", "rename"}
  /\ Finish(h)
  /\ lock' = None
  /\ dirty' = TRUE
  /\ UNCHANGED <<phase, tokens, disk, tmp, minted, revoked>>

\* A failure while seeding is fatal: it is a Crash of main.

Serve(h) ==
  \/ \E s \in Id \cup {AdminKey} : Authenticate(h, s)
  \/ \E t \in Id : (\E k \in Kind : Mint(h, t, k)) \/ Revoke(h, t)
  \/ Decline(h) \/ SaveFails(h)

Next ==
  \/ LoadFile \/ SeedPresent \/ SeedBlank \/ Crash \/ \E t \in Id : SeedNew(t)
  \/ \E h \in Handler : Serve(h)
  \/ \E w \in Writer : WriteTmp(w) \/ Rename(w) \/ Reply(w)

Spec == Init /\ [][Next]_vars

-----------------------------------------------------------------------------
(***************************************************************************)
(* Properties.                                                             *)
(***************************************************************************)
\* Every variable has its type.
TypeOK ==
  /\ phase \in {"down", "loaded", "serving"}
  /\ tokens \in Store /\ disk \in Store /\ tmp \in Store
  /\ lock \in Writer \cup {None}
  /\ pc \in [Writer -> {"idle", "authed", "write", "rename", "reply"}]
  /\ role \in [Writer -> Kind \cup {None}]
  /\ op \in [Writer -> {"mint", "revoke", "seed", None}]
  /\ target \in [Writer -> Id \cup {None}]
  /\ minted \subseteq Id /\ revoked \subseteq Id
  /\ dirty \in BOOLEAN

\* What a client was told survives every crash and failed save: a token whose
\* plaintext was handed out is in the file for good, and a token reported
\* revoked is never active again, in the file or in a running hub.
AckedSurvives ==
  /\ \A t \in minted : Present(disk, t) /\ (phase # "down" => Present(tokens, t))
  /\ \A t \in revoked : /\ Present(disk, t) /\ ~Active(disk, t)
                         /\ phase # "down" => ~Active(tokens, t)

\* Write-through: when nobody holds the lock, a running hub and its file have
\* the same tokens, unless a save failed and none has worked since.
WriteThrough == phase # "down" /\ lock = None /\ ~dirty => tokens = disk

\* A secret opens at most one active token: seeding the admin key does not add
\* it a second time, wherever in the seeding the hub crashed before.
ActiveUnique ==
  \A s, t \in Id : Active(tokens, s) /\ Active(tokens, t)
                     /\ tokens[s].secret = tokens[t].secret => s = t

Book == INSTANCE Ledger WITH
  Entry <- Token, book <- disk, promised <- minted, withdrawn <- revoked

\* The token file is a ledger: whatever fails or crashes on the way, a save
\* adds tokens and revokes tokens, never drops, alters or revives one, and a
\* client is told of a change only when it is in the file.
KeepsLedger == Book!Spec
=============================================================================
