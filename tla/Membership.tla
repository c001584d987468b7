----------------------------- MODULE Membership -----------------------------
(***************************************************************************)
(* Hub-managed federation: every node heartbeats itself into the hub's      *)
(* roster and rebuilds its routes from the roster it gets back              *)
(* (internal/hubclient: Run, registerOnce, postRegister, getRoster;         *)
(* internal/hub: register, roster, Store.Register, Store.Roster;            *)
(* internal/fed: ApplyRoster).                                              *)
(*                                                                         *)
(* A beat is a request and a reply that travel.  A client waits for the     *)
(* answer of one beat at a time, but a beat it has given up on (the         *)
(* six-second timeout) may still reach the hub, later than newer ones.      *)
(* The roster is in memory only and a hub restart empties it.  Time is the  *)
(* age of a roster entry, in ticks up to the TTL.                           *)
(***************************************************************************)
EXTENDS Integers, FiniteSets

CONSTANTS
  Node,    \* node names, numbers in the order of the names
  Model,   \* slot names
  TTL,     \* nodeTTL, in ticks
  Late,    \* how many given-up beats can be under way
  None,
  Grants,  \* what the tokens of the nodes may have been minted for; "mute" is a
           \* node token whose client is configured to advertise no address
  Revocable, \* the nodes whose tokens may be revoked
  Events   \* which of "slots", "restart", "loss", "stall" may happen

ASSUME NodeAssumption == Node \subseteq Nat /\ None \notin Node
ASSUME ModelAssumption == \A ms \in SUBSET Model : ms # None
ASSUME GrantsAssumption == Grants \subseteq [Node -> {"node", "user", "mute"}]
ASSUME TTLAssumption  == TTL \in Nat \ {0} /\ Late \in Nat

VARIABLES
  local,   \* the slots of each node
  grant,   \* what each node's hub token and address let it do, "none" if revoked
  pc,      \* where the client of each node, or the handler of its beat, is
  sent,    \* the models in the beat the client waits for
  stray,   \* beats their clients gave up on and the hub may yet carry out
  roster,  \* the hub's roster: the models of each entry, None where there is none
  age,     \* ticks since the entry's LastSeen, up to TTL + 1
  reply,   \* the answer on its way back, as the routes ApplyRoster makes of it
  routes,  \* f.routes of each node
  steady   \* history: no slot changed, no hub restarted, no beat overdue so far

hubVars == <<roster, age>>
envVars == <<local, grant, steady>>
vars == <<envVars, pc, sent, stray, hubVars, reply, routes>>

-----------------------------------------------------------------------------
\* The grants that contribute nothing.
Silent == {"user", "mute"}

Entries == [Node -> (SUBSET Model) \cup {None}]
NoEntries == [n \in Node |-> None]
NoRoutes == [m \in Model |-> None]

\* Roster: entries past the TTL are dropped
Pruned == [n \in Node |-> IF age[n] > TTL THEN None ELSE roster[n]]

\* Mutant of Offering: the node's own entry is not skipped.
OfferingSelf(r, n, m) == {p \in Node : r[p] # None /\ m \in r[p]}

\* ApplyRoster at node n: the first other entry in name order wins a model
Offering(r, n, m) == {p \in Node \ {n} : r[p] # None /\ m \in r[p]}

Routes(r, n) ==
  [m \in Model |-> IF Offering(r, n, m) = {} THEN None
                   ELSE CHOOSE p \in Offering(r, n, m) :
                          \A q \in Offering(r, n, m) : p <= q]

Init ==
  /\ local \in [Node -> SUBSET Model]
  /\ grant \in Grants
  /\ pc = [n \in Node |-> "idle"]
  /\ sent = [n \in Node |-> {}]
  /\ stray = {}
  /\ roster = NoEntries
  /\ age = [n \in Node |-> 0]
  /\ reply = [n \in Node |-> NoRoutes]
  /\ routes = [n \in Node |-> NoRoutes]
  /\ steady = TRUE

(***************************************************************************)
(* A beat.                                                                 *)
(***************************************************************************)
\* the payload is of no further use
Clear(n) == sent' = [sent EXCEPT ![n] = {}]

Goto(n, from, to) == pc[n] = from /\ pc' = [pc EXCEPT ![n] = to]

\* postRegister: c.local() and POST /api/register
Beat(n) ==
  /\ Goto(n, "idle", "posting")
  /\ sent' = [sent EXCEPT ![n] = local[n]]
  /\ UNCHANGED <<envVars, stray, hubVars, reply, routes>>

\* register: the handler has verified a node token and found an address, ...
Verified(n) ==
  /\ Goto(n, "posting", "verified")
  /\ grant[n] = "node"
  /\ UNCHANGED <<envVars, sent, stray, hubVars, reply, routes>>

\* ... Store.Register upserts the entry, ...
Enter(n, ms) ==
  /\ roster' = [roster EXCEPT ![n] = ms]
  /\ age' = [age EXCEPT ![n] = 0]

\* Mutant of Register: an entry that is there is kept, not replaced.
RegisterOnce(n) ==
  /\ Goto(n, "verified", "entered")
  /\ Enter(n, IF roster[n] # None THEN roster[n] ELSE sent[n]) /\ Clear(n)
  /\ UNCHANGED <<envVars, stray, reply, routes>>

Register(n) ==
  /\ Goto(n, "verified", "entered")
  /\ Enter(n, sent[n]) /\ Clear(n)
  /\ UNCHANGED <<envVars, stray, reply, routes>>

\* Mutant of Forbidden: a 403 has no read-only fallback and ends the client.
ForbiddenForGood(n) ==
  /\ Goto(n, "posting", "ended") /\ Clear(n)
  /\ grant[n] = "user"
  /\ UNCHANGED <<envVars, stray, hubVars, reply, routes>>

\* ... and the answer carries Store.Roster.  A user token is refused with 403
\* and the client sends GET /api/roster instead.
Forbidden(n) ==
  /\ Goto(n, "posting", "reading") /\ Clear(n)
  /\ grant[n] = "user"
  /\ UNCHANGED <<envVars, stray, hubVars, reply, routes>>

Roster(n) ==
  /\ \/ Goto(n, "entered", "apply")
     \/ Goto(n, "reading", "apply") /\ grant[n] # "none"
  /\ roster' = Pruned
  /\ age' = [p \in Node |-> IF Pruned[p] = None THEN 0 ELSE age[p]]
  /\ reply' = [reply EXCEPT ![n] = Routes(Pruned, n)]
  /\ UNCHANGED <<envVars, sent, stray, routes>>

\* A revoked token is refused with 401: the beat fails, the last routes stay.
Unauthorised(n) ==
  /\ pc[n] \in {"posting", "reading"} /\ Goto(n, pc[n], "idle")
  /\ grant[n] = "none" /\ Clear(n)
  /\ UNCHANGED <<envVars, stray, hubVars, reply, routes>>

\* Without an address it is a 400, which has no read-only fallback: the same.
Rejected(n) ==
  /\ Goto(n, "posting", "idle") /\ Clear(n)
  /\ grant[n] = "mute"
  /\ UNCHANGED <<envVars, stray, hubVars, reply, routes>>

\* registerOnce gets the answer: ApplyRoster
Apply(n) ==
  /\ Goto(n, "apply", "idle")
  /\ routes' = [routes EXCEPT ![n] = reply[n]]
  /\ reply' = [reply EXCEPT ![n] = NoRoutes]
  /\ UNCHANGED <<envVars, sent, stray, hubVars>>

\* Mutant of Lost: a failed beat clears the routes.
LostClears(n) ==
  /\ "loss" \in Events
  /\ pc[n] # "idle" /\ Goto(n, pc[n], "idle") /\ Clear(n)
  /\ reply' = [reply EXCEPT ![n] = NoRoutes]
  /\ routes' = [routes EXCEPT ![n] = NoRoutes]
  /\ UNCHANGED <<envVars, stray, hubVars>>

\* The client gives up because the request or the answer is lost, ...
Lost(n) ==
  /\ "loss" \in Events
  /\ pc[n] # "idle" /\ Goto(n, pc[n], "idle") /\ Clear(n)
  /\ reply' = [reply EXCEPT ![n] = NoRoutes]
  /\ UNCHANGED <<envVars, stray, hubVars, routes>>

\* ... or after six seconds, with the request still under way to the hub or
\* its handler between the verification and Register.
TimedOut(n) ==
  /\ "loss" \in Events
  /\ pc[n] \in {"posting", "verified"} /\ Goto(n, pc[n], "idle")
  /\ Cardinality(stray) < Late
  /\ stray' = stray \cup {[node |-> n, models |-> sent[n], verified |-> pc[n] = "verified"]}
  /\ Clear(n)
  /\ UNCHANGED <<envVars, hubVars, reply, routes>>

\* A beat nobody waits for any more is carried out, or comes to nothing.
LateBeat(b) ==
  /\ stray' = stray \ {b}
  /\ IF b.verified \/ grant[b.node] = "node" THEN Enter(b.node, b.models)
     ELSE UNCHANGED hubVars
  /\ UNCHANGED <<envVars, pc, sent, reply, routes>>

Client(n) == \/ Beat(n) \/ Verified(n) \/ Register(n) \/ Forbidden(n) \/ Roster(n)
             \/ Unauthorised(n) \/ Rejected(n) \/ Apply(n)

(***************************************************************************)
(* Time, and what changes around the beats.                                *)
(***************************************************************************)
\* No entry of a node that still contributes is about to expire: its beats,
\* every five seconds, arrive well within the thirty seconds of the TTL.
Punctual == \A n \in Node : grant[n] = "node" /\ roster[n] # None => age[n] < TTL

Tick ==
  /\ Punctual \/ "stall" \in Events
  /\ \E n \in Node : roster[n] # None /\ age[n] <= TTL
  /\ age' = [n \in Node |-> IF roster[n] # None /\ age[n] <= TTL THEN age[n] + 1 ELSE age[n]]
  /\ steady' = (steady /\ Punctual)
  /\ UNCHANGED <<local, grant, pc, sent, stray, roster, reply, routes>>

\* The slots of node n become ms (module Registry).
ChangeSlots(n, ms) ==
  /\ "slots" \in Events /\ ms # local[n]
  /\ local' = [local EXCEPT ![n] = ms]
  /\ steady' = FALSE
  /\ UNCHANGED <<grant, pc, sent, stray, hubVars, reply, routes>>

\* An admin revokes the token of node n (module Hub).
RevokeGrant(n) ==
  /\ n \in Revocable /\ grant[n] # "none"
  /\ grant' = [grant EXCEPT ![n] = "none"]
  /\ UNCHANGED <<local, steady, pc, sent, stray, hubVars, reply, routes>>

\* The hub restarts with an empty roster; the beats it was handling fail.
HubRestarts ==
  /\ "restart" \in Events
  /\ steady' = FALSE
  /\ roster' = NoEntries
  /\ age' = [n \in Node |-> 0]
  /\ stray' = {b \in stray : ~b.verified}
  /\ pc' = [n \in Node |-> IF pc[n] \in {"verified", "entered"} THEN "idle" ELSE pc[n]]
  /\ sent' = [n \in Node |-> IF pc[n] = "verified" THEN {} ELSE sent[n]]
  /\ UNCHANGED <<local, grant, reply, routes>>

Change == \/ \E n \in Node : RevokeGrant(n) \/ \E ms \in SUBSET Model : ChangeSlots(n, ms)
          \/ HubRestarts

Next == \/ \E n \in Node : Client(n) \/ Lost(n) \/ TimedOut(n)
        \/ \E b \in stray : LateBeat(b)
        \/ Tick \/ Change

Spec == Init /\ [][Next]_vars

(***************************************************************************)
(* The ticker of every client keeps beating and the hub answers what        *)
(* reaches it; from some time on slots, tokens and the hub stay put, beats  *)
(* are punctual, and each ends with an answer.  Calm says how a beat ends   *)
(* and not that Lost did not happen: to lose an answer that brings nothing  *)
(* new is the same step as to apply it.                                     *)
(***************************************************************************)
Calm ==
  /\ UNCHANGED <<local, grant>>
  /\ ~HubRestarts
  /\ Tick => Punctual
  /\ \A n \in Node : pc[n] # "idle" /\ pc'[n] = "idle" =>
       Apply(n) \/ Unauthorised(n) \/ Rejected(n)

CalmSpec ==
  /\ Spec
  /\ \A n \in Node : WF_vars(Client(n))
  /\ WF_vars(Tick)
  /\ WF_vars(\E b \in stray : LateBeat(b))
  /\ <>[][Calm]_vars

-----------------------------------------------------------------------------
(***************************************************************************)
(* Properties.                                                             *)
(***************************************************************************)
\* Every variable has its type.
TypeOK ==
  /\ local \in [Node -> SUBSET Model]
  /\ grant \in [Node -> {"node", "user", "mute", "none"}]
  /\ pc \in [Node -> {"idle", "posting", "verified", "entered", "reading", "apply"}]
  /\ sent \in [Node -> SUBSET Model]
  /\ stray \subseteq [node : Node, models : SUBSET Model, verified : BOOLEAN]
  /\ roster \in Entries
  /\ age \in [Node -> 0 .. TTL + 1]
  /\ {reply, routes} \subseteq [Node -> [Model -> Node \cup {None}]]
  /\ steady \in BOOLEAN

\* A user token reads the pool and contributes nothing, nor does a node token
\* without an address: the node is in no roster, on no way to anybody and in
\* nobody's routes; and no node's routes lead to itself.
OnlyContributors ==
  \A n \in Node :
    /\ grant[n] \in Silent => roster[n] = None
    /\ \A p \in Node, m \in Model :
         n \in {reply[p][m], routes[p][m]} => p # n /\ grant[n] \notin Silent

\* What the routes of n should be: the first other contributor with the slot.
Best(n) == Routes([p \in Node |-> IF grant[p] = "node" THEN local[p] ELSE None], n)

\* Once things stay put, every node that may read the roster has the routes of
\* the slots that are really there, and none to a revoked node, whatever late
\* beats overwrote newer ones and whatever the hub forgot before.  A node token
\* without an address gets no roster and no routes: it may not even read.
Converges ==
  <>[](\A n \in Node :
         /\ grant[n] \in {"node", "user"} => routes[n] = Best(n)
         /\ grant[n] = "mute" => routes[n] = NoRoutes)

\* "A hub blip does NOT clear the last-known roster -- peers reachable over the
\* mesh stay routable even if the hub flickers" (hubclient.go:68): whatever beats
\* and answers are lost or late and whichever other tokens are revoked, a model
\* that its peer still contributes does not drop out of a node's routes, as long
\* as beats get through within the TTL, slots stay put and the hub keeps running.
KeepsRoutes ==
  [][\A n \in Node, m \in Model :
       /\ steady /\ routes[n][m] # None
       /\ grant'[routes[n][m]] = "node" /\ m \in local'[routes[n][m]]
       => routes'[n][m] # None]_vars
=============================================================================
