----------------------------- MODULE Federation -----------------------------
(***************************************************************************)
(* A federation of llama-chip nodes with static peers: the gossip poller    *)
(* (internal/fed/fed.go: pollAll, pollPeer, Resolve, NodeAddr) and the      *)
(* routing of one client request from node to node (internal/router/        *)
(* router.go: withAuth, proxyByModel, fedLocal, listModels).                *)
(*                                                                         *)
(* Requests change nothing at the nodes, so one request at a time stands    *)
(* for any number of them.  A poll round asks the peers concurrently, each  *)
(* answer is as old as the moment its peer gave it, and the route map is    *)
(* replaced in one step when all the answers are in.  Slots come and go     *)
(* (module Registry) and nodes leave and rejoin the mesh at any time.       *)
(***************************************************************************)
EXTENDS Integers, Sequences, FiniteSets

CONSTANTS
  Node,       \* the nodes
  Model,      \* slot names, lower-cased and trimmed as the route keys are
  Handle,     \* what clients ask for
  NameMatch,  \* <<m, h>>: the slot name m contains the handle h
  IDMatch,    \* <<m, h>>: the ID of the model slot m runs equals or contains h
  Peers,      \* cfg.Peers of each node, in config order
  Token,      \* cfg.Token of each node
  PeerToken,  \* cfg.PeerTokens of each node
  Secret,     \* the bearer tokens there are
  None,
  Events      \* what may happen besides polls and unpinned requests

ASSUME HandleAssumption == Model \subseteq Handle
ASSUME MatchAssumption  == NameMatch \subseteq Model \X Handle /\ IDMatch \subseteq Model \X Handle
ASSUME PeersAssumption  == \A n \in Node : Peers[n] \in Seq(Node)
ASSUME TokenAssumption  ==
  /\ None \notin Secret \cup Node \cup {"401"}
  /\ Token \in [Node -> Secret \cup {None}]
  /\ PeerToken \in [Node -> [Node -> Secret \cup {None}]]

VARIABLES
  local,    \* the slots in the rig table of each node
  mesh,     \* the nodes the mesh reaches at the moment
  waiting,  \* the peers, by index, that n's poll round still waits for
  heard,    \* heard[n][k]: the models peer k named in the round, {} if offline
  routes,   \* f.routes: the peer a model is routed to, None where no key
  known,    \* the peers in f.health
  req,      \* the client request
  unrest    \* history: the rounds n has to finish until it has forgotten what
            \* was unloaded anywhere, and what a fallback list told it

pollVars == <<waiting, heard, routes, known>>
vars == <<local, mesh, pollVars, req, unrest>>

-----------------------------------------------------------------------------
Range(s) == {s[k] : k \in 1 .. Len(s)}

Reaches(n, p) == n \in mesh /\ p \in mesh

\* f.Enabled, for a node without a hub
Enabled(n) == Peers[n] # <<>>

\* OutboundToken: the bearer n sends to p, the per-peer one first
OutboundToken(n, p) == IF PeerToken[n][p] # None THEN PeerToken[n][p] ELSE Token[n]

\* withAuth, for a request that does not come from loopback
Admits(p, bearer) == Token[p] = None \/ bearer = Token[p]

\* rig.Resolve finds a slot: by name, or by model ID
Serves(n, h) == \E m \in local[n] : m = h \/ <<m, h>> \in IDMatch

\* fed.Resolve: the route of that name, else any whose name contains the handle
Candidates(n, h) ==
  IF ~Enabled(n) THEN {}
  ELSE IF h \in Model /\ routes[n][h] # None THEN {routes[n][h]}
  ELSE {routes[n][m] : m \in {x \in Model : routes[n][x] # None /\ <<x, h>> \in NameMatch}}

\* listModels: local slots plus every model with a route
Aggregate(n) == local[n] \cup {m \in Model : routes[n][m] # None}

NoRoutes == [m \in Model |-> None]
Index(n) == 1 .. Len(Peers[n])

Idle == [status |-> "idle", at |-> None, handle |-> None, pin |-> None,
         bearer |-> None, via |-> "client", answer |-> None]

Init ==
  /\ local \in [Node -> SUBSET Model]
  /\ mesh = Node
  /\ waiting = [n \in Node |-> Index(n)]
  /\ heard = [n \in Node |-> [k \in Index(n) |-> {}]]
  /\ routes = [n \in Node |-> NoRoutes]
  /\ known = [n \in Node |-> {}]
  /\ req = Idle
  /\ unrest = [n \in Node |-> 0]

(***************************************************************************)
(* The poller.                                                             *)
(***************************************************************************)
Got(n, k, answer) ==
  /\ k \in waiting[n]
  /\ waiting' = [waiting EXCEPT ![n] = @ \ {k}]
  /\ heard' = [heard EXCEPT ![n][k] = answer]
  /\ UNCHANGED <<local, mesh, routes, known, req>>

\* Old answers count until the round they came in and the one after it end.
Unsettles(S) == unrest' = [n \in Node |-> IF n \in S THEN 2 ELSE unrest[n]]

Authorised(n, p) == Reaches(n, p) /\ Admits(p, OutboundToken(n, p))

\* Mutant of PollLocal: /api/fed/local answers with the aggregated list.
PollAggregate(n, k) ==
  LET p == Peers[n][k] IN Authorised(n, p) /\ Got(n, k, Aggregate(p)) /\ UNCHANGED unrest

\* Mutant of PollLocal: the answer's "node" is read where its "models" are meant.
PollNodeField(n, k) ==
  LET p == Peers[n][k] IN Authorised(n, p) /\ Got(n, k, {p}) /\ UNCHANGED unrest

\* fetchLocal: GET /api/fed/local answers with the slot names of the peer
PollLocal(n, k) ==
  LET p == Peers[n][k] IN Authorised(n, p) /\ Got(n, k, local[p]) /\ UNCHANGED unrest

\* fetchLocal failed but fetchV1Models did not: GET /v1/models
PollFallback(n, k) ==
  LET p == Peers[n][k]
  IN  /\ "fallback" \in Events /\ Authorised(n, p)
      /\ Got(n, k, Aggregate(p))
      /\ Unsettles({n})

\* both failed
PollFails(n, k) ==
  /\ ~Authorised(n, Peers[n][k]) \/ "flaky" \in Events
  /\ Got(n, k, {})
  /\ UNCHANGED unrest

\* pollAll after wg.Wait: the first peer in config order wins a name
Offering(n, m) == {k \in Index(n) : m \in heard[n][k]}

\* Mutant of Rebuild: new routes are added, old ones never go.
RebuildAdds(n) ==
  /\ Enabled(n) /\ waiting[n] = {}
  /\ routes' = [routes EXCEPT ![n] =
       [m \in Model |-> IF Offering(n, m) = {} THEN routes[n][m]
                        ELSE Peers[n][CHOOSE k \in Offering(n, m) :
                                        \A j \in Offering(n, m) : k <= j]]]
  /\ known' = [known EXCEPT ![n] = Range(Peers[n])]
  /\ waiting' = [waiting EXCEPT ![n] = Index(n)]
  /\ heard' = [heard EXCEPT ![n] = [k \in Index(n) |-> {}]]
  /\ unrest' = [unrest EXCEPT ![n] = IF @ = 0 THEN 0 ELSE @ - 1]
  /\ UNCHANGED <<local, mesh, req>>

Rebuild(n) ==
  /\ Enabled(n) /\ waiting[n] = {}
  /\ routes' = [routes EXCEPT ![n] =
       [m \in Model |-> IF Offering(n, m) = {} THEN None
                        ELSE Peers[n][CHOOSE k \in Offering(n, m) :
                                        \A j \in Offering(n, m) : k <= j]]]
  /\ known' = [known EXCEPT ![n] = Range(Peers[n])]
  /\ waiting' = [waiting EXCEPT ![n] = Index(n)]
  /\ heard' = [heard EXCEPT ![n] = [k \in Index(n) |-> {}]]
  /\ unrest' = [unrest EXCEPT ![n] = IF @ = 0 THEN 0 ELSE @ - 1]
  /\ UNCHANGED <<local, mesh, req>>

Poll(n) == \/ \E k \in Index(n) :
                PollLocal(n, k) \/ PollFallback(n, k) \/ PollFails(n, k)
           \/ Rebuild(n)

(***************************************************************************)
(* One request, node by node.                                              *)
(***************************************************************************)
\* A client on the machine of n, which withAuth lets in, asks for h; with
\* ?node=p it pins the request to node p.
Arrive(n, h, b, p) ==
  /\ req.status # "moving"
  /\ req' = [Idle EXCEPT !.status = "moving", !.at = n, !.handle = h,
                         !.bearer = b, !.pin = p]
  /\ UNCHANGED <<local, mesh, pollVars, unrest>>

\* What is left of request r when it has been answered.
Closed(r, a) == [Idle EXCEPT !.status = "answered", !.answer = a, !.via = r.via]

Answer(a) ==
  /\ req' = Closed(req, a)
  /\ UNCHANGED <<local, mesh, pollVars, unrest>>

\* Mutant of Forward: the node's own token is sent, never the per-peer one.
ForwardOwnToken(p, via) ==
  LET b == IF Token[req.at] # None THEN Token[req.at] ELSE req.bearer
      sent == [req EXCEPT !.bearer = b, !.via = via, !.pin = None]
  IN  /\ req' = IF ~Reaches(req.at, p) THEN Closed(sent, "502")
                ELSE IF ~Admits(p, b) THEN Closed(sent, "401")
                ELSE [sent EXCEPT !.at = p]
      /\ UNCHANGED <<local, mesh, pollVars, unrest>>

\* The reverse proxy hands the request to p, with n's bearer for p if it has
\* one and the incoming one otherwise; p's withAuth lets it in or not.
Forward(p, via) ==
  LET n == req.at
      b == IF OutboundToken(n, p) # None THEN OutboundToken(n, p) ELSE req.bearer
      sent == [req EXCEPT !.bearer = b, !.via = via, !.pin = None]
  IN  /\ req' = IF ~Reaches(n, p) THEN Closed(sent, "502")
                ELSE IF ~Admits(p, b) THEN Closed(sent, "401")
                ELSE [sent EXCEPT !.at = p]
      /\ UNCHANGED <<local, mesh, pollVars, unrest>>

\* ?node= names another node
PinApplies == req.pin # None /\ Enabled(req.at) /\ req.pin # req.at

PinForward == /\ req.status = "moving" /\ PinApplies
              /\ req.pin \in known[req.at]
              /\ Forward(req.pin, "pin")

PinUnknown == /\ req.status = "moving" /\ PinApplies
              /\ req.pin \notin known[req.at]
              /\ Answer("404")

ServeLocal == /\ req.status = "moving" /\ ~PinApplies
              /\ Serves(req.at, req.handle)
              /\ Answer("served")

RouteForward == /\ req.status = "moving" /\ ~PinApplies
                /\ ~Serves(req.at, req.handle)
                /\ \E p \in Candidates(req.at, req.handle) : Forward(p, "route")

NotFound == /\ req.status = "moving" /\ ~PinApplies
            /\ ~Serves(req.at, req.handle)
            /\ Candidates(req.at, req.handle) = {}
            /\ Answer("404")

Proxy == PinForward \/ PinUnknown \/ ServeLocal \/ RouteForward \/ NotFound

(***************************************************************************)
(* Around them: slots and nodes come and go.                               *)
(***************************************************************************)
LoadSlot(n, m) ==
  /\ "slots" \in Events /\ m \notin local[n]
  /\ local' = [local EXCEPT ![n] = @ \cup {m}]
  /\ UNCHANGED <<mesh, pollVars, req, unrest>>

UnloadSlot(n, m) ==
  /\ "slots" \in Events /\ m \in local[n]
  /\ local' = [local EXCEPT ![n] = @ \ {m}]
  /\ Unsettles(Node)
  /\ UNCHANGED <<mesh, pollVars, req>>

LeaveMesh(n) ==
  /\ "roam" \in Events /\ n \in mesh
  /\ mesh' = mesh \ {n}
  /\ UNCHANGED <<local, pollVars, req, unrest>>

JoinMesh(n) ==
  /\ n \notin mesh
  /\ mesh' = mesh \cup {n}
  /\ UNCHANGED <<local, pollVars, req, unrest>>

Churn == \E n \in Node : \/ \E m \in Model : LoadSlot(n, m) \/ UnloadSlot(n, m)
                         \/ LeaveMesh(n) \/ JoinMesh(n)

Ask == \E n \in Node, h \in Handle, b \in Secret \cup {None} :
         \/ Arrive(n, h, b, None)
         \/ "pin" \in Events /\ \E p \in Node : Arrive(n, h, b, p)

Next == (\E n \in Node : Poll(n)) \/ Proxy \/ Churn \/ Ask

Spec == Init /\ [][Next]_vars

(***************************************************************************)
(* The ticker keeps every node polling, each fetch answers or fails within  *)
(* the client's four seconds, and a proxied request moves on.              *)
(***************************************************************************)
FairSpec == Spec /\ WF_vars(Proxy) /\ \A n \in Node : WF_vars(Poll(n))

\* From some time on slots and nodes stay put and /api/fed/local answers.  (A
\* failed poll of a peer without slots is the same step as a successful one.)
Calm ==
  /\ UNCHANGED <<local, mesh>>
  /\ \A n \in Node : \A k \in Index(n) :
       k \in waiting[n] \ waiting'[n] /\ Authorised(n, Peers[n][k]) => PollLocal(n, k)

CalmSpec == FairSpec /\ <>[][Calm]_vars

-----------------------------------------------------------------------------
(***************************************************************************)
(* Properties.                                                             *)
(***************************************************************************)
\* Every variable has its type.
TypeOK ==
  /\ local \in [Node -> SUBSET Model]
  /\ mesh \subseteq Node
  /\ DOMAIN waiting = Node /\ DOMAIN heard = Node
  /\ \A n \in Node : waiting[n] \subseteq Index(n) /\ heard[n] \in [Index(n) -> SUBSET Model]
  /\ routes \in [Node -> [Model -> Node \cup {None}]]
  /\ known \in [Node -> SUBSET Node]
  /\ req \in [status : {"idle", "moving", "answered"}, at : Node \cup {None},
              handle : Handle \cup {None}, pin : Node \cup {None},
              bearer : Secret \cup {None},
              via : {"client", "pin", "route"},
              answer : {None, "served", "401", "404", "502"}]
  /\ unrest \in [Node -> 0 .. 2]

\* The slots whose names contain h run models whose IDs contain it too.
Faithful(h) == \A m \in Model : <<m, h>> \in NameMatch => <<m, h>> \in IDMatch

\* A node forgets in time.  Two rounds after the last unload anywhere, and after
\* its own last fallback list, a route it follows leads to a node that has the
\* slot at that moment, whatever was loaded, left, rejoined or failed to answer
\* in between: the round under way may hold an answer from before the unload,
\* the next one does not.  That node serves the request itself, so it goes no
\* further, unless the slot is named for a handle its model does not answer to.
RouteEnds ==
  LET h == req.handle
  IN  RouteForward /\ req'.status = "moving" /\ unrest[req.at] = 0 =>
        /\ \E m \in local[req'.at] : m = h \/ <<m, h>> \in NameMatch
        /\ Faithful(h) => Serves(req'.at, h)

RoutesEnd == [][RouteEnds]_vars

\* A peer that could be polled can be proxied to: a request that follows a route
\* is never refused with 401, because pollPeer and proxyByModel present the same
\* bearer.  Only a pin can lead to a node that was never polled successfully.
RouteAdmitted == req.answer = "401" => req.via = "pin"

\* What the routes of n should be: the first reachable peer that has the slot.
Best(n, m) ==
  LET able == {k \in Index(n) :
                 Authorised(n, Peers[n][k]) /\ m \in local[Peers[n][k]]}
  IN  IF able = {} THEN None
      ELSE Peers[n][CHOOSE k \in able : \A j \in able : k <= j]

\* Once slots and nodes stay put, the routes of every node become and remain
\* those of the slots that are really there, whatever stale answers and
\* fallback lists were gathered before.
Converges == <>[](\A n \in Node, m \in Model : Enabled(n) => routes[n][m] = Best(n, m))

\* Every request is answered once slots and nodes stay put.
Answered == req.status = "moving" ~> req.status = "answered"

\* "LOCAL-only model list, so two mutually-peered nodes can't loop" (fed.go:12),
\* and of ?node= "The param is stripped before forwarding so the peer resolves
\* the model locally instead of trying to re-route (no double-hop, no loop)"
\* (router.go:529): once slots and nodes stay put, a request that has reached the
\* node it is pinned to is answered and does not go on from peer to peer.
NoEndlessLoop == req.status = "moving" /\ req.via = "pin" ~> req.status = "answered"
=============================================================================
