-------------------------- MODULE FederationProofs --------------------------
(***************************************************************************)
(* For any number of nodes, models, peers and tokens: a request that        *)
(* follows a route is admitted by the peer, and two rounds after the last   *)
(* unload anywhere (and n's last fallback list) the routes of n lead to     *)
(* nodes that have the slot.                                               *)
(***************************************************************************)
EXTENDS Federation, WellFoundedInduction, TLAPS

ReqType ==
  /\ req.status \in {"idle", "moving", "answered"}
  /\ req.status = "moving" => req.at \in Node /\ req.answer = None
  /\ req.pin \in Node \cup {None}
  /\ req.bearer \in Secret \cup {None}

\* What the round has heard and the routes built from it: shapes.
PollType ==
  /\ waiting \in [Node -> SUBSET Nat]
  /\ DOMAIN heard = Node
  /\ \A n \in Node : DOMAIN heard[n] = Index(n)
  /\ routes \in [Node -> [Model -> Node \cup {None}]]
  /\ known \in [Node -> SUBSET Node]

\* A peer that was heard to have a model let n's bearer in ...
HeardAdmits ==
  \A n \in Node : \A k \in Index(n) :
    heard[n][k] # {} => Admits(Peers[n][k], OutboundToken(n, Peers[n][k]))

\* ... so a peer with a route does.
RouteAdmits ==
  \A n \in Node, m \in Model :
    routes[n][m] # None => Admits(routes[n][m], OutboundToken(n, routes[n][m]))

AdmitInv == PollType /\ ReqType /\ HeardAdmits /\ RouteAdmits /\ RouteAdmitted

\* What n has heard in this round is true when at most one round is to go, and
\* its routes are when none is.
HeardLocal ==
  \A n \in Node : \A k \in Index(n) :
    unrest[n] <= 1 => heard[n][k] \subseteq local[Peers[n][k]]

RouteLocal ==
  \A n \in Node, m \in Model :
    unrest[n] = 0 /\ routes[n][m] # None => m \in local[routes[n][m]]

HopInv == unrest \in [Node -> 0 .. 2] /\ HeardLocal /\ RouteLocal

FedInv == AdmitInv /\ HopInv

-----------------------------------------------------------------------------
\* The first peer in config order exists: a set of indices has a least element.
LEMMA LeastExists ==
  ASSUME NEW S, S \subseteq Nat, S # {}
  PROVE  \E k \in S : \A j \in S : k <= j
  <1> DEFINE R == {ss \in Nat \X Nat : ss[1] < ss[2]}
  <1>1. IsWellFoundedOn(R, Nat)
    BY NatLessThanWellFounded, Zenon DEF OpToRel
  <1>2. PICK k \in S : \A j \in S : <<j, k>> \notin R
    BY <1>1, WFMin, Zenon
  <1>3. ASSUME NEW j \in S PROVE k <= j
    <2>1. j \in Nat /\ k \in Nat
      OBVIOUS
    <2>2. ~(j < k)
      BY <1>2, <2>1
    <2> QED
      BY <2>1, <2>2
  <1> QED
    BY <1>3

LEMMA IndexFacts ==
  ASSUME NEW n \in Node
  PROVE  Index(n) \subseteq Nat /\ \A k \in Index(n) : Peers[n][k] \in Node
  BY PeersAssumption DEF Index

LEMMA FedInit == Init => FedInv
  <1> SUFFICES ASSUME Init PROVE FedInv
    OBVIOUS
  <1>1. PollType
    BY IndexFacts DEF Init, PollType, NoRoutes
  <1>2. ReqType
    BY DEF Init, ReqType, Idle
  <1>3. HeardAdmits /\ RouteAdmits /\ HeardLocal /\ RouteLocal
    BY DEF Init, HeardAdmits, RouteAdmits, HeardLocal, RouteLocal, NoRoutes
  <1>4. req.answer # "401"
    BY TokenAssumption DEF Init, Idle
  <1>5. RouteAdmitted /\ unrest \in [Node -> 0 .. 2]
    BY <1>4 DEF RouteAdmitted, Init
  <1> QED
    BY <1>1, <1>2, <1>3, <1>5 DEF FedInv, AdmitInv, HopInv

(***************************************************************************)
(* A poll: the answer is empty, or came from an authorised peer; it is part *)
(* of the peer's slots, or the round and the next one count as untrue.      *)
(***************************************************************************)
LEMMA GotStep ==
  ASSUME NEW n \in Node, NEW k \in Index(n), NEW ms, FedInv, Got(n, k, ms),
         ms # {} => Admits(Peers[n][k], OutboundToken(n, Peers[n][k])),
         \/ ms \subseteq local[Peers[n][k]] /\ UNCHANGED unrest
         \/ Unsettles({n})
  PROVE  FedInv'
  <1>1. /\ heard' = [heard EXCEPT ![n] = [heard[n] EXCEPT ![k] = ms]]
        /\ local' = local /\ routes' = routes /\ known' = known /\ req' = req
        /\ waiting' = [waiting EXCEPT ![n] = @ \ {k}]
    BY DEF Got
  <1>2. PollType'
    BY <1>1 DEF FedInv, AdmitInv, PollType
  <1>3. HeardAdmits'
    BY <1>1 DEF FedInv, AdmitInv, PollType, HeardAdmits, Admits, OutboundToken
  <1>4. HopInv'
    <2>1. unrest' \in [Node -> 0 .. 2] /\ \A q \in Node : unrest'[q] = unrest[q] \/ unrest'[q] = 2
      BY DEF Unsettles, FedInv, HopInv
    <2>2. RouteLocal'
      BY <1>1, <2>1 DEF FedInv, HopInv, RouteLocal
    <2>3. ASSUME NEW q \in Node, NEW j \in Index(q), unrest'[q] <= 1
          PROVE  heard'[q][j] \subseteq local[Peers[q][j]]
      <3>1. CASE q = n /\ j = k
        <4>1. ~Unsettles({n})
          BY <3>1, <2>3 DEF Unsettles
        <4> QED
          BY <3>1, <4>1, <1>1 DEF FedInv, AdmitInv, PollType
      <3>2. CASE ~(q = n /\ j = k)
        <4>1. heard'[q][j] = heard[q][j]
          BY <3>2, <1>1 DEF FedInv, AdmitInv, PollType
        <4>2. unrest[q] <= 1
          BY <2>1, <2>3
        <4> QED
          BY <4>1, <4>2 DEF FedInv, HopInv, HeardLocal
      <3> QED
        BY <3>1, <3>2
    <2>4. HeardLocal'
      BY <2>3, <1>1 DEF HeardLocal
    <2> QED
      BY <2>1, <2>2, <2>4 DEF HopInv
  <1>5. ReqType' /\ RouteAdmits' /\ RouteAdmitted'
    BY <1>1 DEF FedInv, AdmitInv, ReqType, RouteAdmits, RouteAdmitted, Admits, OutboundToken
  <1> QED
    BY <1>2, <1>3, <1>4, <1>5 DEF FedInv, AdmitInv

LEMMA RebuildStep ==
  ASSUME NEW n \in Node, FedInv, Rebuild(n)
  PROVE  FedInv'
  <1>1. ASSUME NEW m \in Model, routes'[n][m] # None
        PROVE  \E k \in Index(n) : m \in heard[n][k] /\ routes'[n][m] = Peers[n][k]
    <2> DEFINE O == Offering(n, m)
               first == CHOOSE k \in O : \A j \in O : k <= j
    <2>1. routes'[n][m] = IF O = {} THEN None ELSE Peers[n][first]
      BY DEF Rebuild, FedInv, AdmitInv, PollType
    <2>2. O # {}
      BY <1>1, <2>1
    <2>3. O \subseteq Nat
      BY IndexFacts DEF Offering
    <2>4. \E k \in O : \A j \in O : k <= j
      BY <2>2, <2>3, LeastExists
    <2>5. first \in O
      BY <2>4
    <2> QED
      BY <2>1, <2>2, <2>5 DEF Offering
  <1>2. ASSUME NEW p \in Node, p # n PROVE routes'[p] = routes[p] /\ heard'[p] = heard[p]
    BY <1>2 DEF Rebuild, FedInv, AdmitInv, PollType
  <1>3. heard'[n] = [k \in Index(n) |-> {}]
    BY DEF Rebuild, FedInv, AdmitInv, PollType
  <1>4. local' = local /\ req' = req
    BY DEF Rebuild
  <1>5. PollType'
    <2>1. routes'[n] \in [Model -> Node \cup {None}]
      <3>1. \A m \in Model : routes'[n][m] \in Node \cup {None}
        BY <1>1, IndexFacts
      <3>2. \E f : routes'[n] = [m \in Model |-> f[m]]
        <4>1. routes'[n] = [m \in Model |-> IF Offering(n, m) = {} THEN None
                             ELSE Peers[n][CHOOSE k \in Offering(n, m) : \A j \in Offering(n, m) : k <= j]]
          BY DEF Rebuild, FedInv, AdmitInv, PollType
        <4> QED
          BY <4>1
      <3> QED
        BY <3>1, <3>2
    <2>2. routes' \in [Node -> [Model -> Node \cup {None}]]
      BY <2>1, <1>2 DEF Rebuild, FedInv, AdmitInv, PollType
    <2>3. waiting' \in [Node -> SUBSET Nat]
      BY IndexFacts DEF Rebuild, FedInv, AdmitInv, PollType
    <2>4. known' \in [Node -> SUBSET Node]
      BY PeersAssumption DEF Rebuild, FedInv, AdmitInv, PollType, Range
    <2> QED
      BY <2>2, <2>3, <2>4 DEF Rebuild, FedInv, AdmitInv, PollType
  <1>6. HeardAdmits'
    BY <1>2, <1>3, <1>4 DEF FedInv, AdmitInv, HeardAdmits, Admits, OutboundToken
  <1>7. RouteAdmits'
    <2> SUFFICES ASSUME NEW p \in Node, NEW m \in Model, routes'[p][m] # None
                 PROVE  Admits(routes'[p][m], OutboundToken(p, routes'[p][m]))
      BY DEF RouteAdmits, Admits, OutboundToken
    <2>1. CASE p = n
      BY <2>1, <1>1 DEF FedInv, AdmitInv, HeardAdmits
    <2>2. CASE p # n
      BY <2>2, <1>2 DEF FedInv, AdmitInv, RouteAdmits
    <2> QED
      BY <2>1, <2>2
  <1>8. /\ unrest' \in [Node -> 0 .. 2]
        /\ unrest'[n] = 0 => unrest[n] <= 1
        /\ \A p \in Node : p # n => unrest'[p] = unrest[p]
    BY DEF Rebuild, FedInv, HopInv
  <1>9. RouteLocal'
    <2> SUFFICES ASSUME NEW p \in Node, NEW m \in Model, unrest'[p] = 0, routes'[p][m] # None
                 PROVE  m \in local[routes'[p][m]]
      BY <1>4 DEF RouteLocal
    <2>1. CASE p = n
      BY <2>1, <1>1, <1>8 DEF FedInv, HopInv, HeardLocal
    <2>2. CASE p # n
      BY <2>2, <1>2, <1>8 DEF FedInv, HopInv, RouteLocal
    <2> QED
      BY <2>1, <2>2
  <1>10. HeardLocal'
    BY <1>2, <1>3, <1>4, <1>8 DEF FedInv, HopInv, HeardLocal
  <1>11. ReqType' /\ RouteAdmitted'
    BY <1>4 DEF FedInv, AdmitInv, ReqType, RouteAdmitted
  <1> QED
    BY <1>5, <1>6, <1>7, <1>8, <1>9, <1>10, <1>11 DEF FedInv, AdmitInv, HopInv

LEMMA PollStep == ASSUME NEW n \in Node, FedInv, Poll(n) PROVE FedInv'
  <1>1. ASSUME NEW k \in Index(n), PollLocal(n, k) PROVE FedInv'
    BY <1>1, GotStep DEF PollLocal, Authorised
  <1>2. ASSUME NEW k \in Index(n), PollFallback(n, k) PROVE FedInv'
    BY <1>2, GotStep DEF PollFallback, Authorised
  <1>3. ASSUME NEW k \in Index(n), PollFails(n, k) PROVE FedInv'
    BY <1>3, GotStep DEF PollFails
  <1> QED
    BY <1>1, <1>2, <1>3, RebuildStep DEF Poll

(***************************************************************************)
(* The request.  The nodes do not change; what is left to show is about req.*)
(***************************************************************************)
ReqInv == ReqType /\ RouteAdmitted

LEMMA ReqOnly ==
  ASSUME FedInv, UNCHANGED <<local, mesh, pollVars, unrest>>, ReqInv'
  PROVE  FedInv'
  BY DEF FedInv, AdmitInv, HopInv, ReqInv, PollType, HeardAdmits, RouteAdmits, HeardLocal,
         RouteLocal, pollVars, Admits, OutboundToken

LEMMA AnswerStep ==
  ASSUME FedInv, NEW a, a # "401", Answer(a), req.status = "moving"
  PROVE  FedInv'
  <1>1. /\ req'.status = "answered" /\ req'.answer = a
        /\ req'.pin = None /\ req'.bearer = None
    BY DEF Answer, Closed, Idle
  <1>2. ReqInv'
    BY <1>1 DEF FedInv, AdmitInv, ReqInv, ReqType, RouteAdmitted
  <1> QED
    BY <1>2, ReqOnly DEF Answer

LEMMA ForwardStep ==
  ASSUME FedInv, NEW p \in Node, NEW via \in {"pin", "route"}, req.status = "moving", Forward(p, via),
         via = "route" => Admits(p, OutboundToken(req.at, p))
  PROVE  FedInv'
  <1> DEFINE b == IF OutboundToken(req.at, p) # None THEN OutboundToken(req.at, p) ELSE req.bearer
  <1>1. /\ req'.pin = None /\ req'.via = via
        /\ \/ /\ req'.status = "moving" /\ req'.at = p
              /\ req'.handle = req.handle /\ req'.bearer = b /\ req'.answer = req.answer
           \/ /\ req'.status = "answered" /\ req'.bearer = None
              /\ req'.answer = "502" \/ (req'.answer = "401" /\ ~Admits(p, b))
    BY DEF Forward, Closed, Idle
  <1>3. b \in Secret \cup {None}
    BY TokenAssumption DEF FedInv, AdmitInv, ReqType, OutboundToken
  <1>4. via = "route" => Admits(p, b)
    BY DEF Admits
  <1>5. ReqType'
    BY <1>1, <1>3 DEF FedInv, AdmitInv, ReqType
  <1>6. RouteAdmitted'
    BY <1>1, <1>4, TokenAssumption DEF FedInv, AdmitInv, ReqType, RouteAdmitted
  <1> QED
    BY <1>5, <1>6, ReqOnly DEF Forward, ReqInv

LEMMA ProxyStep == FedInv /\ Proxy => FedInv'
  <1> SUFFICES ASSUME FedInv, Proxy PROVE FedInv'
    OBVIOUS
  <1>1. CASE PinForward
    <2>1. req.pin \in Node
      BY <1>1 DEF PinForward, PinApplies, FedInv, AdmitInv, ReqType
    <2> QED
      BY <1>1, <2>1, ForwardStep DEF PinForward, PinApplies
  <1>2. CASE PinUnknown \/ ServeLocal \/ NotFound
    BY <1>2, AnswerStep DEF PinUnknown, ServeLocal, NotFound
  <1>3. CASE RouteForward
    <2>1. PICK p \in Candidates(req.at, req.handle) : Forward(p, "route")
      BY <1>3 DEF RouteForward
    <2>2. PICK m \in Model : /\ routes[req.at][m] = p /\ p # None
                             /\ m = req.handle \/ <<m, req.handle>> \in NameMatch
      BY <2>1 DEF Candidates
    <2>3. req.at \in Node /\ p \in Node /\ req.status = "moving"
      BY <1>3, <2>2 DEF RouteForward, FedInv, AdmitInv, ReqType, PollType
    <2>4. Admits(p, OutboundToken(req.at, p))
      BY <2>2, <2>3 DEF FedInv, AdmitInv, RouteAdmits
    <2> QED
      BY <1>3, <2>1, <2>3, <2>4, ForwardStep DEF RouteForward
  <1> QED
    BY <1>1, <1>2, <1>3 DEF Proxy

LEMMA AskStep == FedInv /\ Ask => FedInv'
  <1> SUFFICES ASSUME FedInv, Ask PROVE FedInv'
    OBVIOUS
  <1>1. PICK n \in Node, h \in Handle, b \in Secret \cup {None}, p \in Node \cup {None} : Arrive(n, h, b, p)
    BY DEF Ask
  <1>2. /\ req'.status = "moving" /\ req'.at = n /\ req'.bearer = b /\ req'.pin = p
        /\ req'.via = "client" /\ req'.answer = None
    BY <1>1 DEF Arrive, Idle
  <1>3. ReqType'
    BY <1>2 DEF ReqType
  <1>4. RouteAdmitted'
    BY <1>2, TokenAssumption DEF RouteAdmitted
  <1> QED
    BY <1>1, <1>3, <1>4, ReqOnly DEF Arrive, ReqInv

(***************************************************************************)
(* Slots and nodes come and go: a load makes what was heard no less true,   *)
(* after an unload nothing counts as true.                                 *)
(***************************************************************************)
LEMMA ChurnStep == FedInv /\ Churn => FedInv'
  <1> SUFFICES ASSUME FedInv, Churn PROVE FedInv'
    OBVIOUS
  <1>1. UNCHANGED <<pollVars, req>>
    BY DEF Churn, LoadSlot, UnloadSlot, LeaveMesh, JoinMesh
  <1>2. AdmitInv'
    BY <1>1 DEF FedInv, AdmitInv, PollType, ReqType, HeardAdmits, RouteAdmits, RouteAdmitted,
                pollVars, Admits, OutboundToken
  <1>3. \/ unrest' = unrest /\ \E n \in Node, m \in Model : LoadSlot(n, m)
        \/ UNCHANGED <<local, unrest>>
        \/ unrest' = [n \in Node |-> 2]
    BY DEF Churn, LoadSlot, UnloadSlot, LeaveMesh, JoinMesh, Unsettles
  <1>4. unrest' \in [Node -> 0 .. 2] /\ \A n \in Node : unrest'[n] = unrest[n] \/ unrest'[n] = 2
    BY <1>3 DEF FedInv, HopInv
  <1>5. ASSUME NEW n \in Node, unrest'[n] # 2
        PROVE  unrest'[n] = unrest[n] /\ \A x : \A q : q \in local[x] => q \in local'[x]
    <2>1. unrest' # [q \in Node |-> 2]
      BY <1>5
    <2>2. CASE \E q \in Node, m \in Model : LoadSlot(q, m)
      <3>1. PICK q \in Node, m \in Model : local' = [local EXCEPT ![q] = @ \cup {m}]
        BY <2>2 DEF LoadSlot
      <3> QED
        BY <3>1, <1>4, <1>5
    <2>3. CASE UNCHANGED <<local, unrest>>
      BY <2>3
    <2> QED
      BY <1>3, <2>1, <2>2, <2>3
  <1>6. heard' = heard /\ routes' = routes
    BY <1>1 DEF pollVars
  <1>7. HeardLocal'
    <2> SUFFICES ASSUME NEW n \in Node, NEW k \in Index(n), unrest'[n] <= 1
                 PROVE  heard'[n][k] \subseteq local'[Peers[n][k]]
      BY DEF HeardLocal
    <2>1. unrest'[n] # 2
      BY <1>4
    <2>2. heard[n][k] \subseteq local[Peers[n][k]]
      BY <1>5, <2>1 DEF FedInv, HopInv, HeardLocal
    <2> QED
      BY <1>5, <1>6, <2>1, <2>2
  <1>8. RouteLocal'
    <2> SUFFICES ASSUME NEW n \in Node, NEW m \in Model, unrest'[n] = 0, routes'[n][m] # None
                 PROVE  m \in local'[routes'[n][m]]
      BY DEF RouteLocal
    <2>1. m \in local[routes[n][m]]
      BY <1>5, <1>6 DEF FedInv, HopInv, RouteLocal
    <2> QED
      BY <1>5, <1>6, <2>1
  <1> QED
    BY <1>2, <1>4, <1>7, <1>8 DEF FedInv, HopInv

LEMMA FedStep == FedInv /\ [Next]_vars => FedInv'
  <1> SUFFICES ASSUME FedInv, [Next]_vars PROVE FedInv'
    OBVIOUS
  <1>1. CASE UNCHANGED vars
    <2>1. UNCHANGED <<local, mesh, pollVars, unrest>> /\ req' = req
      BY <1>1 DEF vars
    <2>2. ReqInv'
      BY <2>1 DEF FedInv, AdmitInv, ReqInv, ReqType, RouteAdmitted
    <2> QED
      BY <2>1, <2>2, ReqOnly
  <1>2. CASE Next
    BY <1>2, PollStep, ProxyStep, ChurnStep, AskStep DEF Next
  <1> QED
    BY <1>1, <1>2

(***************************************************************************)
(* A peer that could be polled can be proxied to: following a route never   *)
(* ends in a 401 (RouteAdmitted).                                          *)
(***************************************************************************)
THEOREM RoutesAreAdmitted == Spec => []RouteAdmitted
  <1>1. FedInv => RouteAdmitted
    BY DEF FedInv, AdmitInv
  <1> QED
    BY <1>1, FedInit, FedStep, PTL DEF Spec

(***************************************************************************)
(* Two rounds after the last unload anywhere, and after its own last        *)
(* fallback list, a route that a node follows leads to a node that has the  *)
(* slot at that moment and serves the request itself (RoutesEnd).           *)
(***************************************************************************)
THEOREM RoutesEndWhereServed == Spec => RoutesEnd
  <1>1. ASSUME FedInv, RouteEnds \/ Next PROVE RouteEnds
    <2> SUFFICES ASSUME RouteForward, req'.status = "moving", unrest[req.at] = 0
                 PROVE  /\ \E m \in local[req'.at] : m = req.handle \/ <<m, req.handle>> \in NameMatch
                        /\ Faithful(req.handle) => Serves(req'.at, req.handle)
      BY <1>1 DEF RouteEnds
    <2>1. PICK p \in Candidates(req.at, req.handle) : Forward(p, "route")
      BY DEF RouteForward
    <2>2. PICK m \in Model : /\ routes[req.at][m] = p /\ p # None
                             /\ m = req.handle \/ <<m, req.handle>> \in NameMatch
      BY <2>1 DEF Candidates
    <2>3. req.at \in Node
      BY <1>1 DEF RouteForward, FedInv, AdmitInv, ReqType
    <2>4. m \in local[p]
      BY <1>1, <2>2, <2>3 DEF FedInv, HopInv, RouteLocal
    <2>5. req'.at = p
      BY <2>1 DEF Forward, Closed, Idle
    <2>6. Faithful(req.handle) => Serves(p, req.handle)
      BY <2>2, <2>4 DEF Faithful, Serves
    <2> QED
      BY <2>2, <2>4, <2>5, <2>6
  <1>2. FedInv /\ [Next]_vars => [RouteEnds]_vars
    BY <1>1
  <1> QED
    BY <1>2, FedInit, FedStep, PTL DEF Spec, RoutesEnd

(***************************************************************************)
(* Every variable keeps its type, whatever polls, requests and churn do.    *)
(* What has to be added to TypeOK: a request in motion is at some node.     *)
(***************************************************************************)
Moving == req.status = "moving" => req.at \in Node

TypeInv == TypeOK /\ Moving

Request == [status : {"idle", "moving", "answered"}, at : Node \cup {None},
            handle : Handle \cup {None}, pin : Node \cup {None},
            bearer : Secret \cup {None},
            via : {"client", "pin", "route"},
            answer : {None, "served", "401", "404", "502"}]

LEMMA IdleType == Idle \in Request
  BY DEF Idle, Request

LEMMA ReqTypeStep ==
  ASSUME TypeInv, UNCHANGED <<local, mesh, pollVars, unrest>>, req' \in Request, Moving'
  PROVE  TypeInv'
  BY DEF TypeInv, TypeOK, pollVars, Request

LEMMA ClosedType ==
  ASSUME NEW r \in Request, NEW a \in {"served", "401", "404", "502"}
  PROVE  Closed(r, a) \in Request /\ Closed(r, a).status = "answered"
  BY IdleType DEF Closed, Request, Idle

LEMMA ForwardType ==
  ASSUME TypeInv, NEW p \in Node, NEW via \in {"pin", "route"}, req.status = "moving", Forward(p, via)
  PROVE  TypeInv'
  <1> DEFINE b == IF OutboundToken(req.at, p) # None THEN OutboundToken(req.at, p) ELSE req.bearer
             sent == [req EXCEPT !.bearer = b, !.via = via, !.pin = None]
  <1>1. req \in Request /\ req.at \in Node
    BY DEF TypeInv, TypeOK, Moving, Request
  <1>2. b \in Secret \cup {None}
    BY <1>1, TokenAssumption DEF OutboundToken, Request
  <1>4. sent \in Request
    BY <1>1, <1>2 DEF Request
  <1>5. \/ req' = Closed(sent, "502")
        \/ req' = Closed(sent, "401")
        \/ req' = [sent EXCEPT !.at = p]
    BY DEF Forward
  <1> HIDE DEF sent
  <1>6. [sent EXCEPT !.at = p] \in Request /\ [sent EXCEPT !.at = p].at = p
    BY <1>4 DEF Request
  <1>7. req' \in Request
    BY <1>4, <1>5, <1>6, ClosedType
  <1>8. req'.status = "answered" \/ req'.at = p
    BY <1>4, <1>5, <1>6, ClosedType
  <1>9. Moving'
    BY <1>8 DEF Moving
  <1> QED
    BY <1>7, <1>9, ReqTypeStep DEF Forward

LEMMA GotType ==
  ASSUME TypeInv, NEW n \in Node, NEW k \in Index(n), NEW ms \in SUBSET Model, Got(n, k, ms),
         UNCHANGED unrest \/ Unsettles({n})
  PROVE  TypeInv'
  <1>1. heard' = [heard EXCEPT ![n] = [heard[n] EXCEPT ![k] = ms]]
    BY DEF Got
  <1>2. waiting' = [waiting EXCEPT ![n] = waiting[n] \ {k}]
    BY DEF Got
  <1>3. DOMAIN heard' = Node /\ DOMAIN waiting' = Node
    BY <1>1, <1>2 DEF TypeInv, TypeOK
  <1>4. ASSUME NEW q \in Node
        PROVE  waiting'[q] \subseteq Index(q) /\ heard'[q] \in [Index(q) -> SUBSET Model]
    BY <1>1, <1>2 DEF TypeInv, TypeOK
  <1>5. unrest' \in [Node -> 0 .. 2]
    BY DEF TypeInv, TypeOK, Unsettles
  <1> QED
    BY <1>3, <1>4, <1>5 DEF TypeInv, TypeOK, Got, Moving

LEMMA RebuildType ==
  ASSUME TypeInv, NEW n \in Node, Rebuild(n)
  PROVE  TypeInv'
  <1> DEFINE built == [m \in Model |-> IF Offering(n, m) = {} THEN None
                        ELSE Peers[n][CHOOSE k \in Offering(n, m) :
                                        \A j \in Offering(n, m) : k <= j]]
  <1>1. ASSUME NEW m \in Model PROVE built[m] \in Node \cup {None}
    <2> DEFINE O == Offering(n, m)
               first == CHOOSE k \in O : \A j \in O : k <= j
    <2>1. O \subseteq Index(n) /\ Index(n) \subseteq Nat
      BY IndexFacts DEF Offering
    <2>2. O # {} => first \in O
      BY <2>1, LeastExists
    <2>3. O # {} => Peers[n][first] \in Node
      BY <2>1, <2>2, IndexFacts
    <2> QED
      BY <2>3
  <1>2. built \in [Model -> Node \cup {None}]
    BY <1>1
  <1>3. routes' = [routes EXCEPT ![n] = built]
    BY DEF Rebuild
  <1> HIDE DEF built
  <1>4. routes' \in [Node -> [Model -> Node \cup {None}]]
    BY <1>2, <1>3 DEF TypeInv, TypeOK
  <1>5. known' \in [Node -> SUBSET Node]
    BY PeersAssumption DEF Rebuild, TypeInv, TypeOK, Range
  <1>6. DOMAIN heard' = Node /\ DOMAIN waiting' = Node
    BY DEF Rebuild, TypeInv, TypeOK
  <1>7. ASSUME NEW q \in Node
        PROVE  waiting'[q] \subseteq Index(q) /\ heard'[q] \in [Index(q) -> SUBSET Model]
    BY DEF Rebuild, TypeInv, TypeOK
  <1>8. unrest' \in [Node -> 0 .. 2]
    BY DEF Rebuild, TypeInv, TypeOK
  <1> QED
    BY <1>4, <1>5, <1>6, <1>7, <1>8 DEF TypeInv, TypeOK, Rebuild, Moving

LEMMA PollKeepsType == ASSUME TypeInv, NEW n \in Node, Poll(n) PROVE TypeInv'
  <1>1. ASSUME NEW k \in Index(n), PollLocal(n, k) PROVE TypeInv'
    <2>1. local[Peers[n][k]] \in SUBSET Model
      BY IndexFacts DEF TypeInv, TypeOK
    <2> QED
      BY <1>1, <2>1, GotType DEF PollLocal
  <1>2. ASSUME NEW k \in Index(n), PollFallback(n, k) PROVE TypeInv'
    <2>1. Aggregate(Peers[n][k]) \in SUBSET Model
      BY IndexFacts DEF TypeInv, TypeOK, Aggregate
    <2> QED
      BY <1>2, <2>1, GotType DEF PollFallback
  <1>3. ASSUME NEW k \in Index(n), PollFails(n, k) PROVE TypeInv'
    BY <1>3, GotType DEF PollFails
  <1> QED
    BY <1>1, <1>2, <1>3, RebuildType DEF Poll

LEMMA ProxyKeepsType == TypeInv /\ Proxy => TypeInv'
  <1> SUFFICES ASSUME TypeInv, Proxy PROVE TypeInv'
    OBVIOUS
  <1>1. req \in Request
    BY DEF TypeInv, TypeOK, Request
  <1>2. CASE PinForward
    <2>1. req.pin \in Node
      BY <1>1, <1>2 DEF PinForward, PinApplies, Request
    <2> QED
      BY <1>2, <2>1, ForwardType DEF PinForward
  <1>3. ASSUME NEW a \in {"served", "404"}, Answer(a) PROVE TypeInv'
    <2>1. req' \in Request /\ req'.status = "answered"
      BY <1>1, <1>3, ClosedType DEF Answer
    <2> QED
      BY <1>3, <2>1, ReqTypeStep DEF Answer, Moving
  <1>4. CASE RouteForward
    <2>1. PICK p \in Candidates(req.at, req.handle) : Forward(p, "route")
      BY <1>4 DEF RouteForward
    <2>2. req.at \in Node /\ req.status = "moving"
      BY <1>4 DEF TypeInv, Moving, RouteForward
    <2>3. \E m \in Model : p = routes[req.at][m] /\ p # None
      BY <2>1 DEF Candidates
    <2>4. p \in Node
      BY <2>2, <2>3 DEF TypeInv, TypeOK
    <2> QED
      BY <2>1, <2>2, <2>4, ForwardType
  <1> QED
    BY <1>2, <1>3, <1>4 DEF Proxy, PinUnknown, ServeLocal, NotFound

LEMMA AskKeepsType == TypeInv /\ Ask => TypeInv'
  <1> SUFFICES ASSUME TypeInv, Ask PROVE TypeInv'
    OBVIOUS
  <1>1. PICK n \in Node, h \in Handle, b \in Secret \cup {None}, p \in Node \cup {None} : Arrive(n, h, b, p)
    BY DEF Ask
  <1>2. (p # None) \in BOOLEAN
    OBVIOUS
  <1>3. req' \in Request /\ req'.at = n
    BY <1>1, <1>2, IdleType DEF Arrive, Idle, Request
  <1> QED
    BY <1>1, <1>3, ReqTypeStep DEF Arrive, Moving

LEMMA ChurnKeepsType == TypeInv /\ Churn => TypeInv'
  <1> SUFFICES ASSUME TypeInv, Churn PROVE TypeInv'
    OBVIOUS
  <1>1. /\ local \in [Node -> SUBSET Model] /\ mesh \subseteq Node
        /\ unrest \in [Node -> 0 .. 2]
    BY DEF TypeInv, TypeOK
  <1>2. UNCHANGED <<pollVars, req>>
    BY DEF Churn, LoadSlot, UnloadSlot, LeaveMesh, JoinMesh
  <1>3. ASSUME NEW n \in Node, NEW m \in Model, LoadSlot(n, m) \/ UnloadSlot(n, m)
        PROVE  local' \in [Node -> SUBSET Model] /\ mesh' \subseteq Node /\ unrest' \in [Node -> 0 .. 2]
    <2>1. local' \in [Node -> SUBSET Model] /\ mesh' = mesh
      BY <1>1, <1>3 DEF LoadSlot, UnloadSlot
    <2>2. unrest' \in [Node -> 0 .. 2]
      BY <1>1, <1>3 DEF LoadSlot, UnloadSlot, Unsettles
    <2> QED
      BY <1>1, <2>1, <2>2
  <1>4. ASSUME NEW n \in Node, LeaveMesh(n) \/ JoinMesh(n)
        PROVE  local' \in [Node -> SUBSET Model] /\ mesh' \subseteq Node /\ unrest' \in [Node -> 0 .. 2]
    BY <1>1, <1>4 DEF LeaveMesh, JoinMesh
  <1>5. local' \in [Node -> SUBSET Model] /\ mesh' \subseteq Node /\ unrest' \in [Node -> 0 .. 2]
    BY <1>3, <1>4 DEF Churn
  <1> QED
    BY <1>2, <1>5 DEF TypeInv, TypeOK, pollVars, Moving

(***************************************************************************)
(* Every variable keeps its type (TypeOK).                                 *)
(***************************************************************************)
THEOREM TypesKept == Spec => []TypeOK
  <1>1. Init => TypeInv
    <2> SUFFICES ASSUME Init PROVE TypeInv
      OBVIOUS
    <2>1. req \in Request /\ req.status = "idle"
      BY IdleType DEF Init, Idle
    <2>2. routes \in [Node -> [Model -> Node \cup {None}]] /\ known \in [Node -> SUBSET Node]
      BY DEF Init, NoRoutes
    <2>3. \A n \in Node : waiting[n] \subseteq Index(n) /\ heard[n] \in [Index(n) -> SUBSET Model]
      BY DEF Init
    <2> QED
      BY <2>1, <2>2, <2>3 DEF Init, TypeInv, TypeOK, Moving, Request
  <1>2. TypeInv /\ [Next]_vars => TypeInv'
    <2> SUFFICES ASSUME TypeInv, [Next]_vars PROVE TypeInv'
      OBVIOUS
    <2>1. CASE UNCHANGED vars
      BY <2>1 DEF vars, pollVars, TypeInv, TypeOK, Moving
    <2>2. CASE Next
      BY <2>2, PollKeepsType, ProxyKeepsType, ChurnKeepsType, AskKeepsType DEF Next
    <2> QED
      BY <2>1, <2>2
  <1>3. TypeInv => TypeOK
    BY DEF TypeInv
  <1> QED
    BY <1>1, <1>2, <1>3, PTL DEF Spec
=============================================================================
