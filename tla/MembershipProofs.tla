-------------------------- MODULE MembershipProofs --------------------------
(***************************************************************************)
(* Proofs about Membership, for any number of nodes, models and late beats: *)
(* its type invariant, and that a user token, or a client without an        *)
(* address, contributes nothing and no node routes to itself.  The second   *)
(* needs that no beat of either is ever past the hub's checks, neither one  *)
(* that is waited for nor a late one.                                       *)
(***************************************************************************)
EXTENDS Membership, Numbers, TLAPS

\* No user token and no client without an address is past register's checks, in
\* a beat that is waited for or in one that was given up on.
CheckedInv ==
  /\ \A n \in Node : pc[n] = "verified" => grant[n] \notin Silent
  /\ \A b \in stray : b.verified => grant[b.node] \notin Silent

MembershipInv == TypeOK /\ OnlyContributors /\ CheckedInv

\* ApplyRoster: a route leads to another node that is in the roster.
LEMMA RoutesLead ==
  ASSUME NEW r \in Entries, NEW n \in Node
  PROVE  /\ Routes(r, n) \in [Model -> Node \cup {None}]
         /\ \A m \in Model : Routes(r, n)[m] \in Node =>
              Routes(r, n)[m] # n /\ r[Routes(r, n)[m]] # None
<1>1. ASSUME NEW m \in Model
      PROVE  Routes(r, n)[m] = None \/ Routes(r, n)[m] \in Offering(r, n, m)
  <2> DEFINE O == Offering(r, n, m)
  <2>1. CASE O = {}
    BY <2>1 DEF Routes
  <2>2. CASE O # {}
    <3>1. O \subseteq Node
      BY DEF Offering
    <3>2. \E x \in O : \A y \in O : x <= y
      <4> HIDE DEF O
      <4> QED BY <2>2, <3>1, NodeAssumption, LeastElement
    <3> QED BY <2>2, <3>2 DEF Routes
  <2> QED BY <2>1, <2>2
<1>2. \A m \in Model : Offering(r, n, m) \subseteq {p \in Node \ {n} : r[p] # None}
  BY DEF Offering
<1>3. Routes(r, n) = [m \in Model |-> Routes(r, n)[m]]
  BY DEF Routes
<1>4. \A m \in Model : Routes(r, n)[m] \in Node \cup {None}
  BY <1>1, <1>2
<1>5. Routes(r, n) \in [Model -> Node \cup {None}]
  BY <1>3, <1>4
<1> QED BY <1>1, <1>2, <1>5, NodeAssumption

\* Pruned drops entries and changes none.
LEMMA PrunedEntries ==
  ASSUME TypeOK
  PROVE  Pruned \in Entries /\ \A n \in Node : Pruned[n] # None => roster[n] # None
BY DEF TypeOK, Pruned, Entries

LEMMA InitHolds == Init => MembershipInv
<1> SUFFICES ASSUME Init PROVE MembershipInv
  OBVIOUS
<1>1. TypeOK
  BY GrantsAssumption, TTLAssumption DEF Init, TypeOK, Entries, NoEntries, NoRoutes
<1>2. OnlyContributors
  BY NodeAssumption DEF Init, OnlyContributors, NoEntries, NoRoutes
<1> QED BY <1>1, <1>2 DEF Init, MembershipInv, CheckedInv

\* Every action preserves the types.
LEMMA TypesStep == MembershipInv /\ [Next]_vars => TypeOK'
<1> SUFFICES ASSUME MembershipInv, [Next]_vars PROVE TypeOK'
  OBVIOUS
<1> USE DEF MembershipInv
<1>1. CASE UNCHANGED vars
  BY <1>1 DEF TypeOK, vars, envVars, hubVars
<1>2. ASSUME NEW n \in Node, Beat(n) PROVE TypeOK'
  BY <1>2 DEF Beat, Goto, TypeOK, envVars, hubVars
<1>3. ASSUME NEW n \in Node, Verified(n) PROVE TypeOK'
  BY <1>3 DEF Verified, Goto, TypeOK, envVars, hubVars
<1>4. ASSUME NEW n \in Node, Register(n) PROVE TypeOK'
  BY <1>4, TTLAssumption DEF Register, Enter, Clear, Goto, TypeOK, Entries, envVars
<1>5. ASSUME NEW n \in Node, Forbidden(n) PROVE TypeOK'
  BY <1>5 DEF Forbidden, Clear, Goto, TypeOK, envVars, hubVars
<1>6. ASSUME NEW n \in Node, Roster(n) PROVE TypeOK'
  <2>1. Pruned \in Entries /\ Routes(Pruned, n) \in [Model -> Node \cup {None}]
    BY PrunedEntries, RoutesLead
  <2>2. age' \in [Node -> 0 .. TTL + 1]
    BY <1>6, TTLAssumption DEF Roster, TypeOK
  <2>3. reply' \in [Node -> [Model -> Node \cup {None}]]
    BY <1>6, <2>1 DEF Roster, TypeOK
  <2> QED BY <1>6, <2>1, <2>2, <2>3 DEF Roster, Goto, TypeOK, envVars
<1>7. ASSUME NEW n \in Node, Unauthorised(n) PROVE TypeOK'
  BY <1>7 DEF Unauthorised, Clear, Goto, TypeOK, envVars, hubVars
<1>16. ASSUME NEW n \in Node, Rejected(n) PROVE TypeOK'
  BY <1>16 DEF Rejected, Clear, Goto, TypeOK, envVars, hubVars
<1>8. ASSUME NEW n \in Node, Apply(n) PROVE TypeOK'
  BY <1>8 DEF Apply, Goto, NoRoutes, TypeOK, envVars, hubVars
<1>9. ASSUME NEW n \in Node, Lost(n) PROVE TypeOK'
  BY <1>9 DEF Lost, Clear, Goto, NoRoutes, TypeOK, envVars, hubVars
<1>10. ASSUME NEW n \in Node, TimedOut(n) PROVE TypeOK'
  <2> DEFINE b == [node |-> n, models |-> sent[n], verified |-> pc[n] = "verified"]
  <2>1. sent[n] \in SUBSET Model /\ (pc[n] = "verified") \in BOOLEAN
    BY DEF TypeOK
  <2>2. b \in [node : Node, models : SUBSET Model, verified : BOOLEAN]
    BY <2>1
  <2>3. stray' = stray \cup {b}
    BY <1>10 DEF TimedOut
  <2>4. stray' \subseteq [node : Node, models : SUBSET Model, verified : BOOLEAN]
    <3> HIDE DEF b
    <3> QED BY <2>2, <2>3 DEF TypeOK
  <2> QED BY <1>10, <2>4 DEF TimedOut, Clear, Goto, TypeOK, envVars, hubVars
<1>11. ASSUME NEW b \in stray, LateBeat(b) PROVE TypeOK'
  <2>1. b.node \in Node /\ b.models \in SUBSET Model
    BY DEF TypeOK
  <2>2. stray' \subseteq [node : Node, models : SUBSET Model, verified : BOOLEAN]
    BY <1>11 DEF LateBeat, TypeOK
  <2>3. roster' \in Entries /\ age' \in [Node -> 0 .. TTL + 1]
    <3>1. CASE Enter(b.node, b.models)
      BY <2>1, <3>1, TTLAssumption DEF Enter, TypeOK, Entries
    <3>2. CASE UNCHANGED hubVars
      BY <3>2 DEF hubVars, TypeOK
    <3> QED BY <1>11, <3>1, <3>2 DEF LateBeat
  <2> QED BY <1>11, <2>2, <2>3 DEF LateBeat, TypeOK, envVars
<1>12. ASSUME Tick PROVE TypeOK'
  BY <1>12, TTLAssumption DEF Tick, TypeOK
<1>13. ASSUME NEW n \in Node, NEW ms \in SUBSET Model, ChangeSlots(n, ms) PROVE TypeOK'
  BY <1>13 DEF ChangeSlots, TypeOK, hubVars
<1>14. ASSUME NEW n \in Node, RevokeGrant(n) PROVE TypeOK'
  BY <1>14 DEF RevokeGrant, TypeOK, hubVars
<1>15. ASSUME HubRestarts PROVE TypeOK'
  <2>1. stray' \subseteq [node : Node, models : SUBSET Model, verified : BOOLEAN]
    BY <1>15 DEF HubRestarts, TypeOK
  <2>2. roster' \in Entries /\ age' \in [Node -> 0 .. TTL + 1]
    BY <1>15, TTLAssumption DEF HubRestarts, Entries, NoEntries
  <2>3. pc' \in [Node -> {"idle", "posting", "verified", "entered", "reading", "apply"}]
    BY <1>15 DEF HubRestarts, TypeOK
  <2>4. sent' \in [Node -> SUBSET Model]
    BY <1>15 DEF HubRestarts, TypeOK
  <2> QED BY <1>15, <2>1, <2>2, <2>3, <2>4 DEF HubRestarts, TypeOK
<1> QED
  BY <1>1, <1>2, <1>3, <1>4, <1>5, <1>6, <1>7, <1>8, <1>9, <1>10, <1>11, <1>12,
     <1>13, <1>14, <1>15, <1>16 DEF Next, Client, Change

\* A step that adds no roster entry, no route and no checked beat, and makes
\* nobody silent, preserves the rest.
LEMMA NothingContributed ==
  ASSUME MembershipInv, TypeOK',
         \A n \in Node : grant'[n] \in Silent => grant[n] \in Silent,
         \A n \in Node : roster'[n] # None => roster[n] # None,
         \A n \in Node, m \in Model :
           /\ reply'[n][m] \in {None, reply[n][m]}
           /\ routes'[n][m] \in {None, reply[n][m], routes[n][m]},
         \A n \in Node : pc'[n] = "verified" => pc[n] = "verified" \/ grant[n] = "node",
         \A b \in stray' : b.verified => b \in stray \/ pc[b.node] = "verified"
  PROVE  OnlyContributors' /\ CheckedInv'
<1> USE DEF MembershipInv
<1>1. OnlyContributors'
  <2> SUFFICES ASSUME NEW n \in Node
               PROVE  /\ grant'[n] \in Silent => roster'[n] = None
                      /\ \A p \in Node, m \in Model :
                           n \in {reply'[p][m], routes'[p][m]} => p # n /\ grant'[n] \notin Silent
    BY DEF OnlyContributors
  <2>1. n # None
    BY NodeAssumption
  <2> QED BY <2>1 DEF OnlyContributors
<1>2. CheckedInv'
  <2>1. \A b \in stray' : b.node \in Node
    BY DEF TypeOK
  <2> QED BY <2>1 DEF CheckedInv, Silent
<1> QED BY <1>1, <1>2

\* An entry for a node that may contribute.
LEMMA EntryContributed ==
  ASSUME MembershipInv, NEW n \in Node, NEW ms, Enter(n, ms), grant[n] \notin Silent,
         UNCHANGED <<grant, reply, routes>>, roster \in Entries
  PROVE  OnlyContributors'
BY DEF MembershipInv, OnlyContributors, Enter, Entries

LEMMA ContributionStep == MembershipInv /\ [Next]_vars => MembershipInv'
<1> SUFFICES ASSUME MembershipInv, [Next]_vars PROVE MembershipInv'
  OBVIOUS
<1>0. TypeOK /\ TypeOK'
  BY TypesStep DEF MembershipInv
<1> SUFFICES OnlyContributors' /\ CheckedInv'
  BY <1>0 DEF MembershipInv
<1>1. CASE UNCHANGED vars
  BY <1>0, <1>1, NothingContributed DEF vars, envVars, hubVars
<1>2. ASSUME NEW n \in Node, Beat(n) PROVE OnlyContributors' /\ CheckedInv'
  BY <1>0, <1>2, NothingContributed DEF Beat, Goto, TypeOK, envVars, hubVars
<1>3. ASSUME NEW n \in Node, Verified(n) PROVE OnlyContributors' /\ CheckedInv'
  BY <1>0, <1>3, NothingContributed DEF Verified, Goto, TypeOK, Silent, envVars, hubVars
<1>4. ASSUME NEW n \in Node, Register(n) PROVE OnlyContributors' /\ CheckedInv'
  <2>1. grant[n] \notin Silent
    BY <1>4 DEF Register, Goto, MembershipInv, CheckedInv
  <2>2. OnlyContributors'
    BY <1>0, <1>4, <2>1, EntryContributed DEF Register, TypeOK, envVars
  <2> QED BY <1>0, <1>4, <2>2 DEF Register, Goto, TypeOK, MembershipInv, CheckedInv, envVars
<1>5. ASSUME NEW n \in Node, Forbidden(n) PROVE OnlyContributors' /\ CheckedInv'
  BY <1>0, <1>5, NothingContributed DEF Forbidden, Goto, TypeOK, envVars, hubVars
<1>6. ASSUME NEW n \in Node, Roster(n) PROVE OnlyContributors' /\ CheckedInv'
  <2>1. /\ roster' = Pruned /\ reply' = [reply EXCEPT ![n] = Routes(Pruned, n)]
        /\ UNCHANGED <<grant, routes, stray>>
    BY <1>6 DEF Roster, envVars
  <2>2. \A p \in Node : Pruned[p] # None => roster[p] # None
    BY <1>0, PrunedEntries
  <2>3. \A m \in Model : Routes(Pruned, n)[m] \in Node =>
          Routes(Pruned, n)[m] # n /\ grant[Routes(Pruned, n)[m]] \notin Silent
    BY <1>0, <2>2, PrunedEntries, RoutesLead DEF MembershipInv, OnlyContributors
  <2>4. OnlyContributors'
    BY <1>0, <2>1, <2>2, <2>3 DEF TypeOK, MembershipInv, OnlyContributors
  <2>5. CheckedInv'
    BY <1>0, <1>6, <2>1 DEF Roster, Goto, TypeOK, MembershipInv, CheckedInv
  <2> QED BY <2>4, <2>5
<1>7. ASSUME NEW n \in Node, Unauthorised(n) PROVE OnlyContributors' /\ CheckedInv'
  BY <1>0, <1>7, NothingContributed DEF Unauthorised, Goto, TypeOK, envVars, hubVars
<1>16. ASSUME NEW n \in Node, Rejected(n) PROVE OnlyContributors' /\ CheckedInv'
  BY <1>0, <1>16, NothingContributed DEF Rejected, Goto, TypeOK, envVars, hubVars
<1>8. ASSUME NEW n \in Node, Apply(n) PROVE OnlyContributors' /\ CheckedInv'
  BY <1>0, <1>8, NothingContributed DEF Apply, Goto, NoRoutes, TypeOK, envVars, hubVars
<1>9. ASSUME NEW n \in Node, Lost(n) PROVE OnlyContributors' /\ CheckedInv'
  BY <1>0, <1>9, NothingContributed DEF Lost, Goto, NoRoutes, TypeOK, envVars, hubVars
<1>10. ASSUME NEW n \in Node, TimedOut(n) PROVE OnlyContributors' /\ CheckedInv'
  BY <1>0, <1>10, NothingContributed DEF TimedOut, Goto, TypeOK, envVars, hubVars
<1>11. ASSUME NEW b \in stray, LateBeat(b) PROVE OnlyContributors' /\ CheckedInv'
  <2>1. CASE b.verified \/ grant[b.node] = "node"
    <3>1. b.node \in Node /\ grant[b.node] \notin Silent /\ Enter(b.node, b.models)
      BY <1>0, <1>11, <2>1 DEF LateBeat, TypeOK, MembershipInv, CheckedInv, Silent
    <3>2. OnlyContributors'
      BY <1>0, <1>11, <3>1, EntryContributed DEF LateBeat, TypeOK, envVars
    <3> QED BY <1>11, <3>2 DEF LateBeat, MembershipInv, CheckedInv, envVars
  <2>2. CASE ~(b.verified \/ grant[b.node] = "node")
    BY <1>0, <1>11, <2>2, NothingContributed DEF LateBeat, envVars, hubVars
  <2> QED BY <2>1, <2>2
<1>12. ASSUME Tick PROVE OnlyContributors' /\ CheckedInv'
  BY <1>0, <1>12, NothingContributed DEF Tick
<1>13. ASSUME NEW n \in Node, NEW ms \in SUBSET Model, ChangeSlots(n, ms)
       PROVE  OnlyContributors' /\ CheckedInv'
  BY <1>0, <1>13, NothingContributed DEF ChangeSlots, hubVars
<1>14. ASSUME NEW n \in Node, RevokeGrant(n) PROVE OnlyContributors' /\ CheckedInv'
  BY <1>0, <1>14, NothingContributed DEF RevokeGrant, Silent, TypeOK, hubVars
<1>15. ASSUME HubRestarts PROVE OnlyContributors' /\ CheckedInv'
  BY <1>0, <1>15, NothingContributed DEF HubRestarts, NoEntries
<1> QED
  BY <1>1, <1>2, <1>3, <1>4, <1>5, <1>6, <1>7, <1>8, <1>9, <1>10, <1>11, <1>12,
     <1>13, <1>14, <1>15, <1>16 DEF Next, Client, Change

THEOREM InvHolds == Spec => []MembershipInv
<1> QED BY InitHolds, ContributionStep, PTL DEF Spec

\* Hub-managed federation: every variable keeps its type, whatever beats are
\* lost, late or given up on and however often the hub restarts.
THEOREM MembershipTyped == Spec => []TypeOK
<1>1. MembershipInv => TypeOK
  BY DEF MembershipInv
<1> QED BY <1>1, InvHolds, PTL

\* register refuses a user token and a beat without an address, and ApplyRoster
\* skips the node itself: in no interleaving does a node with either enter a roster or anybody's routes, and
\* no node routes to itself.
THEOREM UsersOnlyRead == Spec => []OnlyContributors
<1>1. MembershipInv => OnlyContributors
  BY DEF MembershipInv
<1> QED BY <1>1, InvHolds, PTL
(***************************************************************************)
(* A hub blip does not clear the routes.  As long as slots stay put, the    *)
(* hub keeps running and beats are punctual, every beat and every entry     *)
(* carries the slots the node has, a contributor that is in somebody's      *)
(* routes is in the roster and stays there, and an answer on its way still  *)
(* names every model that the routes it replaces lead to.                   *)
(***************************************************************************)
BeatsCurrent ==
  /\ \A n \in Node : pc[n] \in {"posting", "verified"} => sent[n] = local[n]
  /\ \A b \in stray : b.models = local[b.node]

EntriesCurrent ==
  \A n \in Node : roster[n] # None => roster[n] = local[n] /\ (grant[n] = "node" => age[n] <= TTL)

RoutedIsListed ==
  \A n, p \in Node, m \in Model :
    p \in {routes[n][m], reply[n][m]} /\ grant[p] = "node" => roster[p] # None

AnswerKeeps ==
  \A n, p \in Node, m \in Model :
    pc[n] = "apply" /\ routes[n][m] = p /\ grant[p] = "node" /\ m \in local[p] => reply[n][m] # None

SteadyInv == steady => BeatsCurrent /\ EntriesCurrent /\ RoutedIsListed /\ AnswerKeeps

\* ApplyRoster routes a model whenever another entry has it.
LEMMA RoutesFind ==
  ASSUME NEW r \in Entries, NEW n \in Node, NEW p \in Node \ {n}, NEW m \in Model,
         r[p] # None, m \in r[p]
  PROVE  Routes(r, n)[m] # None
<1> DEFINE O == Offering(r, n, m)
<1>1. O # {} /\ O \subseteq Node
  BY DEF Offering
<1>2. \E x \in O : \A y \in O : x <= y
  <2> HIDE DEF O
  <2> QED BY <1>1, NodeAssumption, LeastElement
<1>3. Routes(r, n)[m] \in O
  BY <1>1, <1>2 DEF Routes
<1> QED BY <1>1, <1>3, NodeAssumption

\* A beat of the client that leaves the hub alone.
LEMMA ClientSteady ==
  ASSUME MembershipInv, SteadyInv, UNCHANGED <<envVars, hubVars>>,
         \A n \in Node : pc'[n] \in {"posting", "verified"} =>
           \/ sent'[n] = local[n]
           \/ sent'[n] = sent[n] /\ pc[n] \in {"posting", "verified"},
         \A b \in stray' : b \in stray \/ (steady => b.models = local[b.node]),
         \A n \in Node, m \in Model :
           /\ reply'[n][m] \in {None, reply[n][m]}
           /\ routes'[n][m] \in {reply[n][m], routes[n][m]},
         \A n \in Node : pc'[n] = "apply" =>
           pc[n] = "apply" /\ reply'[n] = reply[n] /\ routes'[n] = routes[n]
  PROVE  SteadyInv'
<1> SUFFICES ASSUME steady
             PROVE  BeatsCurrent' /\ EntriesCurrent' /\ RoutedIsListed' /\ AnswerKeeps'
  BY DEF SteadyInv, envVars
<1>0. BeatsCurrent /\ EntriesCurrent /\ RoutedIsListed /\ AnswerKeeps
  BY DEF SteadyInv
<1>1. BeatsCurrent'
  BY <1>0 DEF BeatsCurrent, envVars
<1>2. EntriesCurrent'
  BY <1>0 DEF EntriesCurrent, envVars, hubVars
<1>3. RoutedIsListed'
  <2> SUFFICES ASSUME NEW n \in Node, NEW p \in Node, NEW m \in Model,
                      p \in {routes'[n][m], reply'[n][m]}, grant[p] = "node"
               PROVE  roster[p] # None
    BY DEF RoutedIsListed, envVars, hubVars
  <2>1. p # None
    BY NodeAssumption
  <2>2. p \in {routes[n][m], reply[n][m]}
    BY <2>1
  <2> QED BY <1>0, <2>2 DEF RoutedIsListed
<1>4. AnswerKeeps'
  BY <1>0 DEF AnswerKeeps, envVars
<1> QED BY <1>1, <1>2, <1>3, <1>4

\* An entry with the slots its node has.
LEMMA EntrySteady ==
  ASSUME MembershipInv, SteadyInv, NEW n \in Node, NEW ms \in SUBSET Model, Enter(n, ms),
         steady => ms = local[n],
         UNCHANGED <<envVars, reply, routes>>,
         \A q \in Node : pc'[q] \in {"posting", "verified"} => pc'[q] = pc[q] /\ sent'[q] = sent[q],
         \A q \in Node : pc'[q] = "apply" => pc[q] = "apply",
         stray' \subseteq stray
  PROVE  SteadyInv'
<1> SUFFICES ASSUME steady
             PROVE  BeatsCurrent' /\ EntriesCurrent' /\ RoutedIsListed' /\ AnswerKeeps'
  BY DEF SteadyInv, envVars
<1>0. BeatsCurrent /\ EntriesCurrent /\ RoutedIsListed /\ AnswerKeeps /\ TypeOK
  BY DEF SteadyInv, MembershipInv
<1>1. /\ roster'[n] = ms /\ age'[n] = 0
      /\ \A q \in Node \ {n} : roster'[q] = roster[q] /\ age'[q] = age[q]
      /\ UNCHANGED <<local, grant, reply, routes>>
  BY <1>0 DEF Enter, TypeOK, Entries, envVars
<1>2. BeatsCurrent'
  BY <1>0, <1>1 DEF BeatsCurrent
<1>3. EntriesCurrent'
  BY <1>0, <1>1, TTLAssumption DEF EntriesCurrent
<1>4. RoutedIsListed'
  <2>1. roster'[n] # None
    BY <1>1, ModelAssumption
  <2> QED BY <1>0, <1>1, <2>1 DEF RoutedIsListed
<1>5. AnswerKeeps'
  BY <1>0, <1>1 DEF AnswerKeeps
<1> QED BY <1>2, <1>3, <1>4, <1>5
\* The answer is built from a roster that has every contributor in somebody's
\* routes, since none of them is past the TTL.
LEMMA RosterSteady ==
  ASSUME MembershipInv, SteadyInv, NEW n \in Node, Roster(n)
  PROVE  SteadyInv'
<1> SUFFICES ASSUME steady
             PROVE  BeatsCurrent' /\ EntriesCurrent' /\ RoutedIsListed' /\ AnswerKeeps'
  BY DEF SteadyInv, Roster, envVars
<1>0. /\ BeatsCurrent /\ EntriesCurrent /\ RoutedIsListed /\ AnswerKeeps
      /\ TypeOK /\ OnlyContributors
  BY DEF SteadyInv, MembershipInv
<1>1. /\ roster' = Pruned /\ reply' = [reply EXCEPT ![n] = Routes(Pruned, n)]
      /\ pc' = [pc EXCEPT ![n] = "apply"]
      /\ UNCHANGED <<local, grant, sent, stray, routes>>
      /\ age' = [p \in Node |-> IF Pruned[p] = None THEN 0 ELSE age[p]]
  BY DEF Roster, Goto, envVars
<1>2. ASSUME NEW p \in Node
      PROVE  /\ Pruned[p] # None => Pruned[p] = roster[p]
             /\ grant[p] = "node" => Pruned[p] = roster[p]
  BY <1>0, TTLAssumption DEF Pruned, EntriesCurrent, TypeOK
<1>3. Pruned \in Entries
  BY <1>0, PrunedEntries
<1>4. BeatsCurrent'
  BY <1>0, <1>1 DEF BeatsCurrent, TypeOK
<1>5. EntriesCurrent'
  BY <1>0, <1>1, <1>2 DEF EntriesCurrent, TypeOK
<1>6. RoutedIsListed'
  <2> SUFFICES ASSUME NEW q \in Node, NEW p \in Node, NEW m \in Model,
                      p \in {routes[q][m], reply'[q][m]}, grant[p] = "node"
               PROVE  Pruned[p] # None
    BY <1>1 DEF RoutedIsListed
  <2>1. CASE p \in {routes[q][m], reply[q][m]}
    BY <1>0, <1>2, <2>1 DEF RoutedIsListed
  <2>2. CASE q = n /\ p = Routes(Pruned, n)[m]
    BY <1>3, <2>2, RoutesLead
  <2> QED BY <1>0, <1>1, <2>1, <2>2 DEF TypeOK
<1>7. AnswerKeeps'
  <2> SUFFICES ASSUME NEW q \in Node, NEW p \in Node, NEW m \in Model,
                      pc'[q] = "apply", routes[q][m] = p, grant[p] = "node", m \in local[p]
               PROVE  reply'[q][m] # None
    BY <1>1 DEF AnswerKeeps
  <2>1. CASE q = n
    <3>1. p # n /\ roster[p] # None
      BY <1>0, <2>1 DEF OnlyContributors, RoutedIsListed
    <3>2. Pruned[p] # None /\ m \in Pruned[p]
      BY <1>0, <1>2, <3>1 DEF EntriesCurrent
    <3>3. Routes(Pruned, n)[m] # None
      BY <1>3, <3>1, <3>2, RoutesFind
    <3> QED BY <1>0, <1>1, <2>1, <3>3 DEF TypeOK
  <2>2. CASE q # n
    BY <1>0, <1>1, <2>2 DEF AnswerKeeps, TypeOK
  <2> QED BY <2>1, <2>2
<1> QED BY <1>4, <1>5, <1>6, <1>7

LEMMA SteadyStep == MembershipInv /\ SteadyInv /\ [Next]_vars => SteadyInv'
<1> SUFFICES ASSUME MembershipInv, SteadyInv, [Next]_vars PROVE SteadyInv'
  OBVIOUS
<1>0. TypeOK
  BY DEF MembershipInv
<1>1. CASE UNCHANGED vars
  BY <1>1, <1>0, ClientSteady DEF vars
<1>2. ASSUME NEW n \in Node, Beat(n) PROVE SteadyInv'
  BY <1>0, <1>2, ClientSteady DEF Beat, Goto, TypeOK
<1>3. ASSUME NEW n \in Node, Verified(n) PROVE SteadyInv'
  BY <1>0, <1>3, ClientSteady DEF Verified, Goto, TypeOK
<1>4. ASSUME NEW n \in Node, Register(n) PROVE SteadyInv'
  <2>1. sent[n] \in SUBSET Model /\ (steady => sent[n] = local[n])
    BY <1>0, <1>4 DEF Register, Goto, TypeOK, SteadyInv, BeatsCurrent
  <2>2. \A q \in Node : /\ pc'[q] \in {"posting", "verified"} => pc'[q] = pc[q] /\ sent'[q] = sent[q]
                        /\ pc'[q] = "apply" => pc[q] = "apply"
    BY <1>0, <1>4 DEF Register, Goto, Clear, TypeOK
  <2> QED BY <1>4, <2>1, <2>2, EntrySteady DEF Register
<1>5. ASSUME NEW n \in Node, Forbidden(n) PROVE SteadyInv'
  BY <1>0, <1>5, ClientSteady DEF Forbidden, Goto, Clear, TypeOK
<1>6. ASSUME NEW n \in Node, Unauthorised(n) PROVE SteadyInv'
  BY <1>0, <1>6, ClientSteady DEF Unauthorised, Goto, Clear, TypeOK
<1>14. ASSUME NEW n \in Node, Rejected(n) PROVE SteadyInv'
  BY <1>0, <1>14, ClientSteady DEF Rejected, Goto, Clear, TypeOK
<1>7. ASSUME NEW n \in Node, Apply(n) PROVE SteadyInv'
  BY <1>0, <1>7, ClientSteady DEF Apply, Goto, NoRoutes, TypeOK
<1>8. ASSUME NEW n \in Node, Lost(n) PROVE SteadyInv'
  BY <1>0, <1>8, ClientSteady DEF Lost, Goto, Clear, NoRoutes, TypeOK
<1>9. ASSUME NEW n \in Node, TimedOut(n) PROVE SteadyInv'
  <2>1. \A b \in stray' : b \in stray \/ (steady => b.models = local[b.node])
    BY <1>9 DEF TimedOut, Goto, SteadyInv, BeatsCurrent
  <2>2. \A q \in Node : pc'[q] \in {"posting", "verified"} =>
          sent'[q] = sent[q] /\ pc[q] \in {"posting", "verified"}
    BY <1>0, <1>9 DEF TimedOut, Goto, Clear, TypeOK
  <2>3. \A q \in Node : pc'[q] = "apply" => pc[q] = "apply"
    BY <1>0, <1>9 DEF TimedOut, Goto, TypeOK
  <2> QED BY <1>9, <2>1, <2>2, <2>3, ClientSteady DEF TimedOut
<1>10. ASSUME NEW b \in stray, LateBeat(b) PROVE SteadyInv'
  <2>1. b.node \in Node /\ b.models \in SUBSET Model /\ (steady => b.models = local[b.node])
    BY <1>0 DEF TypeOK, SteadyInv, BeatsCurrent
  <2>2. CASE Enter(b.node, b.models)
    BY <1>10, <2>1, <2>2, EntrySteady DEF LateBeat
  <2>3. CASE UNCHANGED hubVars
    BY <1>10, <2>3, ClientSteady DEF LateBeat
  <2> QED BY <1>10, <2>2, <2>3 DEF LateBeat
<1>11. ASSUME Tick PROVE SteadyInv'
  <2> SUFFICES ASSUME steady, Punctual
               PROVE  BeatsCurrent' /\ EntriesCurrent' /\ RoutedIsListed' /\ AnswerKeeps'
    BY <1>11 DEF Tick, SteadyInv
  <2>1. BeatsCurrent' /\ RoutedIsListed' /\ AnswerKeeps'
    BY <1>11 DEF Tick, SteadyInv, BeatsCurrent, RoutedIsListed, AnswerKeeps
  <2>2. EntriesCurrent'
    BY <1>0, <1>11, TTLAssumption DEF Tick, SteadyInv, EntriesCurrent, Punctual, TypeOK
  <2> QED BY <2>1, <2>2
<1>12. ASSUME NEW n \in Node, RevokeGrant(n) PROVE SteadyInv'
  <2>1. /\ \A p \in Node : grant'[p] = "node" => grant[p] = "node"
        /\ UNCHANGED <<local, steady, pc, sent, stray, roster, age, reply, routes>>
    BY <1>0, <1>12 DEF RevokeGrant, TypeOK, hubVars
  <2> QED BY <2>1 DEF SteadyInv, BeatsCurrent, EntriesCurrent, RoutedIsListed, AnswerKeeps
<1>13. ASSUME HubRestarts \/ \E n \in Node, ms \in SUBSET Model : ChangeSlots(n, ms) PROVE SteadyInv'
  BY <1>13 DEF HubRestarts, ChangeSlots, SteadyInv
<1> QED
  BY <1>1, <1>2, <1>3, <1>4, <1>5, <1>6, <1>7, <1>8, <1>9, <1>10, <1>11, <1>12,
     <1>13, <1>14, RosterSteady DEF Next, Client, Change

LEMMA SteadyHolds == Spec => []SteadyInv
<1>1. Init => SteadyInv
  BY NodeAssumption DEF Init, SteadyInv, BeatsCurrent, EntriesCurrent, RoutedIsListed, AnswerKeeps,
                        NoEntries, NoRoutes
<1> QED BY <1>1, InvHolds, SteadyStep, PTL DEF Spec

\* "A hub blip does NOT clear the last-known roster": for any number of nodes,
\* whatever beats and answers are lost, late or given up on and whichever other
\* tokens are revoked, a model that its peer still contributes stays routed
\* (KeepsRoutes).
THEOREM BlipKeepsRoutes == Spec => KeepsRoutes
<1> DEFINE A == \A n \in Node, m \in Model :
                  /\ steady /\ routes[n][m] # None
                  /\ grant'[routes[n][m]] = "node" /\ m \in local'[routes[n][m]]
                  => routes'[n][m] # None
<1>1. MembershipInv /\ SteadyInv /\ [Next]_vars => A
  <2> SUFFICES ASSUME MembershipInv, SteadyInv, [Next]_vars, NEW n \in Node, NEW m \in Model,
                      steady, routes[n][m] # None,
                      grant'[routes[n][m]] = "node", m \in local'[routes[n][m]]
               PROVE  routes'[n][m] # None
    BY DEF A
  <2>0. TypeOK
    BY DEF MembershipInv
  <2>1. CASE \E q \in Node : Apply(q)
    <3>1. PICK q \in Node : Apply(q)
      BY <2>1
    <3>2. /\ pc[q] = "apply" /\ local' = local /\ grant' = grant
          /\ routes' = [routes EXCEPT ![q] = reply[q]]
      BY <3>1 DEF Apply, Goto, envVars
    <3>3. routes[n][m] \in Node
      BY <2>0 DEF TypeOK
    <3>4. q = n => reply[n][m] # None
      BY <3>2, <3>3 DEF SteadyInv, AnswerKeeps
    <3> QED BY <2>0, <3>2, <3>4 DEF TypeOK
  <2>2. CASE ~\E q \in Node : Apply(q)
    <3>1. routes' = routes
      BY <2>2 DEF Next, Client, Beat, Verified, Register, Forbidden, Roster, Unauthorised, Rejected,
                  Lost, TimedOut, LateBeat, Tick, Change, ChangeSlots, RevokeGrant, HubRestarts, vars
    <3> QED BY <3>1
  <2> QED BY <2>1, <2>2
<1> HIDE DEF A
<1>2. Spec => [][A]_vars
  BY <1>1, InvHolds, SteadyHolds, PTL DEF Spec
<1> QED BY <1>2 DEF KeepsRoutes, A
=============================================================================
