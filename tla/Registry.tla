------------------------------ MODULE Registry ------------------------------
(***************************************************************************)
(* The rig's table of slots (internal/rig/rig.go: Rig.instances and         *)
(* Rig.byName, both guarded by r.mu) and the operations the router's        *)
(* handlers run on it concurrently: Load, Unload, UnloadAll, ApplyProfile   *)
(* and Ensure, plus the StopAll of the signal handler.  Some slots are       *)
(* external: a server that the rig did not launch and only polls.           *)
(*                                                                         *)
(* Only the critical sections are atomic.  Every operation is, in the code, *)
(* a look at the table followed by a list of Unloads and then a list of     *)
(* Loads, each of which locks r.mu again; a client therefore carries the    *)
(* names it still has to unload and the slots it still has to load.         *)
(* What stopping an instance does to its process is module Supervisor; here *)
(* it is the moment in.stopping becomes true.                              *)
(***************************************************************************)
EXTENDS Integers, Sequences, FiniteSets

CONSTANTS
  Client,     \* concurrent HTTP requests
  Inst,       \* identities for *Instance values, numbers
  None,       \* no instance (a nil pointer, a missing map entry)
  Name,       \* slot names, lower-cased as byName's keys are
  Slot,       \* the config.Slot values that requests and profiles carry
  MatchesID,  \* <<m, h>>: the ID of the model that m names equals or contains h
  Fragile,    \* the slots that may not resolve when they are loaded: no single
              \* model matches, the backend is unknown, the URL does not parse
  Profile,    \* cfg.Profiles: a function to sequences of slots
  Boot,       \* cfg.Slots, which New puts in the table
  BasePort,   \* cfg.BasePort
  Requests    \* the kinds of request that arrive

ASSUME SlotAssumption ==
  \A s \in Slot : /\ s.name \in Name /\ s.gpus \in SUBSET Nat
                  /\ s.port \in Nat /\ s.ext \in BOOLEAN
ASSUME InstAssumption == Inst \subseteq Nat /\ None \notin Inst /\ None \notin Slot
ASSUME FragileAssumption == Fragile \subseteq Slot
ASSUME ProfileAssumption == \A n \in DOMAIN Profile : Profile[n] \in Seq(Slot)
\* op holds the profile's name while ApplyProfile runs: not another operation's.
ASSUME KindAssumption == DOMAIN Profile \cap {"load", "unload", "unloadAll", "ensure"} = {}
ASSUME BasePortAssumption == BasePort \in Nat \ {0}

\* config.validate and New: the configured slots have names of their own, and
\* applyDefaults has given each that the rig launches a port.
ASSUME BootAssumption ==
  /\ Boot \in Seq(Slot)
  /\ \A j, k \in 1 .. Len(Boot) : Boot[j].name = Boot[k].name => j = k
  /\ \A j \in 1 .. Len(Boot) : j \in Inst /\ (Boot[j].ext \/ Boot[j].port # 0)

VARIABLES
  instances,  \* r.instances
  byName,     \* r.byName; None where the key is absent
  slot,       \* in.Slot of every instance ever created
  port,       \* in.Port
  stopping,   \* in.stopping
  healthy,    \* in.state = Healthy, as the supervisor reports it
  pc,         \* where a client is in its operation
  op,         \* which operation it runs
  unloads,    \* names it has still to Unload
  loads,      \* slots it has still to Load
  held,       \* the instance its Unload has removed and not yet stopped
  alone,      \* history: no other request was under way since this one began
  cap,        \* cap(r.instances)
  shutdown,   \* StopAll's range loop: not begun, running, over
  next,       \* the index the loop reads next
  view,       \* the array that the loop ranges over
  shared,     \* is that array still the one r.instances uses?
  up,         \* the external slots whose upstream answers /health with 200
  poll,       \* where the goroutine superviseExternal of an instance is
  answer,     \* its st
  last        \* its last: the answer it reported last

tableVars  == <<instances, byName, slot, port, cap>>
clientVars == <<pc, op, unloads, loads, held, alone>>
loopVars   == <<shutdown, next>>
pollVars   == <<up, poll, answer, last>>
vars == <<tableVars, stopping, healthy, clientVars, loopVars, view, shared, pollVars>>

-----------------------------------------------------------------------------
Listed == {instances[j] : j \in 1 .. Len(instances)}

SlotNames(list) == [j \in 1 .. Len(list) |-> slot[list[j]].name]

Without(list, k) ==
  [j \in 1 .. Len(list) - 1 |-> IF j < k THEN list[j] ELSE list[j + 1]]

\* An identity that no table, client or loop refers to; the least one is used.
Fresh(i) ==
  /\ i \notin Listed
  /\ \A c \in Client : held[c] # i
  /\ \A j \in 1 .. Len(view) : view[j] # i
  /\ poll[i] = "off"

New(i) == Fresh(i) /\ \A j \in Inst : Fresh(j) => i <= j

\* Mutant of NextPort: one port per listed instance, gaps not looked at.
NextPortByCount == BasePort + Len(instances)

\* nextPortLocked: the first port from basePort on that no listed instance has
NextPort ==
  CHOOSE p \in BasePort .. BasePort + Len(instances) :
    /\ \A i \in Listed : port[i] # p
    /\ \A q \in BasePort .. p - 1 : \E i \in Listed : port[i] = q

Loaded(n) == n \in Name /\ byName[n] # None

\* The ID of an external slot's model is its alias, which is its name too.
ModelOf(i) == IF slot[i].ext THEN slot[i].name ELSE slot[i].model

\* Resolve: the slot of that name, else the first whose model ID matches
ByModel(h) == {j \in 1 .. Len(instances) : <<ModelOf(instances[j]), h>> \in MatchesID}

Resolve(h) ==
  IF Loaded(h) THEN byName[h]
  ELSE IF ByModel(h) = {} THEN None
  ELSE instances[CHOOSE j \in ByModel(h) : \A k \in ByModel(h) : j <= k]

\* Go doubles a small slice when it is full: after n appends to an empty one the
\* capacity is the least power of two that holds them.
CapAfter(n) == IF n = 0 THEN {0} ELSE {k \in n .. 2 * n - 1 : \E e \in 0 .. n : k = 2^e}

-----------------------------------------------------------------------------
\* New, then Start
Init ==
  LET started == 1 .. Len(Boot) IN
  /\ instances = [j \in started |-> j]
  /\ byName = [n \in Name |-> IF \E j \in started : Boot[j].name = n
                              THEN CHOOSE j \in started : Boot[j].name = n ELSE None]
  /\ slot = [i \in Inst |-> IF i \in started THEN Boot[i] ELSE None]
  /\ port = [i \in Inst |-> IF i \in started THEN Boot[i].port ELSE 0]
  /\ cap \in CapAfter(Len(Boot))
  /\ stopping = [i \in Inst |-> FALSE]
  /\ healthy = [i \in Inst |-> FALSE]
  /\ pc = [c \in Client |-> "idle"]
  /\ op = [c \in Client |-> None]
  /\ unloads = [c \in Client |-> <<>>]
  /\ loads = [c \in Client |-> <<>>]
  /\ held = [c \in Client |-> None]
  /\ alone = [c \in Client |-> FALSE]
  /\ shutdown = "idle" /\ next = 1 /\ view = <<>> /\ shared = FALSE
  /\ up = {}
  /\ poll = [i \in Inst |-> IF i \in started /\ Boot[i].ext THEN "wait" ELSE "off"]
  /\ answer = [i \in Inst |-> "unknown"]
  /\ last = [i \in Inst |-> "unknown"]

(***************************************************************************)
(* Operations begin by deciding what to unload and what to load.           *)
(***************************************************************************)
\* Where a client is when names us are left to unload and slots ls to load.
Stage(us, ls) == IF us # <<>> THEN "unload" ELSE IF ls # <<>> THEN "load" ELSE "idle"

\* Client c goes on with operation o, which has those names and slots left; with
\* none left it returns.
Proceed(c, o, us, ls) ==
  /\ unloads' = [unloads EXCEPT ![c] = us]
  /\ loads'   = [loads EXCEPT ![c] = ls]
  /\ pc'      = [pc EXCEPT ![c] = Stage(us, ls)]
  /\ op'      = [op EXCEPT ![c] = IF Stage(us, ls) = "idle" THEN None ELSE o]

Plan(c, o, us, ls) ==
  /\ Proceed(c, o, us, ls)
  /\ UNCHANGED <<tableVars, stopping, healthy, held, loopVars, view, shared, pollVars>>

\* The request of c arrives, among those that are under way.
Arrives(c) ==
  /\ pc[c] = "idle"
  /\ alone' = [d \in Client |-> d = c /\ \A e \in Client : pc[e] = "idle"]

Begin(c, o, us, ls) == Arrives(c) /\ Plan(c, o, us, ls)

\* Mutant of ApplyProfile: the old layout is left in place.
ApplyProfileOnTop(c, n) == Begin(c, n, <<>>, Profile[n])

Load(c, s)         == Begin(c, "load", <<>>, <<s>>)
Unload(c, n)       == Begin(c, "unload", <<n>>, <<>>)
UnloadAll(c)       == Begin(c, "unloadAll", SlotNames(instances), <<>>)
ApplyProfile(c, n) == Begin(c, n, SlotNames(instances), Profile[n])

\* Ensure, first look: nothing to do if a healthy slot serves the model
Ensure(c, s) ==
  /\ Arrives(c)
  /\ LET in == Resolve(s.model) IN ~(in # None /\ healthy[in])
  /\ op'    = [op EXCEPT ![c] = "ensure"]
  /\ loads' = [loads EXCEPT ![c] = <<s>>]
  /\ pc'    = [pc EXCEPT ![c] = "scan"]
  /\ UNCHANGED <<tableVars, stopping, healthy, unloads, held, loopVars, view, shared, pollVars>>

\* Ensure, second look, under r.mu again: the slots with a GPU in common
Overlaps(i, s) == slot[i].gpus \cap s.gpus # {}

Overlapping(s) == {j \in 1 .. Len(instances) : Overlaps(instances[j], s)}

\* A finite set of numbers in increasing order.
InOrder(S) ==
  {f \in [1 .. Cardinality(S) -> S] : \A j, k \in 1 .. Cardinality(S) : j < k => f[j] < f[k]}

\* Mutant of EnsureScan: only the first overlapping slot is evicted.
EnsureScanFirst(c) ==
  /\ pc[c] = "scan"
  /\ LET evict == SelectSeq(instances, LAMBDA i : Overlaps(i, loads[c][1]))
     IN  Plan(c, "ensure", IF evict = <<>> THEN <<>> ELSE SlotNames(<<Head(evict)>>), loads[c])
  /\ UNCHANGED alone

EnsureScan(c) ==
  /\ pc[c] = "scan"
  /\ \E evict \in InOrder(Overlapping(Head(loads[c]))) :
       Plan(c, "ensure", [j \in 1 .. Len(evict) |-> slot[instances[evict[j]]].name], loads[c])
  /\ UNCHANGED alone

(***************************************************************************)
(* Unload(name).                                                           *)
(***************************************************************************)
\* Mutant of Remove: the name is not deleted.
RemoveKeepsName(c) ==
  /\ pc[c] = "unload" /\ Loaded(Head(unloads[c]))
  /\ held' = [held EXCEPT ![c] = byName[Head(unloads[c])]]
  /\ instances' = SelectSeq(instances, LAMBDA i : i # byName[Head(unloads[c])])
  /\ unloads' = [unloads EXCEPT ![c] = Tail(@)]
  /\ pc' = [pc EXCEPT ![c] = "stop"]
  /\ UNCHANGED <<byName, slot, port, cap, stopping, healthy, op, loads, alone, loopVars, view, shared, pollVars>>

\* Mutant of Remove: the instance is forgotten instead of being stopped.
RemoveUnstopped(c) ==
  /\ pc[c] = "unload" /\ Loaded(Head(unloads[c]))
  /\ byName' = [byName EXCEPT ![Head(unloads[c])] = None]
  /\ instances' = SelectSeq(instances, LAMBDA i : i # byName[Head(unloads[c])])
  /\ Proceed(c, op[c], Tail(unloads[c]), loads[c])
  /\ UNCHANGED <<slot, port, cap, stopping, healthy, held, alone, loopVars, view, shared, pollVars>>

\* r.mu: delete(r.byName, key) and close the gap in r.instances, in place.
\* A StopAll that ranges over the same array sees the elements move.
Remove(c) ==
  /\ pc[c] = "unload"
  /\ LET n  == Head(unloads[c])
         in == byName[n]
     IN  /\ Loaded(n)
         /\ byName' = [byName EXCEPT ![n] = None]
         /\ held' = [held EXCEPT ![c] = in]
         /\ \E k \in 1 .. Len(instances) :
              /\ instances[k] = in
              /\ instances' = Without(instances, k)
              /\ view' = IF ~shared THEN view
                         ELSE [j \in 1 .. Len(view) |->
                                 IF k <= j /\ j < Len(instances)
                                 THEN instances[j + 1] ELSE view[j]]
  /\ unloads' = [unloads EXCEPT ![c] = Tail(@)]
  /\ pc' = [pc EXCEPT ![c] = "stop"]
  /\ UNCHANGED <<slot, port, cap, stopping, healthy, op, loads, alone, loopVars, shared, pollVars>>

\* Mutant of NotLoaded: the error ends the loop half-way, whoever runs it.
NotLoadedAborts(c) ==
  /\ pc[c] = "unload"
  /\ ~Loaded(Head(unloads[c]))
  /\ pc' = [pc EXCEPT ![c] = "failed"]
  /\ UNCHANGED <<tableVars, stopping, healthy, op, unloads, loads, held, alone, loopVars, view, shared, pollVars>>

\* "no slot loaded" is an answer to the client of /api/unload; the loops of
\* UnloadAll, ApplyProfile and Ensure go on to the next name.
NotLoaded(c) ==
  /\ pc[c] = "unload"
  /\ ~Loaded(Head(unloads[c]))
  /\ Proceed(c, op[c], Tail(unloads[c]), loads[c])
  /\ UNCHANGED <<tableVars, stopping, healthy, held, alone, loopVars, view, shared, pollVars>>

\* Mutant of StopHeld: it goes round until the launch has made the slot healthy.
StopHeldWhenUp(c) ==
  /\ pc[c] = "stop"
  /\ \/ /\ ~healthy[held[c]]
        /\ UNCHANGED vars
     \/ /\ healthy[held[c]]
        /\ stopping' = [stopping EXCEPT ![held[c]] = TRUE]
        /\ healthy'  = [healthy EXCEPT ![held[c]] = FALSE]
        /\ held' = [held EXCEPT ![c] = None]
        /\ Proceed(c, op[c], unloads[c], loads[c])
        /\ UNCHANGED <<tableVars, alone, loopVars, view, shared, pollVars>>

\* in.stopping = true, kill, in.set(Stopped), after r.mu is released
StopHeld(c) ==
  /\ pc[c] = "stop"
  /\ stopping' = [stopping EXCEPT ![held[c]] = TRUE]
  /\ healthy'  = [healthy EXCEPT ![held[c]] = FALSE]
  /\ held' = [held EXCEPT ![c] = None]
  /\ Proceed(c, op[c], unloads[c], loads[c])
  /\ UNCHANGED <<tableVars, alone, loopVars, view, shared, pollVars>>

(***************************************************************************)
(* Load(slot).                                                             *)
(***************************************************************************)
LoadNext(c) ==
  /\ Proceed(c, op[c], <<>>, Tail(loads[c]))
  /\ UNCHANGED <<held, alone, loopVars, up>>

\* r.mu: the name is free, give the slot a port, append and publish it.  An
\* external slot has the port of its URL, and its poller starts.
\* append writes into the old array while its capacity lasts.
Insert(c) ==
  /\ pc[c] = "load"
  /\ LET s == Head(loads[c]) IN
     /\ byName[s.name] = None
     /\ \E i \in Inst :
          /\ New(i)
          /\ instances' = Append(instances, i)
          /\ byName' = [byName EXCEPT ![s.name] = i]
          /\ slot' = [slot EXCEPT ![i] = s]
          /\ port' = [port EXCEPT ![i] = IF s.port = 0 /\ ~s.ext THEN NextPort ELSE s.port]
          /\ stopping' = [stopping EXCEPT ![i] = FALSE]
          /\ healthy' = [healthy EXCEPT ![i] = FALSE]
          /\ poll' = [poll EXCEPT ![i] = IF s.ext THEN "wait" ELSE "off"]
          /\ UNCHANGED <<answer, last>>
          /\ IF Len(instances) < cap
             THEN /\ cap' = cap /\ shared' = shared
                  /\ view' = IF shared /\ Len(instances) < Len(view)
                             THEN [view EXCEPT ![Len(instances) + 1] = i] ELSE view
             ELSE /\ cap' = (IF cap = 0 THEN 1 ELSE 2 * cap) /\ shared' = FALSE
                  /\ view' = view
  /\ LoadNext(c)

\* Mutant of LoadFails: the first refused slot ends the loop of ApplyProfile.
LoadFailsAborts(c) ==
  /\ pc[c] = "load"
  /\ byName[Head(loads[c]).name] # None \/ Head(loads[c]) \in Fragile
  /\ Proceed(c, op[c], <<>>, <<>>)
  /\ UNCHANGED <<tableVars, stopping, healthy, held, alone, loopVars, view, shared, pollVars>>

\* The slot is refused: its name is taken, or it does not resolve.  ApplyProfile
\* notes the error and goes on to its next slot.
LoadFails(c) ==
  /\ pc[c] = "load"
  /\ byName[Head(loads[c]).name] # None \/ Head(loads[c]) \in Fragile
  /\ LoadNext(c)
  /\ UNCHANGED <<tableVars, stopping, healthy, view, shared, poll, answer, last>>

(***************************************************************************)
(* StopAll: for _, in := range r.instances, without r.mu.                  *)
(***************************************************************************)
StopAllBegins ==
  /\ shutdown = "idle"
  /\ shutdown' = "running"
  /\ view' = instances /\ shared' = TRUE /\ next' = 1
  /\ UNCHANGED <<tableVars, stopping, healthy, clientVars, pollVars>>

StopAllNext ==
  /\ shutdown = "running" /\ next <= Len(view)
  /\ stopping' = [stopping EXCEPT ![view[next]] = TRUE]
  /\ healthy'  = [healthy EXCEPT ![view[next]] = FALSE]
  /\ next' = next + 1
  /\ UNCHANGED <<tableVars, clientVars, shutdown, view, shared, pollVars>>

StopAllEnds ==
  /\ shutdown = "running" /\ next > Len(view)
  /\ shutdown' = "over"
  /\ view' = <<>> /\ shared' = FALSE /\ next' = 1
  /\ UNCHANGED <<tableVars, stopping, healthy, clientVars, pollVars>>

\* A supervisor reports a change of health (module Supervisor), perhaps after
\* the slot was stopped.
HealthChanges(i) ==
  /\ i \in Listed /\ ~slot[i].ext
  /\ healthy' = [healthy EXCEPT ![i] = ~@]
  /\ UNCHANGED <<tableVars, stopping, clientVars, loopVars, view, shared, pollVars>>

(***************************************************************************)
(* superviseExternal: the goroutine of an external slot.                   *)
(***************************************************************************)
PollGoto(i, label) == poll' = [poll EXCEPT ![i] = label]

PollFrame == UNCHANGED <<tableVars, stopping, clientVars, loopVars, view, shared, up>>

\* Mutant of PollLoop: nothing ends the poller.
PollLoopForever(i) ==
  /\ poll[i] = "wait"
  /\ PollGoto(i, "asked")
  /\ PollFrame /\ UNCHANGED <<healthy, answer, last>>

\* The sleep between two polls, and the test of in.stopping that it and the loop
\* begin with; a goroutine that returns takes its variables with it.
PollLoop(i) ==
  /\ poll[i] = "wait"
  /\ PollFrame /\ UNCHANGED healthy
  /\ IF stopping[i]
     THEN /\ PollGoto(i, "off")
          /\ answer' = [answer EXCEPT ![i] = "unknown"]
          /\ last' = [last EXCEPT ![i] = "unknown"]
     ELSE PollGoto(i, "asked") /\ UNCHANGED <<answer, last>>

\* GET /health answers: 200 is healthy, any other status crashed.
PollAnswered(i) ==
  /\ poll[i] = "asked"
  /\ answer' = [answer EXCEPT ![i] = IF slot[i] \in up THEN "healthy" ELSE "crashed"]
  /\ PollGoto(i, "report")
  /\ PollFrame /\ UNCHANGED <<healthy, last>>

\* The client's 3 s run out, or the connection breaks.
PollLost(i) ==
  /\ poll[i] = "asked"
  /\ answer' = [answer EXCEPT ![i] = "crashed"]
  /\ PollGoto(i, "report")
  /\ PollFrame /\ UNCHANGED <<healthy, last>>

\* Mutant of PollReport: only the first answer is shown.
PollReportOnce(i) ==
  /\ poll[i] = "report"
  /\ IF last[i] = "unknown"
     THEN /\ healthy' = [healthy EXCEPT ![i] = answer[i] = "healthy"]
          /\ last' = [last EXCEPT ![i] = answer[i]]
     ELSE UNCHANGED <<healthy, last>>
  /\ answer' = [answer EXCEPT ![i] = "unknown"]
  /\ PollGoto(i, "wait") /\ PollFrame

\* Mutant of PollReport: the memory is updated, the state only on recovery.
PollReportRecovery(i) ==
  /\ poll[i] = "report"
  /\ healthy' = [healthy EXCEPT ![i] = @ \/ answer[i] = "healthy"]
  /\ last' = [last EXCEPT ![i] = answer[i]]
  /\ answer' = [answer EXCEPT ![i] = "unknown"]
  /\ PollGoto(i, "wait") /\ PollFrame

\* An answer that differs from the last one is shown; in.stopping is not looked
\* at again.
PollReport(i) ==
  /\ poll[i] = "report"
  /\ IF answer[i] # last[i]
     THEN /\ healthy' = [healthy EXCEPT ![i] = answer[i] = "healthy"]
          /\ last' = [last EXCEPT ![i] = answer[i]]
     ELSE UNCHANGED <<healthy, last>>
  /\ answer' = [answer EXCEPT ![i] = "unknown"]
  /\ PollGoto(i, "wait") /\ PollFrame

Poll(i) == PollLoop(i) \/ PollAnswered(i) \/ PollLost(i) \/ PollReport(i)

\* Whoever runs the upstream starts or stops it.
UpstreamChanges(s) ==
  /\ s.ext
  /\ up' = IF s \in up THEN up \ {s} ELSE up \cup {s}
  /\ UNCHANGED <<tableVars, stopping, healthy, clientVars, loopVars, view, shared,
                 poll, answer, last>>

-----------------------------------------------------------------------------
Request(c) ==
  \/ "load" \in Requests /\ \E s \in Slot : Load(c, s)
  \/ "ensure" \in Requests /\ \E s \in Slot : Ensure(c, s)
  \/ "unload" \in Requests /\ \E n \in Name : Unload(c, n)
  \/ "unloadAll" \in Requests /\ UnloadAll(c)
  \/ "profile" \in Requests /\ \E n \in DOMAIN Profile : ApplyProfile(c, n)

Work(c) == \/ EnsureScan(c) \/ Remove(c) \/ NotLoaded(c) \/ StopHeld(c)
           \/ Insert(c) \/ LoadFails(c)

StopAll == \/ "stopAll" \in Requests /\ StopAllBegins
           \/ StopAllNext \/ StopAllEnds

Next == \/ \E c \in Client : Request(c) \/ Work(c)
        \/ StopAll
        \/ \E i \in Inst : HealthChanges(i) \/ Poll(i)
        \/ \E s \in Slot : UpstreamChanges(s)

Spec == Init /\ [][Next]_vars

\* A handler that has begun runs on: none of its steps waits for anybody.  A
\* poller waits for its sleep, which is over after 5 s, and for its upstream, at
\* most the 3 s of the client's timeout.
FairSpec ==
  /\ Spec
  /\ \A c \in Client : WF_vars(Work(c))
  /\ \A i \in Inst : WF_vars(Poll(i))

-----------------------------------------------------------------------------
(***************************************************************************)
(* Properties.                                                             *)
(***************************************************************************)
\* Every variable has its type; op holds the profile name for ApplyProfile.
Stages == {"idle", "scan", "unload", "stop", "load"}
Kinds  == {"load", "unload", "unloadAll", "ensure"} \cup DOMAIN Profile

TypeOK ==
  /\ instances \in Seq(Inst)
  /\ byName \in [Name -> Inst \cup {None}]
  /\ slot \in [Inst -> Slot \cup {None}]
  /\ port \in [Inst -> Nat]
  /\ stopping \in [Inst -> BOOLEAN]
  /\ healthy \in [Inst -> BOOLEAN]
  /\ pc \in [Client -> Stages]
  /\ op \in [Client -> Kinds \cup {None}]
  /\ unloads \in [Client -> Seq(Name)]
  /\ loads \in [Client -> Seq(Slot)]
  /\ held \in [Client -> Inst \cup {None}]
  /\ alone \in [Client -> BOOLEAN]
  /\ cap \in Nat
  /\ shutdown \in {"idle", "running", "over"}
  /\ next \in Nat
  /\ view \in Seq(Inst)
  /\ shared \in BOOLEAN
  /\ up \in SUBSET Slot
  /\ poll \in [Inst -> {"off", "wait", "asked", "report"}]
  /\ answer \in [Inst -> {"unknown", "healthy", "crashed"}]
  /\ last \in [Inst -> {"unknown", "healthy", "crashed"}]

\* r.instances and r.byName always describe the same set of slots: no instance
\* twice, every listed instance found under its name, every name leading to a
\* listed instance of that name.
Consistent ==
  /\ \A j, k \in 1 .. Len(instances) : instances[j] = instances[k] => j = k
  /\ \A i \in Listed : byName[slot[i].name] = i
  /\ \A n \in Name : byName[n] # None => byName[n] \in Listed /\ slot[byName[n]].name = n

\* An instance that left the table is stopped by exactly one Unload: until it
\* is stopping, one client holds it, however many clients unload the same names.
NoLeak ==
  /\ \A i \in Inst : slot[i] # None /\ ~stopping[i] =>
       i \in Listed \/ \E c \in Client : held[c] = i
  /\ \A c, d \in Client : held[c] # None /\ held[c] = held[d] => c = d
  /\ \A c \in Client : held[c] \notin Listed

Automatic(s) == s.port = 0 /\ ~s.ext

\* nextPortLocked never hands the port of a listed slot to a second one: two
\* listed slots that both asked for an automatic port have different ports.
AutoPorts ==
  \A i, j \in Listed :
    Automatic(slot[i]) /\ Automatic(slot[j]) /\ port[i] = port[j] => i = j

\* "It first unloads any slot pinned to an overlapping GPU, so a new model swaps
\* in cleanly" (rig.go:255): when Ensure adds its slot, and no other request was
\* under way, no listed slot is on one of its GPUs.
SwapClean ==
  [][\A c \in Client :
       alone[c] /\ op[c] = "ensure" /\ pc[c] = "load" /\ pc'[c] = "idle" /\ instances' # instances
         => \A i \in Listed : ~Overlaps(i, Head(loads[c]))]_vars

\* A slot of a profile that ApplyProfile cannot fail to load into an empty table:
\* it resolves, and no earlier slot of the profile may have taken its name.
Certain(slots, j) ==
  slots[j] \notin Fragile /\ \A k \in 1 .. j - 1 : slots[k].name # slots[j].name

\* "unload all, load that layout" (README.md:46): when ApplyProfile returns, and
\* no other request was under way, only slots of the profile are in the table,
\* and every slot of it that can be loaded is, whichever others were refused.
ProfileExact ==
  [][\A c \in Client :
       alone[c] /\ op[c] \in DOMAIN Profile /\ pc[c] # "idle" /\ pc'[c] = "idle"
         => LET slots == Profile[op[c]] IN
            /\ \A i \in Listed' : \E j \in DOMAIN slots : slot'[i] = slots[j]
            /\ \A j \in DOMAIN slots :
                 Certain(slots, j) => \E i \in Listed' : slot'[i] = slots[j]]_vars

\* Every instance that leaves the table is stopped in the end.
UnloadStops ==
  \A i \in Inst : (slot[i] # None /\ i \notin Listed) ~> stopping[i]

\* While an external slot is in service, what its poller remembers having
\* reported is what the slot shows: a poller that skips an answer equal to the
\* last one hides no change.
MemoAgrees ==
  \A i \in Listed : slot[i].ext /\ ~stopping[i] /\ last[i] # "unknown"
                    => healthy[i] = (last[i] = "healthy")

\* "until the slot is unloaded" (rig.go:659): the poller of a stopped external
\* slot returns, whatever its upstream does.
PollerEnds == \A i \in Inst : stopping[i] ~> poll[i] = "off"

\* "mirrors it into the slot state" (rig.go:658): an external slot that stays in
\* service shows its upstream's health for good once that has settled, unless
\* healthy answers keep getting lost.
InService(i) == i \in Listed /\ slot[i].ext /\ ~stopping[i]

MirrorsUpstream ==
  \A i \in Inst :
    /\ <>[](InService(i) /\ slot[i] \notin up) => <>[]~healthy[i]
    /\ <>[](InService(i) /\ slot[i] \in up) /\ <>[][~PollLost(i)]_vars => <>[]healthy[i]
=============================================================================
