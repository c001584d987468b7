--------------------------- MODULE RegistryProofs ---------------------------
(***************************************************************************)
(* Proofs about Registry, for any number of clients, instances and slots    *)
(* and any mix of requests.                                                *)
(***************************************************************************)
EXTENDS Registry, Numbers, FiniteSetTheorems, TLAPS

(***************************************************************************)
(* The inductive invariant: the types, what a client carries at each stage, *)
(* what a poller has forgotten when it returns, and the properties          *)
(* themselves.                                                             *)
(***************************************************************************)
Types == TypeOK /\ next # 0

Carries ==
  \A c \in Client :
    /\ pc[c] = "stop" <=> held[c] # None
    /\ pc[c] = "unload" => unloads[c] # <<>>
    /\ pc[c] \in {"scan", "load"} => loads[c] # <<>>

ListedInv == \A i \in Listed : slot[i] \in Slot

PollInv == MemoAgrees /\ \A i \in Inst : poll[i] = "off" => last[i] = "unknown"

RegistryInv ==
  Types /\ Carries /\ ListedInv /\ Consistent /\ NoLeak /\ AutoPorts /\ PollInv

\* Closing the gap at k keeps every other element, in order.
LEMMA WithoutFacts ==
  ASSUME NEW S, NEW list \in Seq(S), NEW k \in 1 .. Len(list)
  PROVE  /\ Without(list, k) \in Seq(S)
         /\ Len(Without(list, k)) = Len(list) - 1
         /\ \A j \in 1 .. Len(list) - 1 :
              Without(list, k)[j] = IF j < k THEN list[j] ELSE list[j + 1]
<1> DEFINE n == Len(list) - 1
           w == [j \in 1 .. n |-> IF j < k THEN list[j] ELSE list[j + 1]]
<1>1. n \in Nat /\ Len(list) \in Nat
  OBVIOUS
<1>2. \A j \in 1 .. n : w[j] \in S
  <2> SUFFICES ASSUME NEW j \in 1 .. n PROVE w[j] \in S
    OBVIOUS
  <2>1. j \in 1 .. Len(list) /\ j + 1 \in 1 .. Len(list)
    BY <1>1
  <2> QED BY <2>1
<1>3. w \in Seq(S) /\ Len(w) = n
  BY <1>1, <1>2
<1> QED
  BY <1>3 DEF Without

\* An instance listed once is gone after its position is closed, and nothing
\* else is.
LEMMA RemovedFromList ==
  ASSUME Types, NEW k \in 1 .. Len(instances),
         \A j, m \in 1 .. Len(instances) : instances[j] = instances[m] => j = m,
         instances' = Without(instances, k)
  PROVE  /\ instances' \in Seq(Inst)
         /\ Listed' = Listed \ {instances[k]}
         /\ \A j, m \in 1 .. Len(instances') : instances'[j] = instances'[m] => j = m
<1>1. /\ instances' \in Seq(Inst)
      /\ Len(instances') = Len(instances) - 1
      /\ \A j \in 1 .. Len(instances) - 1 :
           instances'[j] = IF j < k THEN instances[j] ELSE instances[j + 1]
  BY WithoutFacts DEF Types, TypeOK
<1>2. Len(instances) \in Nat
  BY DEF Types, TypeOK
<1>3. ASSUME NEW j \in 1 .. Len(instances')
      PROVE  \E m \in 1 .. Len(instances) : m # k /\ instances'[j] = instances[m]
  BY <1>1, <1>2, <1>3
<1>4. ASSUME NEW m \in 1 .. Len(instances), m # k
      PROVE  \E j \in 1 .. Len(instances') : instances'[j] = instances[m]
  <2>1. CASE m < k
    BY <1>1, <1>2, <2>1
  <2>2. CASE m > k
    <3>1. m - 1 \in 1 .. Len(instances) - 1 /\ ~(m - 1 < k) /\ (m - 1) + 1 = m
      BY <1>2, <2>2
    <3> QED BY <1>1, <3>1
  <2> QED BY <1>2, <1>4, <2>1, <2>2
<1>5. Listed' = Listed \ {instances[k]}
  BY <1>3, <1>4 DEF Listed
<1>6. ASSUME NEW j \in 1 .. Len(instances'), NEW m \in 1 .. Len(instances'),
             instances'[j] = instances'[m]
      PROVE  j = m
  BY <1>1, <1>2, <1>6
<1> QED
  BY <1>1, <1>5, <1>6

\* Appending an instance lists it, last, and nothing else.
LEMMA AppendedToList ==
  ASSUME Types, NEW i \in Inst, i \notin Listed,
         \A j, m \in 1 .. Len(instances) : instances[j] = instances[m] => j = m,
         instances' = Append(instances, i)
  PROVE  /\ instances' \in Seq(Inst)
         /\ Listed' = Listed \cup {i}
         /\ \A j, m \in 1 .. Len(instances') : instances'[j] = instances'[m] => j = m
<1>1. /\ instances' \in Seq(Inst)
      /\ Len(instances') = Len(instances) + 1
      /\ \A j \in 1 .. Len(instances) : instances'[j] = instances[j]
      /\ instances'[Len(instances) + 1] = i
      /\ Len(instances) \in Nat
  BY DEF Types, TypeOK
<1>2. \A j \in 1 .. Len(instances') : j \in 1 .. Len(instances) \/ j = Len(instances) + 1
  BY <1>1
<1>3. 1 .. Len(instances) \subseteq 1 .. Len(instances') /\ Len(instances) + 1 \in 1 .. Len(instances')
  BY <1>1
<1>4. Listed' = Listed \cup {i}
  BY <1>1, <1>2, <1>3 DEF Listed
<1>5. ASSUME NEW j \in 1 .. Len(instances'), NEW m \in 1 .. Len(instances'),
             instances'[j] = instances'[m]
      PROVE  j = m
  BY <1>1, <1>2, <1>5 DEF Listed
<1> QED
  BY <1>1, <1>4, <1>5

\* The search of nextPortLocked ends, on a port that no listed slot has.
LEMMA NextPortFree ==
  ASSUME Types
  PROVE  NextPort \in Nat /\ \A i \in Listed : port[i] # NextPort
<1> DEFINE n == Len(instances)
           g == [j \in 1 .. n |-> port[instances[j]]]
<1>1. n \in Nat /\ BasePort \in Nat /\ g \in [1 .. n -> Nat]
  BY BasePortAssumption DEF Types, TypeOK
<1>2. PICK p \in BasePort .. BasePort + n : FirstFree(p, BasePort, n, g)
  <2> HIDE DEF n, g
  <2> QED BY <1>1, FirstFreePort
<1>3. /\ \A i \in Listed : port[i] # p
      /\ \A q \in BasePort .. p - 1 : \E i \in Listed : port[i] = q
  BY <1>2 DEF Listed, FirstFree
<1>4. NextPort \in BasePort .. BasePort + n /\ \A i \in Listed : port[i] # NextPort
  BY <1>2, <1>3 DEF NextPort
<1> QED BY <1>1, <1>4

\* A step that leaves the table and the clients' hold on instances alone, and
\* stops instances at most, preserves what is said about them.
LEMMA TableUntouched ==
  ASSUME RegistryInv, Types',
         UNCHANGED <<instances, byName, slot, port, held>>,
         \A i \in Inst : stopping[i] => stopping'[i]
  PROVE  ListedInv' /\ Consistent' /\ NoLeak' /\ AutoPorts'
<1> USE DEF RegistryInv
<1>1. Listed' = Listed
  BY DEF Listed
<1>2. ListedInv'
  BY <1>1 DEF ListedInv
<1>3. Consistent'
  BY <1>1 DEF Consistent
<1>4. NoLeak'
  BY <1>1 DEF NoLeak
<1>5. AutoPorts'
  BY <1>1 DEF AutoPorts
<1> QED
  BY <1>2, <1>3, <1>4, <1>5

\* A step that is not the poller's preserves what the poller remembers: it
\* changes the health of slots that are stopping or not external, at most.
LEMMA PollUntouched ==
  ASSUME RegistryInv, UNCHANGED <<slot, poll, last>>, Listed' \subseteq Listed,
         \A i \in Listed : \/ healthy'[i] = healthy[i] /\ (stopping[i] => stopping'[i])
                           \/ stopping'[i] \/ ~slot[i].ext
  PROVE  PollInv'
BY DEF RegistryInv, PollInv, MemoAgrees

LEMMA StageFacts ==
  ASSUME NEW us, NEW ls
  PROVE  /\ Stage(us, ls) \in Stages \ {"stop", "scan"}
         /\ Stage(us, ls) = "unload" => us # <<>>
         /\ Stage(us, ls) = "load" => ls # <<>>
BY DEF Stage, Stages

\* A client that goes on, and holds no instance, carries what its stage needs.
LEMMA ProceedStep ==
  ASSUME Types, Carries, NEW c \in Client,
         NEW o \in Kinds \cup {None}, NEW us \in Seq(Name), NEW ls \in Seq(Slot),
         Proceed(c, o, us, ls), held' = [held EXCEPT ![c] = None]
  PROVE  /\ pc' \in [Client -> Stages] /\ op' \in [Client -> Kinds \cup {None}]
         /\ unloads' \in [Client -> Seq(Name)] /\ loads' \in [Client -> Seq(Slot)]
         /\ held' \in [Client -> Inst \cup {None}]
         /\ Carries'
<1> DEFINE to == Stage(us, ls)
<1>1. /\ to \in Stages \ {"stop", "scan"}
      /\ to = "unload" => us # <<>>
      /\ to = "load" => ls # <<>>
  BY StageFacts
<1> HIDE DEF to
<1>2. /\ pc' = [pc EXCEPT ![c] = to]
      /\ unloads' = [unloads EXCEPT ![c] = us] /\ loads' = [loads EXCEPT ![c] = ls]
      /\ op' = [op EXCEPT ![c] = IF to = "idle" THEN None ELSE o]
  BY DEF Proceed, to
<1>3. Carries'
  BY <1>1, <1>2 DEF Carries, Types, TypeOK
<1> QED
  BY <1>1, <1>2, <1>3 DEF Types, TypeOK

\* The names of slots in the table are names.
LEMMA NamesListed ==
  ASSUME Types, ListedInv, NEW m \in Nat, NEW f \in [1 .. m -> 1 .. Len(instances)]
  PROVE  [j \in 1 .. m |-> slot[instances[f[j]]].name] \in Seq(Name)
<1>1. ASSUME NEW j \in 1 .. m PROVE slot[instances[f[j]]].name \in Name
  BY SlotAssumption DEF Listed, ListedInv
<1> QED
  BY <1>1

\* Requests only look at the table.
LEMMA RequestStep ==
  ASSUME RegistryInv, NEW c \in Client, Request(c) \/ EnsureScan(c)
  PROVE  RegistryInv'
<1> USE DEF RegistryInv
<1>1. /\ UNCHANGED <<instances, byName, slot, port, cap, held, stopping, healthy>>
      /\ UNCHANGED <<view, shutdown, next, shared, up, poll, answer, last>>
  BY DEF Request, EnsureScan, Load, Unload, UnloadAll, ApplyProfile, Ensure,
         Begin, Arrives, Plan, tableVars, loopVars, pollVars
<1>2. alone' \in [Client -> BOOLEAN]
  BY DEF Request, EnsureScan, Load, Unload, UnloadAll, ApplyProfile, Ensure,
         Begin, Arrives, Types, TypeOK
<1>3. Listed' = Listed
  BY <1>1 DEF Listed
<1>4. PollInv'
  BY <1>1, <1>3, PollUntouched
<1>5. CASE \E s \in Slot : Ensure(c, s)
  <2>1. PICK s \in Slot : Ensure(c, s)
    BY <1>5
  <2>2. /\ pc[c] = "idle" /\ pc' = [pc EXCEPT ![c] = "scan"]
        /\ loads' = [loads EXCEPT ![c] = <<s>>] /\ unloads' = unloads
        /\ op' = [op EXCEPT ![c] = "ensure"]
        /\ <<s>> \in Seq(Slot) /\ <<s>> # <<>>
    BY <2>1 DEF Ensure, Arrives
  <2>3. Types'
    BY <1>1, <1>2, <2>2 DEF Types, TypeOK, Stages, Kinds
  <2>4. Carries'
    BY <1>1, <2>2 DEF Types, TypeOK, Carries
  <2> QED BY <1>1, <1>4, <2>3, <2>4, TableUntouched
<1>6. CASE ~\E s \in Slot : Ensure(c, s)
  <2>0. <<>> \in Seq(Slot) /\ <<>> \in Seq(Name) /\ Len(instances) \in Nat
    BY DEF Types, TypeOK
  <2>a. SlotNames(instances) \in Seq(Name)
    <3> DEFINE f == [j \in 1 .. Len(instances) |-> j]
    <3>1. f \in [1 .. Len(instances) -> 1 .. Len(instances)]
      OBVIOUS
    <3>2. [j \in 1 .. Len(instances) |-> slot[instances[f[j]]].name] \in Seq(Name)
      <4> HIDE DEF f
      <4> QED BY <2>0, <3>1, NamesListed
    <3> QED BY <3>2 DEF SlotNames
  <2>1. \E o \in Kinds, us \in Seq(Name), ls \in Seq(Slot) :
          Plan(c, o, us, ls) /\ pc[c] \in {"idle", "scan"}
    <3>1. CASE EnsureScan(c)
      <4> DEFINE S == Overlapping(Head(loads[c]))
      <4>1. S \subseteq 1 .. Len(instances)
        BY DEF Overlapping
      <4>2. Cardinality(S) \in Nat
        <5> HIDE DEF S
        <5>1. IsFiniteSet(1 .. Len(instances))
          BY <2>0, FS_Interval
        <5>2. IsFiniteSet(S)
          BY <4>1, <5>1, FS_Subset
        <5> QED BY <5>2, FS_CardinalityType
      <4>3. PICK evict \in InOrder(S) :
              Plan(c, "ensure", [j \in 1 .. Len(evict) |-> slot[instances[evict[j]]].name], loads[c])
        BY <3>1 DEF EnsureScan
      <4>4. evict \in [1 .. Cardinality(S) -> 1 .. Len(instances)] /\ Len(evict) = Cardinality(S)
        <5> HIDE DEF S
        <5>1. evict \in [1 .. Cardinality(S) -> S]
          BY DEF InOrder
        <5>2. evict \in [1 .. Cardinality(S) -> 1 .. Len(instances)]
          BY <4>1, <5>1
        <5>3. evict \in Seq(1 .. Len(instances)) /\ Len(evict) = Cardinality(S)
          BY <4>2, <5>2
        <5> QED BY <5>2, <5>3
      <4>5. [j \in 1 .. Len(evict) |-> slot[instances[evict[j]]].name] \in Seq(Name)
        BY <4>2, <4>4, NamesListed
      <4>6. loads[c] \in Seq(Slot) /\ "ensure" \in Kinds
        BY DEF Types, TypeOK, Kinds
      <4> QED BY <3>1, <4>3, <4>5, <4>6 DEF EnsureScan
    <3>2. CASE \E s \in Slot : Load(c, s)
      <4>1. PICK s \in Slot : Load(c, s)
        BY <3>2
      <4>2. <<s>> \in Seq(Slot) /\ "load" \in Kinds
        BY DEF Kinds
      <4> QED BY <2>0, <4>1, <4>2 DEF Load, Begin, Arrives
    <3>3. CASE \E n \in Name : Unload(c, n)
      <4>1. PICK n \in Name : Unload(c, n)
        BY <3>3
      <4>2. <<n>> \in Seq(Name) /\ "unload" \in Kinds
        BY DEF Kinds
      <4> QED BY <2>0, <4>1, <4>2 DEF Unload, Begin, Arrives
    <3>4. CASE UnloadAll(c)
      <4>1. "unloadAll" \in Kinds
        BY DEF Kinds
      <4> QED BY <2>0, <2>a, <3>4, <4>1 DEF UnloadAll, Begin, Arrives
    <3>5. CASE \E n \in DOMAIN Profile : ApplyProfile(c, n)
      <4>1. PICK n \in DOMAIN Profile : ApplyProfile(c, n)
        BY <3>5
      <4>2. n \in Kinds /\ Profile[n] \in Seq(Slot)
        BY ProfileAssumption DEF Kinds
      <4> QED BY <2>a, <4>1, <4>2 DEF ApplyProfile, Begin, Arrives
    <3> QED BY <1>6, <3>1, <3>2, <3>3, <3>4, <3>5 DEF Request
  <2>2. PICK o \in Kinds, us \in Seq(Name), ls \in Seq(Slot) :
          Plan(c, o, us, ls) /\ pc[c] \in {"idle", "scan"}
    BY <2>1
  <2>3. held' = [held EXCEPT ![c] = None]
    BY <1>1, <2>2 DEF Carries, Types, TypeOK
  <2>4. Proceed(c, o, us, ls)
    BY <2>2 DEF Plan
  <2>5. /\ pc' \in [Client -> Stages] /\ op' \in [Client -> Kinds \cup {None}]
        /\ unloads' \in [Client -> Seq(Name)] /\ loads' \in [Client -> Seq(Slot)]
        /\ Carries'
    BY <2>3, <2>4, ProceedStep
  <2>6. Types'
    BY <1>1, <1>2, <2>5 DEF Types, TypeOK
  <2> QED BY <1>1, <1>4, <2>5, <2>6, TableUntouched
<1> QED
  BY <1>5, <1>6

\* Unload's critical section moves an instance from the table into the hands of
\* one client.
LEMMA RemoveStep ==
  ASSUME RegistryInv, NEW c \in Client, Remove(c) PROVE RegistryInv'
<1> USE DEF RegistryInv
<1> DEFINE n == Head(unloads[c])
           in == byName[n]
<1>1. /\ pc[c] = "unload" /\ n \in Name /\ in # None
      /\ byName' = [byName EXCEPT ![n] = None]
      /\ held' = [held EXCEPT ![c] = in]
      /\ unloads' = [unloads EXCEPT ![c] = Tail(unloads[c])]
      /\ pc' = [pc EXCEPT ![c] = "stop"]
      /\ UNCHANGED <<slot, port, cap, stopping, healthy, op, loads, alone, shutdown, next, shared>>
      /\ UNCHANGED <<up, poll, answer, last>>
  BY DEF Remove, Loaded, loopVars, pollVars
<1>2. PICK k \in 1 .. Len(instances) :
        /\ instances[k] = in
        /\ instances' = Without(instances, k)
        /\ view' = IF ~shared THEN view
                   ELSE [j \in 1 .. Len(view) |->
                           IF k <= j /\ j < Len(instances) THEN instances[j + 1] ELSE view[j]]
  BY DEF Remove
<1>3. in \in Inst /\ in \in Listed /\ slot[in].name = n /\ held[c] = None
  BY <1>1 DEF Types, TypeOK, Consistent, Carries
<1>4. /\ instances' \in Seq(Inst)
      /\ Listed' = Listed \ {in}
      /\ \A j, m \in 1 .. Len(instances') : instances'[j] = instances'[m] => j = m
  BY <1>2, RemovedFromList DEF Consistent
<1>5. view' \in Seq(Inst)
  <2>1. CASE ~shared
    BY <1>2, <2>1 DEF Types, TypeOK
  <2>2. CASE shared
    <3>1. /\ Len(view) \in Nat /\ Len(instances) \in Nat
          /\ \A j \in 1 .. Len(view) : view[j] \in Inst
          /\ \A j \in 1 .. Len(instances) : instances[j] \in Inst
      BY DEF Types, TypeOK
    <3>2. ASSUME NEW j \in 1 .. Len(view)
          PROVE  (IF k <= j /\ j < Len(instances) THEN instances[j + 1] ELSE view[j]) \in Inst
      BY <3>1
    <3> QED BY <1>2, <2>2, <3>1, <3>2
  <2> QED BY <2>1, <2>2
<1>6. Types'
  <2>1. Tail(unloads[c]) \in Seq(Name)
    BY <1>1 DEF Carries, Types, TypeOK
  <2>2. /\ byName' \in [Name -> Inst \cup {None}]
        /\ unloads' \in [Client -> Seq(Name)]
        /\ held' \in [Client -> Inst \cup {None}]
        /\ pc' \in [Client -> Stages]
    BY <1>1, <1>3, <2>1 DEF Types, TypeOK, Stages
  <2> QED BY <1>1, <1>4, <1>5, <2>2 DEF Types, TypeOK
<1>7. Carries'
  BY <1>1, <1>3 DEF Carries, Types, TypeOK
<1>8. ListedInv'
  BY <1>1, <1>4 DEF ListedInv
<1>9. Consistent'
  <2>1. \A i \in Listed' : byName'[slot'[i].name] = i
    BY <1>1, <1>3, <1>4, SlotAssumption DEF Consistent, ListedInv, Types, TypeOK
  <2>2. \A m \in Name : byName'[m] # None =>
          byName'[m] \in Listed' /\ slot'[byName'[m]].name = m
    BY <1>1, <1>3, <1>4 DEF Consistent, Types, TypeOK
  <2> QED BY <1>4, <2>1, <2>2 DEF Consistent
<1>10. NoLeak'
  BY <1>1, <1>3, <1>4, InstAssumption DEF NoLeak, Types, TypeOK
<1>11. AutoPorts'
  BY <1>1, <1>4 DEF AutoPorts
<1>12. PollInv'
  BY <1>1, <1>4, PollUntouched
<1> QED
  BY <1>6, <1>7, <1>8, <1>9, <1>10, <1>11, <1>12

\* Stopping the held instance lets go of it.
LEMMA StopHeldStep ==
  ASSUME RegistryInv, NEW c \in Client, StopHeld(c) PROVE RegistryInv'
<1> USE DEF RegistryInv
<1>1. /\ pc[c] = "stop"
      /\ stopping' = [stopping EXCEPT ![held[c]] = TRUE]
      /\ healthy' = [healthy EXCEPT ![held[c]] = FALSE]
      /\ held' = [held EXCEPT ![c] = None]
      /\ Proceed(c, op[c], unloads[c], loads[c])
      /\ UNCHANGED <<instances, byName, slot, port, cap, alone, shutdown, next, view, shared>>
      /\ UNCHANGED <<up, poll, answer, last>>
  BY DEF StopHeld, tableVars, loopVars, pollVars
<1>2. held[c] \in Inst /\ held[c] \notin Listed
  BY <1>1 DEF Carries, NoLeak, Types, TypeOK
<1>3. /\ pc' \in [Client -> Stages] /\ op' \in [Client -> Kinds \cup {None}]
      /\ unloads' \in [Client -> Seq(Name)] /\ loads' \in [Client -> Seq(Slot)]
      /\ held' \in [Client -> Inst \cup {None}]
      /\ Carries'
  <2>1. /\ op[c] \in Kinds \cup {None} /\ unloads[c] \in Seq(Name) /\ loads[c] \in Seq(Slot)
    BY DEF Types, TypeOK
  <2> QED BY <1>1, <2>1, ProceedStep
<1>4. Types'
  BY <1>1, <1>3 DEF Types, TypeOK
<1>5. ListedInv' /\ Consistent' /\ AutoPorts'
  BY <1>1 DEF ListedInv, Consistent, AutoPorts, Listed
<1>6. Listed' = Listed /\ Listed \subseteq Inst /\ None \notin Listed
  BY <1>1, InstAssumption DEF Listed, Types, TypeOK
<1>7. NoLeak'
  <2>1. \A d \in Client : held'[d] = IF d = c THEN None ELSE held[d]
    BY <1>1 DEF Types, TypeOK
  <2>2. \A i \in Inst : slot'[i] # None /\ ~stopping'[i] =>
          i \in Listed' \/ \E d \in Client : held'[d] = i
    BY <1>1, <1>2, <1>6, <2>1 DEF NoLeak, Types, TypeOK
  <2> QED BY <1>6, <2>1, <2>2 DEF NoLeak
<1>8. PollInv'
  <2>1. \A i \in Listed : healthy'[i] = healthy[i] /\ stopping'[i] = stopping[i]
    BY <1>1, <1>2, <1>6 DEF Types, TypeOK
  <2> QED BY <1>1, <1>6, <2>1, PollUntouched
<1> QED
  BY <1>3, <1>4, <1>5, <1>7, <1>8

\* Load's critical section lists an instance that nobody holds.
LEMMA InsertStep ==
  ASSUME RegistryInv, NEW c \in Client, Insert(c) PROVE RegistryInv'
<1> USE DEF RegistryInv
<1> DEFINE s == Head(loads[c])
<1>1. /\ pc[c] = "load" /\ byName[s.name] = None
      /\ Proceed(c, op[c], <<>>, Tail(loads[c]))
      /\ UNCHANGED <<held, alone, shutdown, next, up>>
  BY DEF Insert, LoadNext, loopVars
<1>2. PICK i \in Inst :
        /\ Fresh(i)
        /\ instances' = Append(instances, i)
        /\ byName' = [byName EXCEPT ![s.name] = i]
        /\ slot' = [slot EXCEPT ![i] = s]
        /\ port' = [port EXCEPT ![i] = IF s.port = 0 /\ ~s.ext THEN NextPort ELSE s.port]
        /\ stopping' = [stopping EXCEPT ![i] = FALSE]
        /\ healthy' = [healthy EXCEPT ![i] = FALSE]
        /\ poll' = [poll EXCEPT ![i] = IF s.ext THEN "wait" ELSE "off"]
        /\ UNCHANGED <<answer, last>>
        /\ cap' \in {cap, 1, 2 * cap} /\ shared' \in {shared, FALSE}
        /\ \/ view' = view
           \/ Len(instances) < Len(view) /\ view' = [view EXCEPT ![Len(instances) + 1] = i]
  BY DEF Insert, New
<1>3. /\ s \in Slot /\ s.name \in Name /\ s.port \in Nat /\ s.ext \in BOOLEAN
      /\ Tail(loads[c]) \in Seq(Slot)
  BY <1>1, SlotAssumption DEF Carries, Types, TypeOK
<1>4. /\ pc' \in [Client -> Stages] /\ op' \in [Client -> Kinds \cup {None}]
      /\ unloads' \in [Client -> Seq(Name)] /\ loads' \in [Client -> Seq(Slot)]
      /\ Carries'
  <2>1. op[c] \in Kinds \cup {None} /\ <<>> \in Seq(Name)
    BY DEF Types, TypeOK
  <2>2. held' = [held EXCEPT ![c] = None]
    BY <1>1 DEF Carries, Types, TypeOK
  <2> QED BY <1>1, <1>3, <2>1, <2>2, ProceedStep
<1>5. /\ instances' \in Seq(Inst)
      /\ Listed' = Listed \cup {i}
      /\ \A j, m \in 1 .. Len(instances') : instances'[j] = instances'[m] => j = m
  BY <1>2, AppendedToList DEF Fresh, Consistent
<1>6. view' \in Seq(Inst)
  <2>1. ASSUME NEW k \in 1 .. Len(view) PROVE [view EXCEPT ![k] = i] \in Seq(Inst)
    BY <2>1 DEF Types, TypeOK
  <2>2. Len(instances) < Len(view) => Len(instances) + 1 \in 1 .. Len(view)
    BY DEF Types, TypeOK
  <2> QED BY <1>2, <2>1, <2>2 DEF Types, TypeOK
<1>7. NextPort \in Nat /\ \A j \in Listed : port[j] # NextPort
  BY NextPortFree
<1>8. Types'
  <2>1. /\ byName' \in [Name -> Inst \cup {None}]
        /\ slot' \in [Inst -> Slot \cup {None}]
        /\ port' \in [Inst -> Nat]
        /\ poll' \in [Inst -> {"off", "wait", "asked", "report"}]
    BY <1>2, <1>3, <1>7 DEF Types, TypeOK
  <2>2. stopping' \in [Inst -> BOOLEAN] /\ healthy' \in [Inst -> BOOLEAN] /\ shared' \in BOOLEAN
    BY <1>2 DEF Types, TypeOK
  <2>3. cap' \in Nat
    BY <1>2 DEF Types, TypeOK
  <2> QED BY <1>1, <1>2, <1>4, <1>5, <1>6, <2>1, <2>2, <2>3 DEF Types, TypeOK
<1>9. ListedInv'
  BY <1>2, <1>3, <1>5 DEF ListedInv, Types, TypeOK
<1>10. i \notin Listed /\ \A m \in Name : byName[m] # i
  BY <1>2, InstAssumption DEF Fresh, Consistent
<1>11. Listed \subseteq Inst
  BY DEF Listed, Types, TypeOK
<1>12. Consistent'
  <2>1. \A j \in Listed' : byName'[slot'[j].name] = j
    <3> SUFFICES ASSUME NEW j \in Listed' PROVE byName'[slot'[j].name] = j
      OBVIOUS
    <3>1. CASE j = i
      BY <1>2, <1>3, <3>1 DEF Types, TypeOK
    <3>2. CASE j # i
      <4>1. j \in Listed /\ j \in Inst /\ slot'[j] = slot[j] /\ byName[slot[j].name] = j
            /\ slot[j].name \in Name
        BY <1>2, <1>5, <1>11, <3>2, SlotAssumption DEF Consistent, ListedInv, Types, TypeOK
      <4>2. slot[j].name # s.name
        BY <1>1, <4>1, InstAssumption
      <4> QED BY <1>2, <4>1, <4>2 DEF Types, TypeOK
    <3> QED BY <3>1, <3>2
  <2>2. \A m \in Name : byName'[m] # None =>
          byName'[m] \in Listed' /\ slot'[byName'[m]].name = m
    BY <1>2, <1>3, <1>5, <1>10 DEF Consistent, Types, TypeOK
  <2> QED BY <1>5, <2>1, <2>2 DEF Consistent
<1>13. NoLeak'
  BY <1>1, <1>2, <1>5 DEF NoLeak, Fresh, Types, TypeOK
<1>14. /\ \A j \in Listed : slot'[j] = slot[j] /\ port'[j] = port[j] /\ last'[j] = last[j]
                            /\ healthy'[j] = healthy[j] /\ stopping'[j] = stopping[j]
       /\ slot'[i] = s /\ (Automatic(s) => port'[i] = NextPort)
  BY <1>2, <1>10, <1>11 DEF Automatic, Types, TypeOK
<1>15. AutoPorts'
  BY <1>5, <1>7, <1>14 DEF AutoPorts
<1>16. PollInv'
  <2>1. last'[i] = "unknown"
    BY <1>2 DEF Fresh, PollInv
  <2>2. MemoAgrees'
    BY <1>5, <1>14, <2>1 DEF PollInv, MemoAgrees
  <2>3. \A j \in Inst : poll'[j] = "off" => last'[j] = "unknown"
    BY <1>2, <2>1 DEF PollInv, Types, TypeOK
  <2> QED BY <2>2, <2>3 DEF PollInv
<1> QED
  BY <1>4, <1>8, <1>9, <1>12, <1>13, <1>15, <1>16

\* A refused load and a missing name only shorten what the client has to do.
LEMMA SkipStep ==
  ASSUME RegistryInv, NEW c \in Client, NotLoaded(c) \/ LoadFails(c)
  PROVE  RegistryInv'
<1> USE DEF RegistryInv
<1>1. /\ UNCHANGED <<instances, byName, slot, port, cap, held, stopping, healthy, alone>>
      /\ UNCHANGED <<view, shutdown, next, shared, up, poll, answer, last>>
  BY DEF NotLoaded, LoadFails, LoadNext, tableVars, loopVars, pollVars
<1>2. \E us \in Seq(Name), ls \in Seq(Slot) : Proceed(c, op[c], us, ls)
  <2>1. CASE NotLoaded(c)
    <3>1. Tail(unloads[c]) \in Seq(Name) /\ loads[c] \in Seq(Slot)
      BY <2>1 DEF NotLoaded, Carries, Types, TypeOK
    <3> QED BY <2>1, <3>1 DEF NotLoaded
  <2>2. CASE LoadFails(c)
    <3>1. <<>> \in Seq(Name) /\ Tail(loads[c]) \in Seq(Slot)
      BY <2>2 DEF LoadFails, Carries, Types, TypeOK
    <3> QED BY <2>2, <3>1 DEF LoadFails, LoadNext
  <2> QED BY <2>1, <2>2
<1>3. op[c] \in Kinds \cup {None} /\ held' = [held EXCEPT ![c] = None]
  BY <1>1 DEF NotLoaded, LoadFails, Carries, Types, TypeOK
<1>4. /\ pc' \in [Client -> Stages] /\ op' \in [Client -> Kinds \cup {None}]
      /\ unloads' \in [Client -> Seq(Name)] /\ loads' \in [Client -> Seq(Slot)]
      /\ Carries'
  BY <1>2, <1>3, ProceedStep
<1>5. Types'
  BY <1>1, <1>4 DEF Types, TypeOK
<1>6. PollInv'
  BY <1>1, PollUntouched DEF Listed
<1> QED
  BY <1>1, <1>4, <1>5, <1>6, TableUntouched

\* StopAll stops instances and touches nothing else of theirs.
LEMMA StopAllStep ==
  ASSUME RegistryInv, StopAll PROVE RegistryInv'
<1> USE DEF RegistryInv
<1>1. /\ UNCHANGED <<instances, byName, slot, port, cap, pc, op, unloads, loads, held, alone>>
      /\ UNCHANGED <<up, poll, answer, last>>
  BY DEF StopAll, StopAllBegins, StopAllNext, StopAllEnds, tableVars, clientVars, pollVars
<1>2. Listed' = Listed
  BY <1>1 DEF Listed
<1>3. CASE StopAllBegins \/ StopAllEnds
  <2>1. /\ stopping' = stopping /\ healthy' = healthy /\ view' \in {instances, <<>>}
        /\ next' = 1 /\ shared' \in BOOLEAN /\ shutdown' \in {"running", "over"}
    BY <1>3 DEF StopAllBegins, StopAllEnds
  <2>2. view' \in Seq(Inst)
    <3>1. <<>> \in Seq(Inst) /\ instances \in Seq(Inst)
      BY DEF Types, TypeOK
    <3> QED BY <2>1, <3>1
  <2>3. Types' /\ Carries'
    BY <1>1, <2>1, <2>2 DEF Types, TypeOK, Carries
  <2>4. PollInv'
    BY <1>1, <1>2, <2>1, PollUntouched
  <2> QED BY <1>1, <2>1, <2>3, <2>4, TableUntouched
<1>4. CASE StopAllNext
  <2>1. next \in 1 .. Len(view) /\ view[next] \in Inst
    BY <1>4 DEF StopAllNext, Types, TypeOK
  <2>2. /\ stopping' = [stopping EXCEPT ![view[next]] = TRUE]
        /\ healthy' = [healthy EXCEPT ![view[next]] = FALSE]
        /\ next' = next + 1 /\ UNCHANGED <<shutdown, view, shared>>
    BY <1>4 DEF StopAllNext
  <2>3. Types' /\ Carries'
    BY <1>1, <2>1, <2>2 DEF Types, TypeOK, Carries
  <2>4. \A i \in Inst : /\ stopping[i] => stopping'[i]
                        /\ stopping'[i] \/ healthy'[i] = healthy[i]
    BY <2>1, <2>2 DEF Types, TypeOK
  <2>5. Listed \subseteq Inst
    BY DEF Listed, Types, TypeOK
  <2>6. PollInv'
    BY <1>1, <1>2, <2>4, <2>5, PollUntouched
  <2> QED BY <1>1, <2>3, <2>4, <2>6, TableUntouched
<1> QED
  BY <1>3, <1>4 DEF StopAll

\* The poller of an external slot writes the health of that slot only, and its
\* memory with it.
LEMMA PollStep ==
  ASSUME RegistryInv, NEW i \in Inst, Poll(i) PROVE RegistryInv'
<1> USE DEF RegistryInv
<1>1. /\ UNCHANGED <<instances, byName, slot, port, cap, stopping, pc, op, unloads, loads, held, alone>>
      /\ UNCHANGED <<view, shutdown, next, shared, up>>
  BY DEF Poll, PollLoop, PollAnswered, PollLost, PollReport, PollFrame, tableVars, clientVars, loopVars
<1>2. Listed' = Listed /\ Listed \subseteq Inst
  BY <1>1 DEF Listed, Types, TypeOK
<1>3. /\ poll' \in [Inst -> {"off", "wait", "asked", "report"}]
      /\ answer' \in [Inst -> {"unknown", "healthy", "crashed"}]
      /\ last' \in [Inst -> {"unknown", "healthy", "crashed"}]
  <2>1. answer[i] \in {"unknown", "healthy", "crashed"}
    BY DEF Types, TypeOK
  <2>2. CASE PollLoop(i)
    BY <2>2 DEF PollLoop, PollGoto, Types, TypeOK
  <2>3. CASE PollAnswered(i) \/ PollLost(i)
    BY <2>3 DEF PollAnswered, PollLost, PollGoto, Types, TypeOK
  <2>4. CASE PollReport(i)
    BY <2>1, <2>4 DEF PollReport, PollGoto, Types, TypeOK
  <2> QED BY <2>2, <2>3, <2>4 DEF Poll
<1>4. healthy' \in [Inst -> BOOLEAN]
  BY DEF Poll, PollLoop, PollAnswered, PollLost, PollReport, Types, TypeOK
<1>5. Types' /\ Carries'
  BY <1>1, <1>3, <1>4 DEF Types, TypeOK, Carries
<1>6. \A j \in Inst : \/ healthy'[j] = healthy[j] /\ last'[j] = last[j]
                      \/ j = i /\ last'[i] = "unknown"
                      \/ j = i /\ healthy'[i] = (last'[i] = "healthy")
  BY DEF Poll, PollLoop, PollAnswered, PollLost, PollReport, Types, TypeOK
<1>7. MemoAgrees'
  BY <1>1, <1>2, <1>6 DEF PollInv, MemoAgrees
<1>8. \A j \in Inst : poll'[j] = "off" => last'[j] = "unknown"
  BY DEF Poll, PollLoop, PollAnswered, PollLost, PollReport, PollGoto, PollInv, Types, TypeOK
<1> QED
  BY <1>1, <1>5, <1>7, <1>8, TableUntouched DEF PollInv

\* A report of a supervisor, a change of an upstream and a stuttering step.
LEMMA OtherStep ==
  ASSUME RegistryInv,
         (\E i \in Inst : HealthChanges(i)) \/ (\E s \in Slot : UpstreamChanges(s)) \/ UNCHANGED vars
  PROVE  RegistryInv'
<1> USE DEF RegistryInv
<1>1. /\ UNCHANGED <<instances, byName, slot, port, cap, stopping, pc, op, unloads, loads, held, alone>>
      /\ UNCHANGED <<view, shutdown, next, shared, poll, answer, last>>
  BY DEF HealthChanges, UpstreamChanges, vars, tableVars, clientVars, loopVars, pollVars
<1>2. Listed' = Listed /\ Listed \subseteq Inst
  BY <1>1 DEF Listed, Types, TypeOK
<1>3. up' \in SUBSET Slot
  BY DEF HealthChanges, UpstreamChanges, vars, pollVars, Types, TypeOK
<1>4. /\ healthy' \in [Inst -> BOOLEAN]
      /\ \A j \in Inst : healthy'[j] = healthy[j] \/ ~slot[j].ext
  BY DEF HealthChanges, UpstreamChanges, vars, Types, TypeOK
<1>5. Types' /\ Carries'
  BY <1>1, <1>3, <1>4 DEF Types, TypeOK, Carries
<1>6. PollInv'
  BY <1>1, <1>2, <1>4, PollUntouched
<1> QED
  BY <1>1, <1>5, <1>6, TableUntouched

\* The state that New and Start leave.
LEMMA InitInv == Init => RegistryInv
<1> SUFFICES ASSUME Init PROVE RegistryInv
  OBVIOUS
<1> DEFINE started == 1 .. Len(Boot)
<1>1. /\ Len(Boot) \in Nat /\ started \subseteq Inst
      /\ \A j \in started : Boot[j] \in Slot /\ Boot[j].name \in Name /\ Boot[j].port \in Nat
      /\ \A j, k \in started : Boot[j].name = Boot[k].name => j = k
      /\ \A j \in started : Boot[j].ext \/ Boot[j].port # 0
  BY BootAssumption, SlotAssumption
<1>2. /\ instances = [j \in started |-> j] /\ Len(instances) = Len(Boot)
      /\ instances \in Seq(Inst)
  BY <1>1 DEF Init
<1>3. Listed = started
  BY <1>1, <1>2 DEF Listed
<1>4. \A n \in Name : byName[n] # None => byName[n] \in started /\ Boot[byName[n]].name = n
  BY DEF Init
<1>5. \A j \in started : byName[Boot[j].name] = j
  BY <1>1 DEF Init
<1>6. Types
  <2>1. byName \in [Name -> Inst \cup {None}]
    BY <1>1 DEF Init
  <2>2. slot \in [Inst -> Slot \cup {None}]
    BY <1>1 DEF Init
  <2>3. port \in [Inst -> Nat]
    BY <1>1 DEF Init
  <2>4. cap \in Nat
    <3>1. cap \in CapAfter(Len(Boot))
      BY DEF Init
    <3>2. ASSUME NEW n \in Nat, NEW k \in CapAfter(n) PROVE k \in Nat
      BY <3>2 DEF CapAfter
    <3> QED BY <1>1, <3>1, <3>2
  <2>5. /\ poll \in [Inst -> {"off", "wait", "asked", "report"}]
        /\ answer \in [Inst -> {"unknown", "healthy", "crashed"}]
        /\ last \in [Inst -> {"unknown", "healthy", "crashed"}]
        /\ up \in SUBSET Slot
    BY DEF Init
  <2>6. /\ pc \in [Client -> Stages] /\ op \in [Client -> Kinds \cup {None}]
        /\ unloads \in [Client -> Seq(Name)] /\ loads \in [Client -> Seq(Slot)]
        /\ held \in [Client -> Inst \cup {None}] /\ alone \in [Client -> BOOLEAN]
    BY DEF Init, Stages
  <2>7. /\ stopping \in [Inst -> BOOLEAN] /\ healthy \in [Inst -> BOOLEAN] /\ shared \in BOOLEAN
    BY DEF Init
  <2>8. shutdown \in {"idle", "running", "over"} /\ next = 1 /\ view \in Seq(Inst)
    <3>1. <<>> \in Seq(Inst)
      OBVIOUS
    <3> QED BY <3>1 DEF Init
  <2> QED BY <1>2, <2>1, <2>2, <2>3, <2>4, <2>5, <2>6, <2>7, <2>8 DEF Types, TypeOK
<1>7. Carries
  BY DEF Init, Carries
<1>8. \A j \in started : slot[j] = Boot[j]
  BY <1>1 DEF Init
<1>9. ListedInv /\ Consistent
  BY <1>1, <1>2, <1>3, <1>4, <1>5, <1>8 DEF ListedInv, Consistent
<1>10. NoLeak
  BY <1>1, <1>3, InstAssumption DEF Init, NoLeak
<1>11. AutoPorts
  BY <1>1, <1>3, <1>8 DEF AutoPorts, Automatic
<1>12. PollInv
  BY <1>3, <1>1 DEF Init, PollInv, MemoAgrees
<1> QED
  BY <1>6, <1>7, <1>9, <1>10, <1>11, <1>12 DEF RegistryInv

\* The invariant holds however clients interleave Load, Unload, UnloadAll,
\* ApplyProfile and Ensure, with each other, with StopAll and with the pollers.
LEMMA RegistryInvHolds == Spec => []RegistryInv
<1>1. RegistryInv /\ [Next]_vars => RegistryInv'
  BY RequestStep, RemoveStep, StopHeldStep, InsertStep, SkipStep, StopAllStep, PollStep, OtherStep
     DEF Next, Work
<1> QED
  BY InitInv, <1>1, PTL DEF Spec

\* Every variable keeps its type.
THEOREM RegistryTyped == Spec => []TypeOK
<1>1. RegistryInv => TypeOK
  BY DEF RegistryInv, Types
<1> QED
  BY <1>1, RegistryInvHolds, PTL

\* r.instances and r.byName stay consistent under any interleaving.
THEOREM TableConsistent == Spec => []Consistent
<1>1. RegistryInv => Consistent
  BY DEF RegistryInv
<1> QED
  BY <1>1, RegistryInvHolds, PTL

\* An instance out of the table is stopping, or in the hands of exactly one
\* client that will stop it.
THEOREM RegistrySafe == Spec => []NoLeak
<1>1. RegistryInv => NoLeak
  BY DEF RegistryInv
<1> QED
  BY <1>1, RegistryInvHolds, PTL

\* nextPortLocked never hands out the port of a listed slot: its search ends on
\* a free port because there are more candidates than slots.
THEOREM PortsDistinct == Spec => []AutoPorts
<1>1. RegistryInv => AutoPorts
  BY DEF RegistryInv
<1> QED
  BY <1>1, RegistryInvHolds, PTL

\* While an external slot is in service, its poller's memory is what it shows.
THEOREM MemoTrue == Spec => []MemoAgrees
<1>1. RegistryInv => MemoAgrees
  BY DEF RegistryInv, PollInv
<1> QED
  BY <1>1, RegistryInvHolds, PTL
(***************************************************************************)
(* Two action properties.  While no other request is under way, the client  *)
(* that runs knows what is in its way: every listed slot that overlaps the  *)
(* one Ensure adds, and every listed slot the profile does not have, is on  *)
(* the list of names it still has to unload.                               *)
(***************************************************************************)
Owed(c, i) == \E j \in 1 .. Len(unloads[c]) : unloads[c][j] = slot[i].name

Solitary == \A c, d \in Client : alone[c] /\ pc[d] # "idle" => d = c

Drained(c) == /\ pc[c] = "load" => unloads[c] = <<>>
              /\ pc[c] = "scan" => op[c] = "ensure"

Evicts(c) ==
  op[c] = "ensure" /\ pc[c] # "idle" =>
    /\ Len(loads[c]) = 1
    /\ alone[c] /\ pc[c] # "scan" =>
         \A i \in Listed : Overlaps(i, Head(loads[c])) => Owed(c, i)

\* How many slots of profile n ApplyProfile has tried when those of list are left.
Tried(n, list) == Len(Profile[n]) - Len(list)

\* Of the first r slots of profile n, a slot is listed, ...
AmongFirst(n, r, s) == \E j \in 1 .. r : s = Profile[n][j]

\* ... and every one that must be, is, in table T with the slots f.
FirstListed(n, r, T, f) ==
  \A j \in 1 .. r : Certain(Profile[n], j) => \E i \in T : f[i] = Profile[n][j]

LaysOut(c) ==
  op[c] \in DOMAIN Profile /\ pc[c] # "idle" =>
    LET n == op[c]
        r == Tried(n, loads[c])
    IN  /\ r \in Nat
        /\ \A j \in 1 .. Len(loads[c]) : loads[c][j] = Profile[n][r + j]
        /\ pc[c] # "load" => r = 0
        /\ alone[c] => /\ \A i \in Listed : Owed(c, i) \/ AmongFirst(n, r, slot[i])
                       /\ FirstListed(n, r, Listed, slot)

AloneInv == Solitary /\ \A c \in Client : Drained(c) /\ Evicts(c) /\ LaysOut(c)

\* What Proceed leaves: the client's own lists, and everybody else's as they were.
LEMMA ProceedLeaves ==
  ASSUME Types, NEW c \in Client, NEW o, NEW us, NEW ls, Proceed(c, o, us, ls)
  PROVE  /\ unloads'[c] = us /\ loads'[c] = ls /\ pc'[c] # "scan"
         /\ pc'[c] # "idle" => op'[c] = o
         /\ pc'[c] = "load" => us = <<>>
         /\ us = <<>> /\ ls = <<>> => pc'[c] = "idle"
         /\ \A d \in Client \ {c} : /\ pc'[d] = pc[d] /\ op'[d] = op[d]
                                    /\ unloads'[d] = unloads[d] /\ loads'[d] = loads[d]
BY DEF Proceed, Stage, Types, TypeOK

\* A step of client c concerns c only: nobody else is alone.
LEMMA OneClient ==
  ASSUME AloneInv, NEW c \in Client,
         \A d \in Client \ {c} : /\ pc'[d] = pc[d] /\ op'[d] = op[d]
                                 /\ unloads'[d] = unloads[d] /\ loads'[d] = loads[d]
                                 /\ ~alone'[d],
         alone'[c] => \A d \in Client \ {c} : pc[d] = "idle",
         Drained(c)', Evicts(c)', LaysOut(c)'
  PROVE  AloneInv'
<1>1. Solitary'
  BY DEF Solitary
<1>2. ASSUME NEW d \in Client \ {c} PROVE Drained(d)' /\ Evicts(d)' /\ LaysOut(d)'
  BY <1>2 DEF AloneInv, Drained, Evicts, LaysOut
<1> QED
  BY <1>1, <1>2 DEF AloneInv

\* A client that is under way is the only one that may be alone.
LEMMA WorkAlone ==
  ASSUME Types, AloneInv, NEW c \in Client, pc[c] # "idle", alone' = alone
  PROVE  /\ \A d \in Client \ {c} : ~alone'[d]
         /\ alone'[c] => \A d \in Client \ {c} : pc[d] = "idle"
BY DEF AloneInv, Solitary

\* The k-th of a set of n numbers in order: each of them is some k-th.
LEMMA InOrderAll ==
  ASSUME NEW m \in Nat, NEW S \in SUBSET (1 .. m), NEW f \in InOrder(S)
  PROVE  /\ Cardinality(S) \in Nat /\ f \in [1 .. Cardinality(S) -> S]
         /\ \A j \in S : \E k \in 1 .. Cardinality(S) : f[k] = j
<1> DEFINE n == Cardinality(S)
<1>1. IsFiniteSet(S) /\ n \in Nat
  <2>1. IsFiniteSet(1 .. m)
    BY FS_Interval
  <2> QED BY <2>1, FS_Subset, FS_CardinalityType
<1>2. f \in [1 .. n -> S] /\ \A j, k \in 1 .. n : j < k => f[j] < f[k]
  BY DEF InOrder
<1>3. ASSUME NEW j \in 1 .. n, NEW k \in 1 .. n, f[j] = f[k] PROVE j = k
  <2>1. f[j] \in S /\ S \subseteq Int
    BY <1>2
  <2>2. f[j] \in Int
    BY <2>1
  <2> HIDE DEF n
  <2>3. j \in Int /\ k \in Int
    BY <1>1
  <2>4. ~(j < k) /\ ~(k < j)
    BY <1>2, <1>3, <2>2
  <2> QED BY <2>3, <2>4
<1>4. f \in Injection(1 .. n, S)
  BY <1>2, <1>3 DEF Injection, IsInjective
<1>5. Cardinality(1 .. n) = n
  <2>1. n \in Int /\ 1 \in Int /\ n >= 0
    BY <1>1
  <2> HIDE DEF n
  <2>2. Cardinality(1 .. n) = IF 1 > n THEN 0 ELSE n - 1 + 1
    BY <2>1, FS_Interval
  <2> QED BY <2>1, <2>2
<1>6. f \in Surjection(1 .. n, S)
  BY <1>1, <1>4, <1>5, FS_Injection
<1> QED
  BY <1>1, <1>2, <1>6 DEF Surjection

\* What is on a list is at its head or on its tail.
LEMMA OnTail ==
  ASSUME NEW S, NEW list \in Seq(S), list # <<>>
  PROVE  /\ Tail(list) \in Seq(S)
         /\ \A j \in 1 .. Len(list) :
              list[j] = Head(list) \/ \E k \in 1 .. Len(Tail(list)) : Tail(list)[k] = list[j]
         /\ \A k \in 1 .. Len(Tail(list)) : \E j \in 1 .. Len(list) : Tail(list)[k] = list[j]
<1>1. /\ Len(list) \in Nat /\ Len(list) > 0 /\ Tail(list) \in Seq(S)
      /\ Len(Tail(list)) = Len(list) - 1 /\ Head(list) = list[1]
      /\ \A k \in 1 .. Len(list) - 1 : Tail(list)[k] = list[k + 1]
  OBVIOUS
<1>2. ASSUME NEW j \in 1 .. Len(list), j # 1
      PROVE  \E k \in 1 .. Len(Tail(list)) : Tail(list)[k] = list[j]
  <2>1. j - 1 \in 1 .. Len(Tail(list)) /\ (j - 1) + 1 = j
    BY <1>1, <1>2
  <2> QED BY <1>1, <2>1
<1>3. ASSUME NEW k \in 1 .. Len(Tail(list))
      PROVE  \E j \in 1 .. Len(list) : Tail(list)[k] = list[j]
  <2>1. k + 1 \in 1 .. Len(list)
    BY <1>1
  <2> QED BY <1>1, <2>1
<1> QED
  BY <1>1, <1>2, <1>3

LEMMA RequestAlone ==
  ASSUME RegistryInv, AloneInv, NEW c \in Client, Request(c)
  PROVE  AloneInv'
<1>1. Types /\ slot' = slot /\ instances' = instances /\ Listed' = Listed
  BY DEF RegistryInv, Request, Load, Unload, UnloadAll, ApplyProfile, Ensure,
         Begin, Plan, tableVars, Listed
<1>2. /\ \A d \in Client \ {c} : ~alone'[d]
      /\ alone'[c] => \A d \in Client \ {c} : pc[d] = "idle"
  BY DEF Request, Load, Unload, UnloadAll, ApplyProfile, Ensure, Begin, Arrives
<1>3. ASSUME NEW o \in {"load", "unload", "unloadAll"}, NEW us, NEW ls, Begin(c, o, us, ls)
      PROVE  AloneInv'
  <2>1. Proceed(c, o, us, ls)
    BY <1>3 DEF Begin, Plan
  <2>2. pc'[c] # "idle" => op'[c] # "ensure" /\ op'[c] \notin DOMAIN Profile
    BY <1>1, <1>3, <2>1, ProceedLeaves, KindAssumption
  <2>3. Drained(c)' /\ Evicts(c)' /\ LaysOut(c)'
    BY <1>1, <2>1, <2>2, ProceedLeaves DEF Drained, Evicts, LaysOut
  <2> QED BY <1>1, <1>2, <2>1, <2>3, ProceedLeaves, OneClient
<1>4. ASSUME NEW n \in DOMAIN Profile, ApplyProfile(c, n) PROVE AloneInv'
  <2>1. Proceed(c, n, SlotNames(instances), Profile[n])
    BY <1>4 DEF ApplyProfile, Begin, Plan
  <2>2. /\ unloads'[c] = SlotNames(instances) /\ loads'[c] = Profile[n] /\ pc'[c] # "scan"
        /\ pc'[c] # "idle" => op'[c] = n
        /\ pc'[c] = "load" => unloads'[c] = <<>>
    BY <1>1, <2>1, ProceedLeaves
  <2>3. ASSUME NEW i \in Listed PROVE Owed(c, i)'
    <3>1. PICK j \in 1 .. Len(instances) : instances[j] = i
      BY DEF Listed
    <3>2. /\ Len(SlotNames(instances)) = Len(instances)
          /\ SlotNames(instances)[j] = slot[i].name
      BY <1>1, <3>1 DEF SlotNames, Types, TypeOK
    <3> QED BY <1>1, <2>2, <3>2 DEF Owed
  <2>4. Tried(n, loads'[c]) = 0 /\ \A j \in 1 .. Len(Profile[n]) : 0 + j = j
    BY <2>2, ProfileAssumption DEF Tried
  <2>5. LaysOut(c)'
    BY <1>1, <2>2, <2>3, <2>4 DEF LaysOut, FirstListed
  <2>6. Evicts(c)' /\ Drained(c)'
    BY <2>2, KindAssumption DEF Evicts, Drained
  <2> QED BY <1>1, <1>2, <2>1, <2>5, <2>6, ProceedLeaves, OneClient
<1>5. ASSUME NEW s \in Slot, Ensure(c, s) PROVE AloneInv'
  <2>1. /\ op' = [op EXCEPT ![c] = "ensure"] /\ loads' = [loads EXCEPT ![c] = <<s>>]
        /\ pc' = [pc EXCEPT ![c] = "scan"] /\ unloads' = unloads
    BY <1>5 DEF Ensure
  <2>2. op'[c] = "ensure" /\ pc'[c] = "scan" /\ Len(loads'[c]) = 1
    BY <1>1, <2>1 DEF Types, TypeOK
  <2>3. Drained(c)' /\ Evicts(c)' /\ LaysOut(c)'
    BY <2>2, KindAssumption DEF Drained, Evicts, LaysOut
  <2> QED BY <1>1, <1>2, <2>1, <2>3, OneClient DEF Types, TypeOK
<1> QED
  BY <1>3, <1>4, <1>5 DEF Request, Load, Unload, UnloadAll
LEMMA ScanAlone ==
  ASSUME RegistryInv, AloneInv, NEW c \in Client, EnsureScan(c)
  PROVE  AloneInv'
<1> DEFINE s == Head(loads[c])
           O == Overlapping(s)
<1>1. Types /\ pc[c] = "scan" /\ op[c] = "ensure" /\ Len(loads[c]) = 1
  BY DEF RegistryInv, EnsureScan, AloneInv, Drained, Evicts
<1>2. PICK evict \in InOrder(O) :
        Plan(c, "ensure", [j \in 1 .. Len(evict) |-> slot[instances[evict[j]]].name], loads[c])
  BY DEF EnsureScan
<1> DEFINE us == [j \in 1 .. Len(evict) |-> slot[instances[evict[j]]].name]
<1>3. /\ Cardinality(O) \in Nat /\ evict \in [1 .. Cardinality(O) -> O]
      /\ \A j \in O : \E k \in 1 .. Cardinality(O) : evict[k] = j
  <2>1. Len(instances) \in Nat /\ O \in SUBSET (1 .. Len(instances))
    BY <1>1 DEF Types, TypeOK, Overlapping
  <2> HIDE DEF O
  <2> QED BY <2>1, InOrderAll
<1>4. Len(evict) = Cardinality(O) /\ Len(us) = Cardinality(O)
  <2>1. evict \in Seq(O) /\ Len(evict) = Cardinality(O)
    BY <1>3
  <2> QED BY <1>3, <2>1
<1>5. /\ slot' = slot /\ Listed' = Listed /\ alone' = alone
      /\ Proceed(c, "ensure", us, loads[c])
  BY <1>2 DEF Plan, EnsureScan, tableVars, Listed
<1>6. ASSUME NEW i \in Listed, Overlaps(i, s)
      PROVE  \E k \in 1 .. Len(us) : us[k] = slot[i].name
  <2>1. PICK j \in 1 .. Len(instances) : instances[j] = i
    BY DEF Listed
  <2>2. j \in O
    BY <1>6, <2>1 DEF Overlapping
  <2>3. PICK k \in 1 .. Cardinality(O) : evict[k] = j
    BY <1>3, <2>2
  <2> QED BY <1>4, <2>1, <2>3
<1> HIDE DEF us
<1>7. /\ unloads'[c] = us /\ loads'[c] = loads[c] /\ pc'[c] # "scan"
      /\ pc'[c] # "idle" => op'[c] = "ensure"
      /\ pc'[c] = "load" => unloads'[c] = <<>>
  BY <1>1, <1>5, ProceedLeaves
<1>8. Evicts(c)'
  BY <1>1, <1>5, <1>6, <1>7 DEF Evicts, Overlaps, Owed
<1>9. Drained(c)' /\ LaysOut(c)'
  BY <1>7, KindAssumption DEF Drained, LaysOut
<1>10. pc[c] # "idle"
  BY <1>1
<1> QED
  BY <1>1, <1>5, <1>8, <1>9, <1>10, ProceedLeaves, WorkAlone, OneClient

\* One name less on the list: the slot that had it is out of the table.
LEMMA NameDone ==
  ASSUME AloneInv, NEW c \in Client, pc[c] = "unload",
         unloads[c] \in Seq(Name), unloads[c] # <<>>,
         slot' = slot, Listed' \subseteq Listed, alone' = alone,
         \A i \in Listed' : slot[i].name # Head(unloads[c]),
         unloads'[c] = Tail(unloads[c]), loads'[c] = loads[c], pc'[c] # "scan",
         pc'[c] # "idle" => op'[c] = op[c],
         pc'[c] = "load" => unloads'[c] = <<>>
  PROVE  Drained(c)' /\ Evicts(c)' /\ LaysOut(c)'
<1>1. ASSUME NEW i \in Listed', Owed(c, i) PROVE Owed(c, i)'
  <2>1. PICK j \in 1 .. Len(unloads[c]) : unloads[c][j] = slot[i].name
    BY <1>1 DEF Owed
  <2>2. unloads[c][j] # Head(unloads[c])
    BY <2>1
  <2>3. \E k \in 1 .. Len(Tail(unloads[c])) : Tail(unloads[c])[k] = unloads[c][j]
    BY <2>2, OnTail
  <2> QED BY <2>1, <2>3 DEF Owed
<1>2. Drained(c)'
  BY DEF Drained
<1>3. Evicts(c)'
  BY <1>1 DEF AloneInv, Evicts, Overlaps
<1>4. LaysOut(c)'
  <2>1. SUFFICES ASSUME op'[c] \in DOMAIN Profile, pc'[c] # "idle"
                 PROVE  LaysOut(c)'
    BY DEF LaysOut
  <2>2. op'[c] = op[c] /\ Tried(op[c], loads[c]) = 0
    BY <2>1 DEF AloneInv, LaysOut
  <2> QED
    BY <1>1, <2>1, <2>2 DEF AloneInv, LaysOut, AmongFirst, FirstListed
<1> QED
  BY <1>2, <1>3, <1>4

LEMMA RemoveAlone ==
  ASSUME RegistryInv, AloneInv, NEW c \in Client, Remove(c)
  PROVE  AloneInv'
<1> DEFINE n == Head(unloads[c])
           in == byName[n]
<1>1. /\ Types /\ Consistent /\ ListedInv
      /\ pc[c] = "unload" /\ n \in Name /\ in # None
      /\ unloads' = [unloads EXCEPT ![c] = Tail(unloads[c])]
      /\ pc' = [pc EXCEPT ![c] = "stop"]
      /\ slot' = slot /\ op' = op /\ loads' = loads /\ alone' = alone
  BY DEF RegistryInv, Remove, Loaded
<1>2. PICK k \in 1 .. Len(instances) : instances[k] = in /\ instances' = Without(instances, k)
  BY DEF Remove
<1>3. Listed' = Listed \ {in}
  BY <1>1, <1>2, RemovedFromList DEF Consistent
<1>4. \A i \in Listed' : slot[i].name # n
  BY <1>1, <1>3 DEF Consistent
<1>5. unloads[c] \in Seq(Name) /\ unloads[c] # <<>>
  BY <1>1 DEF RegistryInv, Carries, Types, TypeOK
<1>6. /\ unloads'[c] = Tail(unloads[c]) /\ loads'[c] = loads[c] /\ pc'[c] = "stop"
      /\ op'[c] = op[c]
      /\ \A d \in Client \ {c} : /\ pc'[d] = pc[d] /\ op'[d] = op[d]
                                 /\ unloads'[d] = unloads[d] /\ loads'[d] = loads[d]
  BY <1>1 DEF Types, TypeOK
<1>7. Drained(c)' /\ Evicts(c)' /\ LaysOut(c)'
  BY <1>1, <1>3, <1>4, <1>5, <1>6, NameDone
<1> QED
  BY <1>1, <1>6, <1>7, WorkAlone, OneClient

LEMMA NotLoadedAlone ==
  ASSUME RegistryInv, AloneInv, NEW c \in Client, NotLoaded(c)
  PROVE  AloneInv'
<1>1. /\ Types /\ Consistent /\ ListedInv
      /\ pc[c] = "unload" /\ ~Loaded(Head(unloads[c]))
      /\ Proceed(c, op[c], Tail(unloads[c]), loads[c])
      /\ slot' = slot /\ Listed' = Listed /\ alone' = alone
  BY DEF RegistryInv, NotLoaded, tableVars, Listed
<1>2. \A i \in Listed : slot[i].name # Head(unloads[c])
  <2> SUFFICES ASSUME NEW i \in Listed PROVE slot[i].name # Head(unloads[c])
    OBVIOUS
  <2>1. byName[slot[i].name] = i /\ slot[i].name \in Name /\ i \in Inst
    BY <1>1, SlotAssumption DEF Consistent, ListedInv, Listed, Types, TypeOK
  <2> QED BY <1>1, <2>1, InstAssumption DEF Loaded
<1>3. unloads[c] \in Seq(Name) /\ unloads[c] # <<>>
  BY <1>1 DEF RegistryInv, Carries, Types, TypeOK
<1>4. Drained(c)' /\ Evicts(c)' /\ LaysOut(c)'
  BY <1>1, <1>2, <1>3, ProceedLeaves, NameDone
<1> QED
  BY <1>1, <1>4, ProceedLeaves, WorkAlone, OneClient

LEMMA StopHeldAlone ==
  ASSUME RegistryInv, AloneInv, NEW c \in Client, StopHeld(c)
  PROVE  AloneInv'
<1>1. /\ Types /\ pc[c] = "stop"
      /\ Proceed(c, op[c], unloads[c], loads[c])
      /\ slot' = slot /\ Listed' = Listed /\ alone' = alone
  BY DEF RegistryInv, StopHeld, tableVars, Listed
<1>2. /\ unloads'[c] = unloads[c] /\ loads'[c] = loads[c] /\ pc'[c] # "scan"
      /\ pc'[c] # "idle" => op'[c] = op[c]
      /\ pc'[c] = "load" => unloads'[c] = <<>>
  BY <1>1, ProceedLeaves
<1>3. Drained(c)' /\ Evicts(c)' /\ LaysOut(c)'
  <2>1. Drained(c)' /\ Evicts(c)'
    BY <1>1, <1>2 DEF AloneInv, Drained, Evicts, Owed, Overlaps
  <2>2. LaysOut(c)'
    BY <1>1, <1>2 DEF AloneInv, LaysOut, Owed, AmongFirst, FirstListed
  <2> QED BY <2>1, <2>2
<1> QED
  BY <1>1, <1>3, ProceedLeaves, WorkAlone, OneClient

\* A list is empty exactly when its length is 0.
LEMMA NoneLeft == ASSUME NEW S, NEW list \in Seq(S) PROVE list = <<>> <=> Len(list) = 0
OBVIOUS

\* What is left of a list when its first r elements are gone, and one more goes.
LEMMA OneLess ==
  ASSUME NEW S, NEW whole \in Seq(S), NEW list \in Seq(S), list # <<>>,
         NEW r \in Nat, Len(whole) - Len(list) = r,
         \A j \in 1 .. Len(list) : list[j] = whole[r + j]
  PROVE  /\ r + 1 \in 1 .. Len(whole) /\ Head(list) = whole[r + 1]
         /\ Len(whole) - Len(Tail(list)) = r + 1
         /\ Tail(list) = <<>> => r + 1 = Len(whole)
         /\ \A j \in 1 .. Len(Tail(list)) : Tail(list)[j] = whole[r + 1 + j]
<1> DEFINE a == Len(whole)
           b == Len(list)
           rest == Tail(list)
           d == Len(rest)
<1>1. /\ a \in Nat /\ b \in Nat /\ b > 0 /\ rest \in Seq(S) /\ d = b - 1
      /\ Head(list) = list[1]
      /\ \A j \in 1 .. d : rest[j] = list[j + 1]
  OBVIOUS
<1>2. rest = <<>> => d = 0
  BY <1>1, NoneLeft
<1>3. a - b = r /\ \A j \in 1 .. b : list[j] = whole[r + j]
  OBVIOUS
<1> HIDE DEF a, b, rest, d
<1>4. r + 1 \in 1 .. a /\ a - d = r + 1 /\ (d = 0 => r + 1 = a) /\ 1 \in 1 .. b
  BY <1>1, <1>3
<1>5. ASSUME NEW j \in 1 .. d PROVE rest[j] = whole[r + 1 + j]
  <2>1. j + 1 \in 1 .. b /\ r + (j + 1) = r + 1 + j
    BY <1>1
  <2>2. list[j + 1] = whole[r + (j + 1)]
    BY <1>3, <2>1
  <2>3. rest[j] = list[j + 1]
    BY <1>1
  <2> QED BY <2>1, <2>2, <2>3
<1>6. Head(list) = whole[r + 1]
  BY <1>1, <1>3, <1>4
<1> QED
  BY <1>2, <1>4, <1>5, <1>6 DEF a, rest, d

\* A slot more is listed, or refused, and a slot less is left to load.
LEMMA LoadAlone ==
  ASSUME RegistryInv, AloneInv, NEW c \in Client, Insert(c) \/ LoadFails(c)
  PROVE  /\ AloneInv'
         /\ op[c] \in DOMAIN Profile /\ alone[c] =>
              LET r == Tried(op[c], loads[c]) + 1
              IN  /\ \A i \in Listed' : AmongFirst(op[c], r, slot'[i])
                  /\ FirstListed(op[c], r, Listed', slot')
                  /\ pc'[c] = "idle" => r = Len(Profile[op[c]])
<1> DEFINE s == Head(loads[c])
<1>1. /\ Types /\ Consistent /\ ListedInv /\ pc[c] = "load" /\ alone' = alone
      /\ Proceed(c, op[c], <<>>, Tail(loads[c]))
  BY DEF RegistryInv, Insert, LoadFails, LoadNext
<1>2. loads[c] \in Seq(Slot) /\ loads[c] # <<>> /\ unloads[c] = <<>>
  BY <1>1 DEF RegistryInv, Carries, Types, TypeOK, AloneInv, Drained
<1>3. /\ \A i \in Listed' : slot'[i] = s \/ (i \in Listed /\ slot'[i] = slot[i])
      /\ \A i \in Listed : i \in Listed' /\ slot'[i] = slot[i]
      /\ \/ \E i \in Listed' : slot'[i] = s
         \/ s \in Fragile
         \/ \E i \in Listed : slot[i].name = s.name
  <2>1. CASE Insert(c)
    <3>1. PICK i \in Inst : Fresh(i) /\ instances' = Append(instances, i) /\ slot' = [slot EXCEPT ![i] = s]
      BY <2>1 DEF Insert, New
    <3>2. Listed' = Listed \cup {i}
      BY <1>1, <3>1, AppendedToList DEF Fresh, Consistent
    <3>3. Listed \subseteq Inst /\ i \notin Listed
      BY <1>1, <3>1 DEF Listed, Types, TypeOK, Fresh
    <3>4. slot'[i] = s /\ \A j \in Listed : slot'[j] = slot[j]
      BY <1>1, <3>1, <3>3 DEF Types, TypeOK
    <3> QED BY <3>2, <3>4
  <2>2. CASE LoadFails(c)
    <3>1. slot' = slot /\ Listed' = Listed /\ (byName[s.name] # None \/ s \in Fragile)
      BY <2>2 DEF LoadFails, tableVars, Listed
    <3>2. s \in Slot /\ s.name \in Name
      BY <1>2, SlotAssumption
    <3> QED BY <1>1, <3>1, <3>2 DEF Consistent
  <2> QED BY <2>1, <2>2
<1>4. /\ unloads'[c] = <<>> /\ loads'[c] = Tail(loads[c]) /\ pc'[c] # "scan"
      /\ pc'[c] # "idle" => op'[c] = op[c]
      /\ Tail(loads[c]) = <<>> => pc'[c] = "idle"
  <2> DEFINE ls == Tail(loads[c])
             us == <<>>
  <2>1. Proceed(c, op[c], us, ls)
    BY <1>1
  <2>2. us = <<>>
    OBVIOUS
  <2> HIDE DEF ls, us
  <2>3. /\ unloads'[c] = us /\ loads'[c] = ls /\ pc'[c] # "scan"
        /\ pc'[c] # "idle" => op'[c] = op[c]
        /\ us = <<>> /\ ls = <<>> => pc'[c] = "idle"
    BY <1>1, <2>1, ProceedLeaves
  <2> QED BY <2>2, <2>3 DEF ls
<1>5. \A i : ~Owed(c, i)
  BY <1>2 DEF Owed
<1>6. Drained(c)'
  BY <1>4 DEF Drained
<1>7. Evicts(c)'
  <2>1. op[c] = "ensure" => Len(loads[c]) = 1
    BY <1>1 DEF AloneInv, Evicts
  <2>2. op[c] = "ensure" => Tail(loads[c]) \in Seq(Slot) /\ Len(Tail(loads[c])) = 0
    BY <1>2, <2>1
  <2>3. op[c] = "ensure" => Tail(loads[c]) = <<>>
    BY <2>2, NoneLeft
  <2> QED BY <1>4, <2>3 DEF Evicts
<1> DEFINE n == op[c]
           r == Tried(n, loads[c])
<1>8. ASSUME n \in DOMAIN Profile
      PROVE  /\ r \in Nat /\ r + 1 \in 1 .. Len(Profile[n]) /\ s = Profile[n][r + 1]
             /\ Tried(n, Tail(loads[c])) = r + 1
             /\ Tail(loads[c]) = <<>> => r + 1 = Len(Profile[n])
             /\ \A j \in 1 .. Len(Tail(loads[c])) : Tail(loads[c])[j] = Profile[n][r + 1 + j]
  <2>1. /\ r \in Nat /\ \A j \in 1 .. Len(loads[c]) : loads[c][j] = Profile[n][r + j]
    BY <1>1, <1>8 DEF AloneInv, LaysOut
  <2>2. Profile[n] \in Seq(Slot) /\ Len(Profile[n]) - Len(loads[c]) = r
    BY <1>8, ProfileAssumption DEF Tried
  <2> HIDE DEF r, n
  <2>3. /\ r + 1 \in 1 .. Len(Profile[n]) /\ s = Profile[n][r + 1]
        /\ Len(Profile[n]) - Len(Tail(loads[c])) = r + 1
        /\ Tail(loads[c]) = <<>> => r + 1 = Len(Profile[n])
        /\ \A j \in 1 .. Len(Tail(loads[c])) : Tail(loads[c])[j] = Profile[n][r + 1 + j]
    <3> DEFINE whole == Profile[n]
               list == loads[c]
    <3>1. /\ whole \in Seq(Slot) /\ list \in Seq(Slot) /\ list # <<>> /\ r \in Nat
          /\ Len(whole) - Len(list) = r /\ \A j \in 1 .. Len(list) : list[j] = whole[r + j]
      BY <1>2, <2>1, <2>2
    <3> HIDE DEF whole, list
    <3>2. /\ r + 1 \in 1 .. Len(whole) /\ Head(list) = whole[r + 1]
          /\ Len(whole) - Len(Tail(list)) = r + 1
          /\ Tail(list) = <<>> => r + 1 = Len(whole)
          /\ \A j \in 1 .. Len(Tail(list)) : Tail(list)[j] = whole[r + 1 + j]
      BY <3>1, OneLess
    <3> QED BY <3>2 DEF whole, list
  <2> QED BY <2>1, <2>3 DEF Tried
<1>9. ASSUME n \in DOMAIN Profile, alone[c]
      PROVE  /\ \A i \in Listed' : AmongFirst(n, r + 1, slot'[i])
             /\ FirstListed(n, r + 1, Listed', slot')
  <2>1. /\ \A i \in Listed : AmongFirst(n, r, slot[i])
        /\ FirstListed(n, r, Listed, slot)
    BY <1>1, <1>5, <1>9 DEF AloneInv, LaysOut
  <2>2. r \in Nat /\ s = Profile[n][r + 1]
    BY <1>8, <1>9
  <2> HIDE DEF r, s, n
  <2>3. /\ 1 .. r \subseteq 1 .. r + 1 /\ r + 1 \in 1 .. r + 1
        /\ \A j \in 1 .. r + 1 : j \in 1 .. r \/ j = r + 1
        /\ \A j \in 1 .. r : j \in 1 .. (r + 1) - 1
    BY <2>2
  <2>4. \A i \in Listed' : AmongFirst(n, r + 1, slot'[i])
    BY <1>3, <2>1, <2>2, <2>3 DEF AmongFirst
  <2>5. ASSUME NEW j \in 1 .. r + 1, Certain(Profile[n], j)
        PROVE  \E i \in Listed' : slot'[i] = Profile[n][j]
    <3>1. CASE j \in 1 .. r
      BY <1>3, <2>1, <2>5, <3>1 DEF FirstListed
    <3>2. CASE j = r + 1
      <4>1. s \notin Fragile /\ \A k \in 1 .. r : Profile[n][k].name # s.name
        BY <2>2, <2>3, <2>5, <3>2 DEF Certain
      <4>2. ~\E i \in Listed : slot[i].name = s.name
        BY <2>1, <4>1 DEF AmongFirst
      <4> QED BY <1>3, <2>2, <3>2, <4>1, <4>2
    <3> QED BY <2>3, <3>1, <3>2
  <2> QED BY <2>4, <2>5 DEF FirstListed
<1>10. LaysOut(c)'
  <2> SUFFICES ASSUME op'[c] \in DOMAIN Profile, pc'[c] # "idle" PROVE LaysOut(c)'
    BY DEF LaysOut
  <2>1. op'[c] = n /\ loads'[c] = Tail(loads[c]) /\ alone'[c] = alone[c] /\ pc'[c] = "load"
    BY <1>1, <1>4 DEF Proceed, Stage, Types, TypeOK
  <2>2. Tried(n, loads'[c]) = r + 1 /\ r + 1 \in Nat
    BY <1>8, <2>1
  <2>3. \A j \in 1 .. Len(loads'[c]) : loads'[c][j] = Profile[n][r + 1 + j]
    BY <1>8, <2>1
  <2> HIDE DEF r, n
  <2> QED BY <1>9, <2>1, <2>2, <2>3 DEF LaysOut
<1>11. n \in DOMAIN Profile /\ pc'[c] = "idle" => r + 1 = Len(Profile[n])
  <2>1. pc'[c] = "idle" => Tail(loads[c]) = <<>>
    BY <1>1 DEF Proceed, Stage, Types, TypeOK
  <2> QED BY <1>8, <2>1
<1>12. AloneInv'
  BY <1>1, <1>6, <1>7, <1>10, ProceedLeaves, WorkAlone, OneClient
<1> QED
  BY <1>9, <1>11, <1>12

\* Nobody else touches the table or the lists.
LEMMA RestAlone ==
  ASSUME AloneInv, UNCHANGED <<instances, slot, clientVars>>
  PROVE  AloneInv'
BY DEF AloneInv, clientVars, Solitary, Drained, Evicts, LaysOut, Owed, AmongFirst, FirstListed,
       Overlaps, Listed

LEMMA OthersLeaveTable ==
  ASSUME [Next]_vars, ~\E c \in Client : Request(c) \/ Work(c)
  PROVE  UNCHANGED <<instances, slot, clientVars>>
<1>1. CASE StopAll
  BY <1>1 DEF StopAll, StopAllBegins, StopAllNext, StopAllEnds, tableVars
<1>2. ASSUME NEW i \in Inst, HealthChanges(i) \/ Poll(i) PROVE UNCHANGED <<instances, slot, clientVars>>
  BY <1>2 DEF HealthChanges, Poll, PollLoop, PollAnswered, PollLost, PollReport, PollFrame, tableVars
<1>3. ASSUME NEW s \in Slot, UpstreamChanges(s) PROVE UNCHANGED <<instances, slot, clientVars>>
  BY <1>3 DEF UpstreamChanges, tableVars
<1>4. CASE UNCHANGED vars
  BY <1>4 DEF vars, tableVars
<1> QED
  BY <1>1, <1>2, <1>3, <1>4 DEF Next

LEMMA AloneStep == RegistryInv /\ AloneInv /\ [Next]_vars => AloneInv'
<1> SUFFICES ASSUME RegistryInv, AloneInv, [Next]_vars PROVE AloneInv'
  OBVIOUS
<1>1. ASSUME NEW c \in Client, Request(c) \/ Work(c) PROVE AloneInv'
  BY <1>1, RequestAlone, ScanAlone, RemoveAlone, NotLoadedAlone, StopHeldAlone, LoadAlone DEF Work
<1>2. CASE ~\E c \in Client : Request(c) \/ Work(c)
  BY <1>2, OthersLeaveTable, RestAlone
<1> QED
  BY <1>1, <1>2

LEMMA AloneInvHolds == Spec => []AloneInv
<1>1. Init => AloneInv
  BY DEF Init, AloneInv, Solitary, Drained, Evicts, LaysOut
<1> QED
  BY <1>1, AloneStep, RegistryInvHolds, PTL DEF Spec

\* Ensure swaps in cleanly: when it adds its slot and no other request was under
\* way, no listed slot is on one of its GPUs, however many it had to evict and
\* whatever else (StopAll, supervisors, pollers) runs (SwapClean).
THEOREM EnsureSwapsCleanly == Spec => SwapClean
<1> DEFINE A == \A c \in Client :
                  alone[c] /\ op[c] = "ensure" /\ pc[c] = "load" /\ pc'[c] = "idle" /\ instances' # instances
                    => \A i \in Listed : ~Overlaps(i, Head(loads[c]))
<1>1. AloneInv => A
  BY DEF AloneInv, Evicts, Drained, Owed
<1> HIDE DEF A
<1>2. Spec => [][A]_vars
  BY <1>1, AloneInvHolds, PTL
<1> QED
  BY <1>2 DEF SwapClean, A

\* ApplyProfile leaves its layout and nothing else: when it returns and no other
\* request was under way, every listed slot is one of the profile's, and every
\* slot of the profile that resolves and whose name no earlier one has is
\* listed, whichever others were refused (ProfileExact).
THEOREM ProfileIsExact == Spec => ProfileExact
<1> DEFINE A == \A c \in Client :
                  alone[c] /\ op[c] \in DOMAIN Profile /\ pc[c] # "idle" /\ pc'[c] = "idle"
                    => LET slots == Profile[op[c]] IN
                       /\ \A i \in Listed' : \E j \in DOMAIN slots : slot'[i] = slots[j]
                       /\ \A j \in DOMAIN slots :
                            Certain(slots, j) => \E i \in Listed' : slot'[i] = slots[j]
<1>1. RegistryInv /\ AloneInv /\ [Next]_vars => A
  <2> SUFFICES ASSUME RegistryInv, AloneInv, [Next]_vars, NEW c \in Client,
                      alone[c], op[c] \in DOMAIN Profile, pc[c] # "idle", pc'[c] = "idle"
               PROVE  /\ \A i \in Listed' : AmongFirst(op[c], Len(Profile[op[c]]), slot'[i])
                      /\ FirstListed(op[c], Len(Profile[op[c]]), Listed', slot')
    BY ProfileAssumption DEF AmongFirst, FirstListed, A
  <2>1. PICK d \in Client : Request(d) \/ Work(d)
    BY OthersLeaveTable DEF clientVars
  <2>2. d = c /\ Work(c)
    <3>1. CASE Work(d)
      <4>1. pc[d] # "idle"
        BY <3>1 DEF Work, EnsureScan, Remove, NotLoaded, StopHeld, Insert, LoadFails
      <4> QED BY <3>1, <4>1 DEF AloneInv, Solitary
    <3>2. CASE Request(d)
      <4>1. pc[d] = "idle" /\ \E l : pc' = [pc EXCEPT ![d] = l]
        BY <3>2 DEF Request, Load, Unload, UnloadAll, ApplyProfile, Ensure, Begin, Arrives, Plan, Proceed
      <4>2. d # c
        BY <4>1
      <4> QED BY <4>1, <4>2 DEF RegistryInv, Types, TypeOK
    <3> QED BY <2>1, <3>1, <3>2
  <2> DEFINE n == op[c]
             r == Tried(n, loads[c])
  <2>3. /\ pc[c] # "load" => r = 0
        /\ \A i \in Listed : Owed(c, i) \/ AmongFirst(n, r, slot[i])
        /\ FirstListed(n, r, Listed, slot)
    BY DEF AloneInv, LaysOut
  <2>b. loads[c] = <<>> => r = Len(Profile[n])
    <3>1. Len(Profile[n]) \in Nat
      BY ProfileAssumption
    <3> QED BY <3>1 DEF Tried
  <2>4. CASE Remove(c)
    BY <2>4 DEF Remove, RegistryInv, Types, TypeOK
  <2>5. CASE EnsureScan(c)
    BY <2>5, KindAssumption DEF EnsureScan, AloneInv, Drained
  <2>6. CASE NotLoaded(c)
    <3>1. /\ Types /\ Consistent /\ ListedInv /\ slot' = slot /\ Listed' = Listed
          /\ pc[c] = "unload" /\ ~Loaded(Head(unloads[c]))
          /\ Proceed(c, op[c], Tail(unloads[c]), loads[c])
      BY <2>6 DEF RegistryInv, NotLoaded, tableVars, Listed
    <3>2. unloads[c] \in Seq(Name) /\ unloads[c] # <<>>
      BY <3>1 DEF RegistryInv, Carries, Types, TypeOK
    <3>3. Tail(unloads[c]) = <<>> /\ loads[c] = <<>>
      BY <3>1 DEF Proceed, Stage, Types, TypeOK
    <3>4. Len(Tail(unloads[c])) = 0
      BY <3>2, <3>3, OnTail, NoneLeft
    <3>5. ASSUME NEW i \in Listed PROVE ~Owed(c, i)
      <4>1. byName[slot[i].name] = i /\ slot[i].name \in Name /\ i \in Inst
        BY <3>1, SlotAssumption DEF Consistent, ListedInv, Listed, Types, TypeOK
      <4>2. slot[i].name # Head(unloads[c])
        BY <3>1, <4>1, InstAssumption DEF Loaded
      <4>3. \A j \in 1 .. Len(unloads[c]) : unloads[c][j] = Head(unloads[c])
        BY <3>2, <3>4, OnTail
      <4> QED BY <4>2, <4>3 DEF Owed
    <3> QED BY <2>3, <2>b, <3>1, <3>3, <3>5 DEF FirstListed
  <2>7. CASE StopHeld(c)
    <3>1. /\ Types /\ slot' = slot /\ Listed' = Listed
          /\ Proceed(c, op[c], unloads[c], loads[c])
      BY <2>7 DEF RegistryInv, StopHeld, tableVars, Listed
    <3>2. unloads[c] = <<>> /\ loads[c] = <<>>
      BY <3>1 DEF Proceed, Stage, Types, TypeOK
    <3> QED BY <2>3, <2>b, <3>1, <3>2 DEF Owed, FirstListed
  <2>8. CASE Insert(c) \/ LoadFails(c)
    BY <2>8, LoadAlone
  <2> QED
    BY <2>2, <2>4, <2>5, <2>6, <2>7, <2>8 DEF Work
<1> HIDE DEF A
<1>2. Spec => [][A]_vars
  BY <1>1, AloneInvHolds, RegistryInvHolds, PTL DEF Spec
<1> QED
  BY <1>2 DEF ProfileExact, A
=============================================================================
