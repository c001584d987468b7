-------------------------- MODULE SupervisorProofs --------------------------
(***************************************************************************)
(* Proofs about Supervisor, for any number of slots, processes, ports and  *)
(* stoppers.                                                               *)
(***************************************************************************)
EXTENDS Supervisor, TLAPS

(***************************************************************************)
(* Typing.                                                                 *)
(***************************************************************************)
\* Every step of the supervise goroutines, the stoppers and the operating
\* system keeps every variable in its type; in particular the retry delay,
\* doubled by each failed launch, stays below twice BackoffLimit.
THEOREM Typing == Spec => []TypeOK
<1>1. Init => TypeOK
  BY BackoffAssumption DEF Init, TypeOK, State, Location, Life
<1>2. TypeOK /\ [Next]_vars => TypeOK'
  <2> SUFFICES ASSUME TypeOK, [Next]_vars PROVE TypeOK'
    OBVIOUS
  <2> USE DEF TypeOK, Location, State, Life, supVars, procVars, stopVars
  <2>1. ASSUME NEW i \in Slot, Supervise(i) PROVE TypeOK'
    <3>1. CASE Sleep(i)
      BY <3>1, BackoffAssumption, SMT DEF Sleep, Goto
    <3>2. CASE Up(i)
      BY <3>2, BackoffAssumption, SMT DEF Up, Goto, SetState
    <3>3. CASE Spawn(i)
      BY <3>3 DEF Spawn, Goto
    <3>4. CASE Publish(i)
      BY <3>4 DEF Publish, Goto
    <3>5. CASE Check(i) \/ BeginLaunch(i) \/ ProbeFree(i) \/ ProbeHeld(i) \/ SpawnFails(i)
      BY <3>5 DEF Check, BeginLaunch, ProbeFree, ProbeHeld, SpawnFails, Goto, SetState
    <3>6. CASE Poll(i) \/ HealthOK(i) \/ HealthNotYet(i) \/ HealthTimeout(i)
      BY <3>6 DEF Poll, HealthOK, HealthNotYet, HealthTimeout, Goto
    <3>7. CASE WaitExit(i) \/ Exited(i) \/ SetCrashed(i) \/ Recheck(i)
      BY <3>7 DEF WaitExit, Exited, SetCrashed, Recheck, Goto, SetState
    <3> QED
      BY <2>1, <3>1, <3>2, <3>3, <3>4, <3>5, <3>6, <3>7 DEF Supervise
  <2>2. ASSUME NEW k \in Stopper, NEW i \in Slot, Stop(k, i) PROVE TypeOK'
    <3>1. CASE RequestStop(k, i)
      BY <3>1 DEF RequestStop, StopAt
    <3>2. CASE Kill(k, i)
      BY <3>2 DEF Kill, StopAt, Running
    <3>3. CASE MarkStopped(k, i)
      BY <3>3 DEF MarkStopped, StopAt, SetState
    <3> QED
      BY <2>2, <3>1, <3>2, <3>3 DEF Stop
  <2>3. ASSUME NEW p \in Proc,
               Bind(p) \/ BindFails(p) \/ BecomeReady(p)
                 \/ Crash(p) \/ KillTakesEffect(p) \/ Reap(p)
        PROVE  TypeOK'
    BY <2>3 DEF Bind, BindFails, BecomeReady, Crash, KillTakesEffect, Reap, End
  <2>4. ASSUME NEW port \in Port, Squat(port) \/ Leave(port) PROVE TypeOK'
    BY <2>4 DEF Squat, Leave
  <2>5. CASE UNCHANGED vars
    BY <2>5 DEF vars
  <2> QED
    BY <2>1, <2>2, <2>3, <2>4, <2>5 DEF Next, OS
<1> QED
  BY <1>1, <1>2, PTL DEF Spec

(***************************************************************************)
(* The inductive invariant.  Each part ties what a process is doing to the  *)
(* place its supervisor has reached.                                       *)
(***************************************************************************)
\* launch's local cmd is set exactly between Start and its publication, and is
\* a process of this slot whose exit has not been collected.
ChildInv ==
  \A i \in Slot :
    /\ (pc[i] = "publish") <=> (child[i] # None)
    /\ pc[i] = "publish" => /\ owner[child[i]] = i
                            /\ life[child[i]] \notin {"unborn", "reaped"}

\* in.cmd is a process started for this slot, and launch has published one
\* wherever supervise waits for an exit.
CmdInv ==
  \A i \in Slot :
    /\ cmd[i] # None => owner[cmd[i]] = i /\ life[cmd[i]] # "unborn"
    /\ pc[i] \in {"poll", "get", "up", "wait", "exited", "crash"} => cmd[i] # None
    /\ pc[i] \in {"exited", "crash"} => life[cmd[i]] = "reaped"

\* Only a live process holds a port, and every live process has an owner.
ProcInv ==
  /\ \A p \in listening : Live(p)
  /\ \A p \in Proc : Live(p) => owner[p] \in Slot

\* What a stopper read was a process of its own, and what it has killed does
\* not come back.
VictimInv ==
  \A k \in Stopper, i \in Slot : victim[k][i] \in Proc =>
    /\ life[victim[k][i]] # "unborn"
    /\ stopPc[k][i] \in {"mark", "end"} => ~Running(victim[k][i])

\* Unless a load of the slot outlasted the deadline, a live process is the one its supervisor is attending to,
\* or the one a stopped supervisor has walked away from.
Attended(p, i) ==
  \/ pc[i] = "publish" /\ p = child[i]
  \/ pc[i] \in {"poll", "get", "up", "wait"} /\ p = cmd[i]
  \/ pc[i] \in {"failed", "recheck", "done"} /\ stopping[i] /\ p = cmd[i]

AttendedInv ==
  \A p \in Proc : Live(p) /\ owner[p] \notin overran => Attended(p, owner[p])

SafetyInv ==
  /\ TypeOK
  /\ ChildInv
  /\ CmdInv
  /\ ProcInv
  /\ VictimInv
  /\ AttendedInv

\* A step that moves a supervisor without touching processes, in.cmd or
\* in.stopping: the shape shared by most steps of the supervise goroutine.
QuietMove(i, to) ==
  /\ pc' = [pc EXCEPT ![i] = to]
  /\ overran' = overran \/ overran' = overran \cup {i}
  /\ UNCHANGED <<stopping, cmd, child, life, owner, listening, stopPc, victim>>

\* Such a step preserves the invariant when the invariant's demands hold at the
\* location it goes to.
LEMMA QuietStep ==
  ASSUME SafetyInv, TypeOK', NEW i \in Slot, NEW to \in Location,
         QuietMove(i, to),
         pc[i] # "publish", to # "publish",
         to \in {"poll", "get", "up", "wait", "exited", "crash"} => cmd[i] # None,
         to \in {"exited", "crash"} => life[cmd[i]] = "reaped",
         i \notin overran' =>
           \A p \in Proc : Live(p) /\ owner[p] = i =>
             \/ to \in {"poll", "get", "up", "wait"} /\ p = cmd[i]
             \/ to \in {"failed", "recheck", "done"} /\ stopping[i] /\ p = cmd[i]
  PROVE  SafetyInv'
<1> USE DEF SafetyInv, QuietMove
<1>1. ChildInv'
  BY DEF ChildInv, TypeOK
<1>2. CmdInv'
  BY DEF CmdInv, TypeOK
<1>3. ProcInv'
  BY DEF ProcInv, Live
<1>4. VictimInv'
  BY DEF VictimInv, Running
<1>5. AttendedInv'
  <2> SUFFICES ASSUME NEW p \in Proc, Live(p), owner[p] \notin overran'
               PROVE  Attended(p, owner[p])'
    BY DEF AttendedInv, Live
  <2>1. Attended(p, owner[p]) /\ owner[p] \in Slot
    BY DEF AttendedInv, ProcInv
  <2>2. CASE owner[p] = i
    BY <2>2 DEF Attended, TypeOK
  <2>3. CASE owner[p] # i
    BY <2>1, <2>3 DEF Attended, TypeOK
  <2> QED BY <2>2, <2>3
<1> QED
  BY <1>1, <1>2, <1>3, <1>4, <1>5

\* A new process belongs to nobody: nothing the supervisors or stoppers hold
\* refers to it, so it is the only live process of its slot.
LEMMA SpawnStep ==
  ASSUME SafetyInv, TypeOK', NEW i \in Slot, Spawn(i) PROVE SafetyInv'
<1> USE DEF SafetyInv
<1>1. PICK p \in Proc : /\ Free(p)
                        /\ child' = [child EXCEPT ![i] = p]
                        /\ life'  = [life  EXCEPT ![p] = "loading"]
                        /\ owner' = [owner EXCEPT ![p] = i]
  BY DEF Spawn
<1>2. /\ pc[i] = "spawn" /\ pc' = [pc EXCEPT ![i] = "publish"]
      /\ UNCHANGED <<stopping, cmd, overran, listening, stopPc, victim>>
  BY DEF Spawn, Goto, stopVars
<1>3. ~Live(p) /\ p \notin listening
  BY <1>1 DEF Free, Live, ProcInv
<1>4. /\ \A j \in Slot : cmd[j] # p /\ child[j] # p
      /\ \A k \in Stopper, j \in Slot : victim[k][j] # p
  BY <1>1, NoneAssumption DEF Free, CmdInv, ChildInv, VictimInv
<1>5. ChildInv'
  BY <1>1, <1>2, <1>4, NoneAssumption DEF ChildInv, TypeOK
<1>6. CmdInv'
  BY <1>1, <1>2, <1>4 DEF CmdInv, TypeOK
<1>7. ProcInv'
  BY <1>1, <1>2, <1>3 DEF ProcInv, Live, TypeOK
<1>8. VictimInv'
  BY <1>1, <1>2, <1>4 DEF VictimInv, Running, TypeOK
<1>9. AttendedInv'
  <2> SUFFICES ASSUME NEW q \in Proc, Live(q)', owner'[q] \notin overran
               PROVE  Attended(q, owner[q])'
    BY <1>2 DEF AttendedInv
  <2>1. CASE q = p
    BY <1>1, <1>2, <2>1 DEF Attended, TypeOK
  <2>2. CASE q # p
    <3>1. Live(q) /\ owner'[q] = owner[q] /\ owner[q] \in Slot
      BY <1>1, <2>2 DEF Live, TypeOK, ProcInv
    <3>2. Attended(q, owner[q])
      BY <3>1 DEF AttendedInv
    <3>3. owner[q] # i
      BY <1>2, <3>2 DEF Attended
    <3> QED
      BY <1>1, <1>2, <3>1, <3>2, <3>3 DEF Attended, TypeOK
  <2> QED BY <2>1, <2>2
<1> QED
  BY <1>5, <1>6, <1>7, <1>8, <1>9

\* Publishing in.cmd hands the process over from launch's local variable.
LEMMA PublishStep ==
  ASSUME SafetyInv, TypeOK', NEW i \in Slot, Publish(i) PROVE SafetyInv'
<1> USE DEF SafetyInv
<1>1. /\ pc[i] = "publish" /\ pc' = [pc EXCEPT ![i] = "poll"]
      /\ cmd' = [cmd EXCEPT ![i] = child[i]]
      /\ child' = [child EXCEPT ![i] = None]
      /\ UNCHANGED <<stopping, life, owner, overran, listening, stopPc, victim>>
  BY DEF Publish, Goto, stopVars, procVars
<1>2. /\ child[i] \in Proc
      /\ owner[child[i]] = i
      /\ life[child[i]] \notin {"unborn", "reaped"}
  BY <1>1 DEF ChildInv, TypeOK
<1>3. ChildInv'
  BY <1>1 DEF ChildInv, TypeOK
<1>4. CmdInv'
  BY <1>1, <1>2, NoneAssumption DEF CmdInv, TypeOK
<1>5. ProcInv'
  BY <1>1 DEF ProcInv, Live
<1>6. VictimInv'
  BY <1>1 DEF VictimInv, Running
<1>7. AttendedInv'
  <2> SUFFICES ASSUME NEW q \in Proc, Live(q), owner[q] \notin overran
               PROVE  Attended(q, owner[q])'
    BY <1>1 DEF AttendedInv, Live
  <2>1. Attended(q, owner[q]) /\ owner[q] \in Slot
    BY DEF AttendedInv, ProcInv
  <2> QED
    BY <1>1, <2>1 DEF Attended, TypeOK
<1> QED
  BY <1>3, <1>4, <1>5, <1>6, <1>7

\* Every other step of a supervisor only moves it.
LEMMA SuperviseStep ==
  ASSUME SafetyInv, TypeOK', NEW i \in Slot, Supervise(i) PROVE SafetyInv'
<1> USE DEF SafetyInv
<1>b. overran \subseteq overran'
  BY DEF Supervise, Check, BeginLaunch, ProbeFree, ProbeHeld, Spawn, SpawnFails, Publish, Poll,
         HealthOK, HealthNotYet, HealthTimeout, Up, WaitExit, Exited, SetCrashed, Recheck, Sleep
<1>a. \A p \in Proc : i \notin overran' /\ Live(p) /\ owner[p] = i => Attended(p, i)
  BY <1>b DEF AttendedInv
<1> DEFINE Quiet(to) == to \in Location /\ QuietMove(i, to) /\ to # "publish"
<1>1. CASE Check(i)
  <2> DEFINE to == IF stopping[i] THEN "done" ELSE "launch"
  <2>1. pc[i] = "check" /\ Quiet(to)
    BY <1>1 DEF Check, Goto, QuietMove, Location, procVars, stopVars
  <2> QED BY <1>a, <2>1, QuietStep DEF Attended
<1>2. CASE BeginLaunch(i)
  <2>1. pc[i] = "launch" /\ Quiet("probe")
    BY <1>2 DEF BeginLaunch, Goto, QuietMove, Location, procVars, stopVars
  <2> QED BY <1>a, <2>1, QuietStep DEF Attended
<1>3. CASE ProbeFree(i)
  <2>1. pc[i] = "probe" /\ Quiet("spawn")
    BY <1>3 DEF ProbeFree, Goto, QuietMove, Location, procVars, stopVars
  <2> QED BY <1>a, <2>1, QuietStep DEF Attended
<1>4. CASE ProbeHeld(i) \/ SpawnFails(i)
  <2>1. pc[i] \in {"probe", "spawn"} /\ Quiet("failed")
    BY <1>4 DEF ProbeHeld, SpawnFails, Goto, QuietMove, Location, procVars, stopVars
  <2> QED BY <1>a, <2>1, QuietStep DEF Attended
<1>5. CASE Poll(i)
  <2> DEFINE to == IF stopping[i] \/ life[cmd[i]] = "reaped" THEN "failed" ELSE "get"
  <2>1. pc[i] = "poll" /\ Quiet(to)
    BY <1>5 DEF Poll, Goto, QuietMove, Location, procVars, stopVars
  <2>2. cmd[i] # None
    BY <2>1 DEF CmdInv
  <2>3. ASSUME i \notin overran', NEW p \in Proc, Live(p), owner[p] = i
        PROVE  p = cmd[i] /\ life[cmd[i]] # "reaped"
    BY <1>a, <2>1, <2>3 DEF Attended, Live
  <2> QED BY <2>1, <2>2, <2>3, QuietStep
<1>6. CASE HealthOK(i)
  <2>1. pc[i] = "get" /\ Quiet("up") /\ cmd[i] # None
    BY <1>6 DEF HealthOK, Goto, QuietMove, Location, procVars, stopVars, CmdInv
  <2> QED BY <1>a, <2>1, QuietStep DEF Attended
<1>7. CASE HealthNotYet(i)
  <2>1. pc[i] = "get" /\ Quiet("poll") /\ cmd[i] # None
    BY <1>7 DEF HealthNotYet, Goto, QuietMove, Location, procVars, stopVars, CmdInv
  <2> QED BY <1>a, <2>1, QuietStep DEF Attended
<1>8. CASE HealthTimeout(i)
  <2>1. i \in overran' /\ pc[i] = "get" /\ Quiet("failed")
    BY <1>8 DEF HealthTimeout, Goto, QuietMove, Location, procVars, stopVars
  <2> QED BY <2>1, QuietStep
<1>9. CASE Up(i)
  <2>1. pc[i] = "up" /\ Quiet("wait") /\ cmd[i] # None
    BY <1>9 DEF Up, Goto, QuietMove, Location, procVars, stopVars, CmdInv
  <2> QED BY <1>a, <2>1, QuietStep DEF Attended
<1>10. CASE WaitExit(i)
  <2>1. pc[i] = "wait" /\ Quiet("exited") /\ cmd[i] # None /\ life[cmd[i]] = "reaped"
    BY <1>10 DEF WaitExit, Goto, QuietMove, Location, procVars, stopVars, CmdInv
  <2> QED BY <1>a, <2>1, QuietStep DEF Attended, Live
<1>11. CASE Exited(i)
  <2> DEFINE to == IF stopping[i] THEN "done" ELSE "crash"
  <2>1. pc[i] = "exited" /\ Quiet(to) /\ cmd[i] # None /\ life[cmd[i]] = "reaped"
    BY <1>11 DEF Exited, Goto, QuietMove, Location, procVars, stopVars, CmdInv
  <2> QED BY <1>a, <2>1, QuietStep DEF Attended
<1>12. CASE SetCrashed(i)
  <2>1. pc[i] \in {"crash", "failed"} /\ Quiet("recheck")
    BY <1>12 DEF SetCrashed, Goto, QuietMove, Location, procVars, stopVars
  <2> QED BY <1>a, <2>1, QuietStep DEF Attended
<1>13. CASE Recheck(i)
  <2> DEFINE to == IF stopping[i] THEN "done" ELSE "sleep"
  <2>1. pc[i] = "recheck" /\ Quiet(to)
    BY <1>13 DEF Recheck, Goto, QuietMove, Location, procVars, stopVars
  <2> QED BY <1>a, <2>1, QuietStep DEF Attended
<1>14. CASE Sleep(i)
  <2>1. pc[i] = "sleep" /\ Quiet("check")
    BY <1>14 DEF Sleep, Goto, QuietMove, Location, procVars, stopVars
  <2> QED BY <1>a, <2>1, QuietStep DEF Attended
<1> QED
  BY <1>1, <1>2, <1>3, <1>4, <1>5, <1>6, <1>7, <1>8, <1>9, <1>10, <1>11, <1>12,
     <1>13, <1>14, SpawnStep, PublishStep DEF Supervise

\* A stopper reads in.cmd, kills what it read and marks the slot stopped.  It
\* moves no supervisor, and turns processes only from running to killed.
LEMMA StopStep ==
  ASSUME SafetyInv, TypeOK', NEW k \in Stopper, NEW i \in Slot, Stop(k, i)
  PROVE  SafetyInv'
<1> USE DEF SafetyInv
<1>1. CASE RequestStop(k, i)
  <2>1. /\ stopPc' = [stopPc EXCEPT ![k][i] = "kill"]
        /\ stopping' = [stopping EXCEPT ![i] = TRUE]
        /\ victim' = [victim EXCEPT ![k][i] = cmd[i]]
        /\ UNCHANGED <<pc, child, cmd, overran, life, owner, listening>>
    BY <1>1 DEF RequestStop, StopAt, supVars, procVars
  <2>2. ChildInv' /\ CmdInv' /\ ProcInv'
    BY <2>1 DEF ChildInv, CmdInv, ProcInv, Live
  <2>3. VictimInv'
    BY <2>1, NoneAssumption DEF VictimInv, CmdInv, Running, TypeOK
  <2>4. AttendedInv'
    BY <2>1 DEF AttendedInv, Attended, Live, TypeOK, ProcInv
  <2> QED BY <2>2, <2>3, <2>4
<1>2. CASE Kill(k, i)
  <2>1. /\ stopPc' = [stopPc EXCEPT ![k][i] = "mark"]
        /\ life' = [p \in Proc |-> IF p = victim[k][i] /\ Running(p)
                                   THEN "killed" ELSE life[p]]
        /\ UNCHANGED <<pc, child, cmd, overran, stopping, owner, listening, victim>>
    BY <1>2 DEF Kill, StopAt, supVars
  <2>2. \A p \in Proc : /\ Live(p)' <=> Live(p)
                        /\ Running(p)' => Running(p)
                        /\ life'[p] # life[p] => life[p] \in {"loading", "ready"}
                                                 /\ life'[p] = "killed"
                        /\ p = victim[k][i] => ~Running(p)'
    BY <2>1 DEF Live, Running
  <2>3. ChildInv'
    BY <2>1, <2>2 DEF ChildInv, TypeOK
  <2>4. CmdInv'
    BY <2>1, <2>2 DEF CmdInv, TypeOK
  <2>5. ProcInv'
    BY <2>1, <2>2 DEF ProcInv, TypeOK
  <2>6. VictimInv'
    BY <2>1, <2>2 DEF VictimInv, TypeOK
  <2>7. AttendedInv'
    BY <2>1, <2>2 DEF AttendedInv, Attended
  <2> QED BY <2>3, <2>4, <2>5, <2>6, <2>7
<1>3. CASE MarkStopped(k, i)
  <2>1. /\ stopPc[k][i] = "mark"
        /\ stopPc' = [stopPc EXCEPT ![k][i] = "end"]
        /\ UNCHANGED <<pc, child, cmd, overran, stopping, life, owner, listening, victim>>
    BY <1>3 DEF MarkStopped, StopAt, supVars, procVars
  <2>2. ChildInv' /\ CmdInv' /\ ProcInv' /\ AttendedInv'
    BY <2>1 DEF ChildInv, CmdInv, ProcInv, AttendedInv, Attended, Live
  <2>3. VictimInv'
    BY <2>1 DEF VictimInv, Running, TypeOK
  <2> QED BY <2>2, <2>3
<1> QED
  BY <1>1, <1>2, <1>3 DEF Stop

\* The operating system changes one process at a time: it takes a port, becomes
\* ready, dies, or has its exit collected once it is published.
LEMMA ProcStep ==
  ASSUME SafetyInv, TypeOK', NEW p \in Proc,
         Bind(p) \/ BindFails(p) \/ BecomeReady(p)
           \/ Crash(p) \/ KillTakesEffect(p) \/ Reap(p)
  PROVE  SafetyInv'
<1> USE DEF SafetyInv
<1>1. UNCHANGED <<pc, child, cmd, overran, stopping, owner, stopPc, victim>>
  BY DEF Bind, BindFails, BecomeReady, Crash, KillTakesEffect, Reap, End,
         supVars, procVars, stopVars
<1>2. CASE Bind(p)
  <2>1. life' = life /\ listening' = listening \cup {p} /\ Live(p)
    BY <1>2 DEF Bind, Live
  <2> QED
    BY <1>1, <2>1 DEF ChildInv, CmdInv, ProcInv, VictimInv, AttendedInv, Attended, Live, Running
<1>3. CASE ~Bind(p)
  <2> DEFINE new == life'[p]
  <2>1. /\ life' = [life EXCEPT ![p] = new]
        /\ \/ life[p] = "loading" /\ new = "ready" /\ listening' = listening
           \/ Live(p) /\ new = "dead" /\ listening' = listening \ {p}
           \/ /\ life[p] = "dead" /\ new = "reaped" /\ listening' = listening
              /\ \A i \in Slot : child[i] # p
    BY <1>3 DEF BindFails, BecomeReady, Crash, KillTakesEffect, Reap, End, Live, Running, TypeOK
  <2>2. \A q \in Proc : /\ q # p => life'[q] = life[q]
                        /\ Live(q)' => Live(q)
                        /\ Running(q)' => Running(q)
    BY <2>1 DEF Live, Running, TypeOK
  <2>3. ChildInv'
    BY <1>1, <2>1, <2>2 DEF ChildInv, TypeOK, Live
  <2>4. CmdInv'
    BY <1>1, <2>1, <2>2 DEF CmdInv, TypeOK, Live
  <2>5. ProcInv'
    BY <1>1, <2>1, <2>2 DEF ProcInv, TypeOK, Live
  <2>6. VictimInv'
    BY <1>1, <2>1, <2>2 DEF VictimInv, TypeOK, Live
  <2>7. AttendedInv'
    BY <1>1, <2>2 DEF AttendedInv, Attended
  <2> QED BY <2>3, <2>4, <2>5, <2>6, <2>7
<1> QED
  BY <1>2, <1>3

\* The invariant holds initially and every step preserves it.
THEOREM Safety == Spec => []SafetyInv
<1>1. Init => SafetyInv
  <2> SUFFICES ASSUME Init PROVE SafetyInv
    OBVIOUS
  <2>1. TypeOK
    BY BackoffAssumption DEF Init, TypeOK, State, Location, Life
  <2>2. ChildInv /\ CmdInv /\ ProcInv /\ VictimInv /\ AttendedInv
    BY NoneAssumption
    DEF Init, ChildInv, CmdInv, ProcInv, VictimInv, AttendedInv, Live, Running
  <2> QED BY <2>1, <2>2 DEF SafetyInv
<1>2. SafetyInv /\ TypeOK' /\ [Next]_vars => SafetyInv'
  <2> SUFFICES ASSUME SafetyInv, TypeOK', [Next]_vars PROVE SafetyInv'
    OBVIOUS
  <2>1. CASE \E i \in Slot : Supervise(i)
    BY <2>1, SuperviseStep
  <2>2. CASE \E k \in Stopper, i \in Slot : Stop(k, i)
    BY <2>2, StopStep
  <2>3. CASE \E p \in Proc : \/ Bind(p) \/ BindFails(p) \/ BecomeReady(p)
                             \/ Crash(p) \/ KillTakesEffect(p) \/ Reap(p)
    BY <2>3, ProcStep
  <2>4. CASE (\E port \in Port : Squat(port) \/ Leave(port)) \/ UNCHANGED vars
    <3>1. UNCHANGED <<pc, child, cmd, overran, stopping, life, owner, listening, stopPc, victim>>
      BY <2>4 DEF Squat, Leave, vars, supVars, procVars, stopVars
    <3> QED
      BY <3>1 DEF SafetyInv, ChildInv, CmdInv, ProcInv, VictimInv, AttendedInv,
                  Attended, Live, Running
  <2> QED
    BY <2>1, <2>2, <2>3, <2>4 DEF Next, OS
<1> QED
  BY <1>1, <1>2, Typing, PTL DEF Spec

\* Whatever the interleaving of crashes, restarts and stops, a slot whose loads
\* meet the health deadline never has two llama-server processes.
THEOREM AtMostOneProcess == Spec => []OneProcess
<1>1. SafetyInv => OneProcess
  BY DEF SafetyInv, AttendedInv, ProcInv, Attended, OneProcess
<1> QED
  BY <1>1, Safety, PTL

\* A stop that no launch overtook leaves no process of the slot running.
THEOREM StopsAreComplete == Spec => []StopComplete
<1>1. SafetyInv => StopComplete
  BY DEF SafetyInv, AttendedInv, VictimInv, Attended, StopComplete, Live, Running
<1> QED
  BY <1>1, Safety, PTL

(***************************************************************************)
(* What the reported state says about the process.                         *)
(***************************************************************************)
\* "starting" and "healthy" are reported only from certain places of the loop,
\* and a supervisor that has seen 200 is watching a process that serves.
ReportedInv ==
  \A i \in Slot :
    /\ state[i] = "starting" =>
         pc[i] \in {"probe", "spawn", "publish", "poll", "get", "up", "failed"}
    /\ state[i] = "healthy" =>
         \/ pc[i] \in {"wait", "exited", "crash"}
         \/ pc[i] = "done" /\ cmd[i] # None /\ life[cmd[i]] = "reaped"

Serves(p) == Live(p) => p \in listening /\ life[p] # "loading"

\* A program outside the rig that holds the port of a launch past its probe has
\* intruded, since the probe found the port free.
IntrudedInv ==
  \A i \in Slot :
    pc[i] \in {"spawn", "publish", "poll", "get"} /\ PortOf[i] \in foreign => i \in intruded

ServesInv ==
  DistinctPorts =>
    \A i \in Slot \ (overran \cup intruded) : pc[i] \in {"up", "wait"} => Serves(cmd[i])

\* With ports of their own and no intruder, whoever answers a slot's /health is
\* its process.
LEMMA AnswerIsOwn ==
  ASSUME SafetyInv, IntrudedInv, DistinctPorts,
         NEW i \in Slot \ (overran \cup intruded), HealthOK(i)
  PROVE  cmd[i] \in listening /\ life[cmd[i]] = "ready"
<1>1. pc[i] = "get" /\ PortOf[i] \notin foreign
  BY DEF HealthOK, Goto, IntrudedInv
<1>2. PICK p \in listening : PortOf[owner[p]] = PortOf[i] /\ life[p] = "ready"
  BY <1>1 DEF HealthOK, MayAnswer200, ServedAt
<1>3. Live(p) /\ p \in Proc /\ owner[p] \in Slot
  BY DEF SafetyInv, ProcInv, TypeOK
<1>4. owner[p] = i
  BY <1>2, <1>3 DEF DistinctPorts
<1>5. Attended(p, i)
  BY <1>3, <1>4 DEF SafetyInv, AttendedInv
<1> QED
  BY <1>1, <1>2, <1>5 DEF Attended

\* Steps outside the supervisors never start or unbind a process they leave
\* alive, and a stopper reports only "stopped".
LEMMA OutsideStep ==
  ASSUME SafetyInv, SafetyInv', ReportedInv, IntrudedInv, ServesInv,
         \/ \E k \in Stopper, i \in Slot : Stop(k, i)
         \/ OS
         \/ UNCHANGED vars
  PROVE  ReportedInv' /\ IntrudedInv' /\ ServesInv'
<1>1. pc' = pc /\ cmd' = cmd /\ overran' = overran /\ intruded \subseteq intruded'
  BY DEF Stop, RequestStop, Kill, MarkStopped, OS, Bind, BindFails, BecomeReady,
         Crash, KillTakesEffect, End, Reap, Squat, Leave, vars, supVars
<1>2. \A i \in Slot : state'[i] = state[i] \/ state'[i] = "stopped"
  <2>1. CASE \E k \in Stopper, i \in Slot : MarkStopped(k, i)
    BY <2>1 DEF MarkStopped, SetState, SafetyInv, TypeOK
  <2>2. CASE ~\E k \in Stopper, i \in Slot : MarkStopped(k, i)
    BY <2>2 DEF Stop, RequestStop, Kill, OS, Bind, BindFails, BecomeReady,
           Crash, KillTakesEffect, End, Reap, Squat, Leave, vars
  <2> QED BY <2>1, <2>2
<1>3. \A p \in Proc : /\ life[p] = "reaped" => life'[p] = "reaped"
                      /\ Serves(p) => Serves(p)'
  <2>1. CASE \E k \in Stopper, i \in Slot : Stop(k, i)
    BY <2>1 DEF Stop, RequestStop, Kill, MarkStopped, procVars, Serves, Live, Running
  <2>2. CASE OS
    BY <2>2 DEF OS, Bind, BindFails, BecomeReady, Crash, KillTakesEffect, End, Reap,
                Squat, Leave, procVars, Serves, Live, Running, SafetyInv, TypeOK
  <2>3. CASE UNCHANGED vars
    BY <2>3 DEF vars, procVars, Serves, Live
  <2> QED BY <2>1, <2>2, <2>3
<1>4. ReportedInv'
  BY <1>1, <1>2, <1>3 DEF ReportedInv, SafetyInv, TypeOK
<1>5. ServesInv'
  <2> SUFFICES ASSUME DistinctPorts, NEW i \in Slot \ (overran \cup intruded), pc[i] \in {"up", "wait"}
               PROVE  Serves(cmd[i])'
    BY <1>1 DEF ServesInv, DistinctPorts
  <2>1. Serves(cmd[i]) /\ cmd[i] \in Proc
    BY DEF ServesInv, SafetyInv, CmdInv, TypeOK
  <2> QED
    BY <1>1, <1>3, <2>1 DEF Serves, Live
<1>6. IntrudedInv'
  <2>1. CASE \E port \in Port : Squat(port)
    BY <2>1 DEF Squat, IntrudedInv
  <2>2. CASE ~\E port \in Port : Squat(port)
    <3>1. foreign' \subseteq foreign
      BY <2>2 DEF Stop, RequestStop, Kill, MarkStopped, OS, Bind, BindFails, BecomeReady,
         Crash, KillTakesEffect, End, Reap, Leave, vars
    <3> QED
      BY <1>1, <3>1 DEF IntrudedInv
  <2> QED BY <2>1, <2>2
<1> QED
  BY <1>4, <1>5, <1>6

\* The supervisor of j reports on its own slot only.
LEMMA InsideStep ==
  ASSUME SafetyInv, SafetyInv', ReportedInv, IntrudedInv, ServesInv,
         NEW j \in Slot, Supervise(j)
  PROVE  ReportedInv' /\ IntrudedInv' /\ ServesInv'
<1> USE DEF SafetyInv
<1>1. CASE Spawn(j)
  <2>1. PICK p \in Proc : Free(p) /\ life' = [life EXCEPT ![p] = "loading"]
    BY <1>1 DEF Spawn
  <2>2. /\ pc' = [pc EXCEPT ![j] = "publish"] /\ pc[j] = "spawn"
        /\ UNCHANGED <<cmd, state, overran, intruded, foreign, listening>>
    BY <1>1 DEF Spawn, Goto
  <2>3. \A i \in Slot : cmd[i] # None => cmd[i] \in Proc /\ cmd[i] # p
    BY <2>1, NoneAssumption DEF Free, CmdInv, TypeOK
  <2>4. ReportedInv'
    BY <2>1, <2>2, <2>3 DEF ReportedInv, TypeOK
  <2>5. ServesInv'
    BY <2>1, <2>2, <2>3 DEF ServesInv, Serves, Live, CmdInv, TypeOK, DistinctPorts
  <2>6. IntrudedInv'
    BY <2>2 DEF IntrudedInv, TypeOK
  <2> QED BY <2>4, <2>5, <2>6
<1>2. CASE Publish(j)
  BY <1>2 DEF Publish, Goto, procVars, ReportedInv, IntrudedInv, ServesInv, Serves, Live,
              TypeOK, DistinctPorts
<1>3. CASE ~Spawn(j) /\ ~Publish(j)
  <2>1. UNCHANGED <<cmd, life, listening>> /\ overran \subseteq overran'
    BY <1>3 DEF Supervise, Check, BeginLaunch, ProbeFree, ProbeHeld, SpawnFails, Poll, HealthOK,
           HealthNotYet, HealthTimeout, Up, WaitExit, Exited, SetCrashed, Recheck, Sleep, procVars
  <2>2. ReportedInv'
    BY <1>3, <2>1 DEF ReportedInv, CmdInv, TypeOK, Supervise, Check, BeginLaunch, ProbeFree, ProbeHeld,
           SpawnFails, Poll, HealthOK, HealthNotYet, HealthTimeout, Up, WaitExit, Exited,
           SetCrashed, Recheck, Sleep, Goto, SetState
  <2>3. ServesInv'
    <3> SUFFICES ASSUME DistinctPorts, NEW i \in Slot, i \notin overran', i \notin intruded',
                        pc'[i] \in {"up", "wait"}
                 PROVE  Serves(cmd[i])
      BY <2>1 DEF ServesInv, Serves, Live, DistinctPorts
    <3>1. CASE HealthOK(j)
      BY <3>1, AnswerIsOwn DEF HealthOK, Goto, ServesInv, Serves, TypeOK
    <3>2. CASE Up(j)
      BY <3>2 DEF Up, Goto, ServesInv, TypeOK
    <3>3. CASE ~HealthOK(j) /\ ~Up(j)
      BY <1>3, <3>3 DEF Supervise, Check, BeginLaunch, ProbeFree, ProbeHeld, SpawnFails, Poll,
           HealthNotYet, HealthTimeout, WaitExit, Exited, SetCrashed, Recheck, Sleep,
           Goto, ServesInv, TypeOK
    <3> QED BY <3>1, <3>2, <3>3
  <2>4. IntrudedInv'
    <3>1. foreign' = foreign
      BY <1>3 DEF Supervise, Check, BeginLaunch, ProbeFree, ProbeHeld, SpawnFails, Poll, HealthOK,
           HealthNotYet, HealthTimeout, Up, WaitExit, Exited, SetCrashed, Recheck, Sleep
    <3>2. CASE ProbeFree(j)
      BY <3>1, <3>2 DEF ProbeFree, Goto, Held, IntrudedInv, TypeOK
    <3>3. CASE SetCrashed(j)
      BY <3>1, <3>3 DEF SetCrashed, Goto, IntrudedInv, TypeOK
    <3>4. CASE ~ProbeFree(j) /\ ~SetCrashed(j)
      BY <1>3, <3>1, <3>4 DEF Supervise, Check, BeginLaunch, ProbeHeld, SpawnFails, Poll, HealthOK,
           HealthNotYet, HealthTimeout, Up, WaitExit, Exited, Recheck, Sleep, Goto, IntrudedInv, TypeOK
    <3> QED BY <3>2, <3>3, <3>4
  <2> QED BY <2>2, <2>3, <2>4
<1> QED
  BY <1>1, <1>2, <1>3

\* What the places of the supervisor say of the reported state.
LEMMA ReportedHolds == Spec => [](SafetyInv /\ ReportedInv /\ IntrudedInv /\ ServesInv)
<1>1. Init => ReportedInv /\ IntrudedInv /\ ServesInv
  BY DEF Init, ReportedInv, IntrudedInv, ServesInv
<1>2. SafetyInv /\ SafetyInv' /\ ReportedInv /\ IntrudedInv /\ ServesInv /\ [Next]_vars
        => ReportedInv' /\ IntrudedInv' /\ ServesInv'
  BY InsideStep, OutsideStep DEF Next
<1> QED
  BY <1>1, <1>2, Safety, PTL DEF Spec

\* A slot is reported healthy only while, or after, its own process served,
\* unless a program outside the rig took its port between the probe and the
\* answer, a load of it overran the deadline, or ports are shared.
THEOREM HealthyMeansServing == Spec => []HealthyServes
<1>1. SafetyInv /\ ReportedInv /\ ServesInv => HealthyServes
  BY DEF SafetyInv, CmdInv, ReportedInv, ServesInv, Serves, HealthyServes,
         Live
<1> QED
  BY <1>1, ReportedHolds, PTL

\* A slot whose supervisor has returned is not left standing at "starting".
THEOREM EndedReported == Spec => []EndedNotStarting
<1>1. SafetyInv /\ ReportedInv /\ ServesInv => EndedNotStarting
  BY DEF SafetyInv, CmdInv, ReportedInv, ServesInv, Serves, EndedNotStarting, Live
<1> QED
  BY <1>1, ReportedHolds, PTL

(***************************************************************************)
(* The slots implement Lifecycle.                                          *)
(***************************************************************************)
\* Until a stop is requested only the supervisor writes in.state, so that the
\* place it has reached determines what others read, and it does not return.
ShownInv ==
  /\ \A k \in Stopper, i \in Slot : stopPc[k][i] # "idle" => stopping[i]
  /\ \A i \in Slot :
       ~stopping[i] =>
         /\ pc[i] # "done"
         /\ pc[i] \in {"check", "launch"} => state[i] \in {"stopped", "crashed"}
         /\ pc[i] \in {"probe", "spawn", "publish", "poll", "get", "up", "failed"}
              => state[i] = "starting"
         /\ pc[i] \in {"wait", "exited", "crash"} => state[i] = "healthy"
         /\ pc[i] \in {"recheck", "sleep"} => state[i] = "crashed"

\* Most steps of a supervisor move it and report nothing: from one place to
\* another with as many reports outstanding, and not to the end.
LEMMA SilentStep ==
  ASSUME TypeOK, NEW i \in Slot, NEW to \in Location,
         pc' = [pc EXCEPT ![i] = to], UNCHANGED <<state, stopping>>,
         pc[i] # "done", to # "done",
         stopping[i] => Outstanding(i) = Outstanding(i)'
  PROVE  UNCHANGED Seen!vars
<1>1. \A j \in Slot : /\ (pc'[j] = "done") <=> (pc[j] = "done")
                     /\ stopping[j] => Outstanding(j)' = Outstanding(j)
  BY DEF Outstanding, TypeOK
<1> QED
  BY <1>1 DEF Seen!vars

\* The others report what Lifecycle allows, or return.
LEMMA SuperviseSeen ==
  ASSUME TypeOK, TypeOK', ShownInv, NEW i \in Slot, Supervise(i)
  PROVE  [Seen!Next]_(Seen!vars) /\ ShownInv'
<1> USE DEF TypeOK
<1> DEFINE Late(j) == IF stopping[j] THEN Outstanding(j) ELSE 0
<1>1. stopping' = stopping /\ stopPc' = stopPc
  BY DEF Supervise, Check, BeginLaunch, ProbeFree, ProbeHeld, Spawn, SpawnFails, Publish, Poll,
         HealthOK, HealthNotYet, HealthTimeout, Up, WaitExit, Exited, SetCrashed, Recheck, Sleep,
         stopVars
<1>2. ShownInv'
  BY <1>1 DEF ShownInv, Supervise, Check, BeginLaunch, ProbeFree, ProbeHeld, Spawn, SpawnFails,
         Publish, Poll, HealthOK, HealthNotYet, HealthTimeout, Up, WaitExit, Exited, SetCrashed,
         Recheck, Sleep, Goto, SetState
<1>3. CASE BeginLaunch(i) \/ Up(i) \/ SetCrashed(i)
  <2>1. PICK s \in {"starting", "healthy", "crashed"}, to \in Location :
          /\ state' = [state EXCEPT ![i] = s]
          /\ pc' = [pc EXCEPT ![i] = to]
          /\ to # "done" /\ pc[i] # "done"
          /\ Outstanding(i) = Outstanding(i)' + 1
          /\ s = "starting" => Outstanding(i) = 2
          /\ ~stopping[i] => <<state[i], s>> \in Seen!Follows
    BY <1>3 DEF BeginLaunch, Up, SetCrashed, Goto, SetState, Outstanding, Location, ShownInv,
                Seen!Follows
  <2>2. \A j \in Slot : /\ (pc'[j] = "done") <=> (pc[j] = "done")
                       /\ j # i => Outstanding(j)' = Outstanding(j)
    BY <2>1 DEF Outstanding
  <2>3. CASE ~stopping[i]
    <3>1. \A j \in Slot : Late(j)' = Late(j)
      BY <1>1, <2>1, <2>2, <2>3 DEF Outstanding
    <3>2. Seen!Report(i, s)
      BY <1>1, <2>1, <2>2, <2>3, <3>1 DEF Seen!Report
    <3> QED BY <1>2, <3>2 DEF Seen!Next
  <2>4. CASE stopping[i]
    <3>1. /\ Late(i) \in Nat /\ Late(i) > (IF s = "starting" THEN 1 ELSE 0)
          /\ \A j \in Slot : Late(j)' = IF j = i THEN Late(i) - 1 ELSE Late(j)
      BY <1>1, <2>1, <2>2, <2>4 DEF Outstanding
    <3>2. Seen!ReportLate(i, s)
      BY <1>1, <2>1, <2>2, <2>4, <3>1 DEF Seen!ReportLate
    <3> QED BY <1>2, <3>2 DEF Seen!Next
  <2> QED BY <2>3, <2>4
<1>4. CASE stopping[i] /\ (Check(i) \/ Exited(i) \/ Recheck(i))
  <2>1. /\ pc' = [pc EXCEPT ![i] = "done"] /\ pc[i] # "done" /\ state' = state
        /\ Outstanding(i) = 0 /\ Outstanding(i)' = 0
    BY <1>4 DEF Check, Exited, Recheck, Goto, Outstanding
  <2>2. \A j \in Slot : j # i => Outstanding(j)' = Outstanding(j)
    BY <2>1 DEF Outstanding
  <2> QED
    BY <1>1, <1>2, <1>4, <2>1, <2>2 DEF Seen!Next, Seen!Return
<1>5. CASE ~(\/ BeginLaunch(i) \/ Up(i) \/ SetCrashed(i)
             \/ stopping[i] /\ (Check(i) \/ Exited(i) \/ Recheck(i)))
  <2>1. PICK to \in Location :
          /\ pc' = [pc EXCEPT ![i] = to] /\ state' = state
          /\ to # "done" /\ pc[i] # "done"
          /\ stopping[i] => Outstanding(i) = Outstanding(i)'
    BY <1>5 DEF Supervise, Check, ProbeFree, ProbeHeld, Spawn, SpawnFails, Publish, Poll,
         HealthOK, HealthNotYet, HealthTimeout, WaitExit, Exited, Recheck, Sleep, Goto,
         Outstanding, Location
  <2> QED
    BY <1>1, <1>2, <2>1, SilentStep
<1> QED
  BY <1>3, <1>4, <1>5

\* A stopper asks, and writes "stopped" only after it asked.
LEMMA StopSeen ==
  ASSUME TypeOK, TypeOK', ShownInv, NEW k \in Stopper, NEW i \in Slot, Stop(k, i)
  PROVE  [Seen!Next]_(Seen!vars) /\ ShownInv'
<1> USE DEF TypeOK
<1>1. pc' = pc
  BY DEF Stop, RequestStop, Kill, MarkStopped, supVars
<1>2. \A j \in Slot : Outstanding(j)' = Outstanding(j) /\ Outstanding(j) \in 0 .. 2
  BY <1>1 DEF Outstanding
<1>3. ShownInv'
  <2>1. CASE RequestStop(k, i)
    BY <1>1, <2>1 DEF ShownInv, RequestStop, StopAt
  <2>2. CASE Kill(k, i)
    BY <1>1, <2>2 DEF ShownInv, Kill, StopAt
  <2>3. CASE MarkStopped(k, i)
    BY <1>1, <2>3 DEF ShownInv, MarkStopped, StopAt, SetState
  <2> QED BY <2>1, <2>2, <2>3 DEF Stop
<1>4. CASE RequestStop(k, i)
  <2>1. stopping' = [stopping EXCEPT ![i] = TRUE] /\ state' = state
    BY <1>4 DEF RequestStop
  <2>2. CASE stopping[i]
    BY <1>1, <1>2, <1>3, <2>1, <2>2 DEF Seen!vars
  <2>3. CASE ~stopping[i]
    <3> DEFINE late == [j \in Slot |-> IF stopping[j] THEN Outstanding(j) ELSE 0]
    <3>1. late' = [late EXCEPT ![i] = Outstanding(i)]
      BY <1>2, <2>1
    <3>2. Seen!AskToStop(i)
      BY <1>1, <1>2, <2>1, <2>3, <3>1 DEF Seen!AskToStop
    <3> QED BY <3>2, <1>3 DEF Seen!Next
  <2> QED BY <2>2, <2>3
<1>5. CASE Kill(k, i)
  BY <1>1, <1>2, <1>3, <1>5 DEF Kill, Seen!vars
<1>6. CASE MarkStopped(k, i)
  <2>1. stopping' = stopping /\ state' = [state EXCEPT ![i] = "stopped"] /\ stopping[i]
    BY <1>6 DEF MarkStopped, SetState, StopAt, ShownInv
  <2>2. Seen!MarkStopped(i)
    BY <1>1, <1>2, <2>1 DEF Seen!MarkStopped
  <2> QED BY <2>2, <1>3 DEF Seen!Next
<1> QED
  BY <1>4, <1>5, <1>6 DEF Stop

\* What others read of in.state obeys Lifecycle, however launches, crashes and
\* stops interleave, and whether or not loads meet the deadline.
THEOREM ImplementsLifecycle == Spec => KeepsLifecycle
<1>1. Init => Seen!Init /\ ShownInv
  BY DEF Init, Seen!Init, ShownInv
<1>2. TypeOK /\ TypeOK' /\ ShownInv /\ [Next]_vars => [Seen!Next]_(Seen!vars) /\ ShownInv'
  <2> SUFFICES ASSUME TypeOK, TypeOK', ShownInv, [Next]_vars
               PROVE  [Seen!Next]_(Seen!vars) /\ ShownInv'
    OBVIOUS
  <2>1. CASE OS \/ UNCHANGED vars
    <3>1. UNCHANGED <<pc, state, stopping, stopPc>>
      BY <2>1 DEF OS, Bind, BindFails, BecomeReady, Crash, KillTakesEffect, End, Reap, Squat,
                  Leave, vars, supVars, stopVars
    <3> QED
      BY <3>1 DEF Seen!vars, ShownInv, Outstanding
  <2> QED
    BY <2>1, SuperviseSeen, StopSeen DEF Next
<1> QED
  BY <1>1, <1>2, Typing, PTL DEF Spec, KeepsLifecycle, Seen!Spec
=============================================================================
