----------------------------- MODULE Supervisor -----------------------------
(***************************************************************************)
(* The launch -> watch -> restart loop of one rig slot                      *)
(* (internal/rig/rig.go: supervise, launch) together with the two callers   *)
(* that stop a slot from another goroutine (Unload, StopAll) and with the   *)
(* llama-server processes themselves, which start, bind their port, become  *)
(* ready, crash and are killed on their own schedule.                       *)
(*                                                                         *)
(* The supervise goroutine of a slot is a program counter; every read of   *)
(* in.stopping, every in.set(...) and the publication of in.cmd is a step   *)
(* of its own, because another goroutine can run between any two of them.   *)
(* The log tail, lastErr and the restarts counter are display data and are  *)
(* left out; time is left out too, so a sleep is part of a step and the     *)
(* four-minute health deadline may pass at any unsuccessful GET.           *)
(***************************************************************************)
EXTENDS Integers, FiniteSets

CONSTANTS
  Slot,          \* the instances of the rig
  Port,          \* backend TCP ports
  PortOf,        \* the port each instance was given when it was loaded
  Proc,          \* operating-system process identities
  None,          \* "no process" (a nil *exec.Cmd)
  Stopper,       \* goroutines that may stop a slot: an Unload, the StopAll
  BackoffLimit   \* seconds from which the retry delay stops doubling (30)

ASSUME PortAssumption    == PortOf \in [Slot -> Port]
ASSUME NoneAssumption    == None \notin Proc
ASSUME BackoffAssumption == BackoffLimit \in Nat \ {0}

VARIABLES
  pc,         \* pc[i]: where the supervise goroutine of i is
  state,      \* in.state
  stopping,   \* in.stopping
  cmd,        \* in.cmd
  child,      \* launch's local cmd between Start and its publication
  backoff,    \* supervise's local backoff, in seconds
  overran,    \* history: the instances with a load that outlasted the deadline
  intruded,   \* history: those whose port a program outside the rig has held
              \* at some time since the probe of their present launch
  life,       \* life[p]: what process p is doing
  owner,      \* owner[p]: the instance p was started for
  listening,  \* the processes that hold their port
  foreign,    \* ports held by a process the rig did not start
  stopPc,     \* stopPc[k][i]: progress of stopper k on instance i
  victim      \* victim[k][i]: the in.cmd that k read under in.mu

supVars  == <<pc, backoff, child, overran, intruded>>
procVars == <<life, owner, listening>>
stopVars == <<stopPc, victim>>
vars == <<supVars, state, stopping, cmd, procVars, foreign, stopVars>>

-----------------------------------------------------------------------------
State == {"starting", "healthy", "crashed", "stopped"}

Location == {"check", "launch", "probe", "spawn", "publish", "poll", "get",
             "up", "wait", "exited", "crash", "failed", "recheck", "sleep",
             "done"}

\* "killed" has been sent SIGKILL and has not died yet, "dead" has exited,
\* and "reaped" is dead with cmd.Wait's result delivered to exitCh.
Life == {"unborn", "loading", "ready", "killed", "dead", "reaped"}

Live(p)    == life[p] \in {"loading", "ready", "killed"}
Running(p) == life[p] \in {"loading", "ready"}

\* A process identity can be used (again) when nothing refers to it any more.
Free(p) == \/ life[p] = "unborn"
           \/ /\ life[p] = "reaped"
              /\ \A i \in Slot : cmd[i] # p /\ child[i] # p
              /\ \A k \in Stopper, i \in Slot : victim[k][i] # p

\* The port is taken: net.Listen, or the server's own bind, would fail.
Held(port) == \/ port \in foreign
              \/ \E p \in listening : PortOf[owner[p]] = port

\* A server that the rig started listens on the port and has loaded its model:
\* GET /health gets its 200.
ServedAt(port) == \E p \in listening : PortOf[owner[p]] = port /\ life[p] = "ready"

\* GET /health may return 200: launch takes it from whoever listens on the
\* port, and what a program outside the rig answers there is its own affair.
MayAnswer200(port) == ServedAt(port) \/ port \in foreign

-----------------------------------------------------------------------------
Init ==
  /\ pc        = [i \in Slot |-> "check"]
  /\ state     = [i \in Slot |-> "stopped"]
  /\ stopping  = [i \in Slot |-> FALSE]
  /\ cmd       = [i \in Slot |-> None]
  /\ child     = [i \in Slot |-> None]
  /\ backoff   = [i \in Slot |-> 1]
  /\ overran   = {}
  /\ intruded  = {}
  /\ life      = [p \in Proc |-> "unborn"]
  /\ owner     = [p \in Proc |-> None]
  /\ listening = {}
  /\ foreign   = {}
  /\ stopPc    = [k \in Stopper |-> [i \in Slot |-> "idle"]]
  /\ victim    = [k \in Stopper |-> [i \in Slot |-> None]]

(***************************************************************************)
(* The supervise goroutine.                                                *)
(***************************************************************************)
Goto(i, from, to) == /\ pc[i] = from
                     /\ pc' = [pc EXCEPT ![i] = to]

SetState(i, s) == state' = [state EXCEPT ![i] = s]

\* for { if in.isStopping() { return } ...
Check(i) ==
  /\ Goto(i, "check", IF stopping[i] THEN "done" ELSE "launch")
  /\ UNCHANGED <<state, stopping, cmd, child, backoff, overran, intruded, procVars, foreign, stopVars>>

\* launch: in.set(Starting, "")
BeginLaunch(i) ==
  /\ Goto(i, "launch", "probe")
  /\ SetState(i, "starting")
  /\ UNCHANGED <<stopping, cmd, child, backoff, overran, intruded, procVars, foreign, stopVars>>

\* Mutant of ProbeFree: launch does not look whether the port is taken.
ProbeSkipped(i) ==
  /\ Goto(i, "probe", "spawn")
  /\ UNCHANGED <<state, stopping, cmd, child, backoff, overran, intruded, procVars, foreign, stopVars>>

\* launch: net.Listen succeeds and the listener is closed again ...
ProbeFree(i) ==
  /\ Goto(i, "probe", "spawn")
  /\ ~Held(PortOf[i])
  /\ UNCHANGED <<state, stopping, cmd, child, backoff, overran, intruded, procVars, foreign, stopVars>>

\* ... or fails: "port already in use by another process".
ProbeHeld(i) ==
  /\ Goto(i, "probe", "failed")
  /\ Held(PortOf[i])
  /\ UNCHANGED <<state, stopping, cmd, child, backoff, overran, intruded, procVars, foreign, stopVars>>

\* launch: cmd.Start() starts a process ...
Spawn(i) ==
  /\ Goto(i, "spawn", "publish")
  /\ \E p \in Proc :
       /\ Free(p)
       /\ child' = [child EXCEPT ![i] = p]
       /\ life'  = [life  EXCEPT ![p] = "loading"]
       /\ owner' = [owner EXCEPT ![p] = i]
  /\ UNCHANGED <<state, stopping, cmd, backoff, overran, intruded, listening, foreign, stopVars>>

\* ... or returns an error (no such binary, out of processes).
SpawnFails(i) ==
  /\ Goto(i, "spawn", "failed")
  /\ UNCHANGED <<state, stopping, cmd, child, backoff, overran, intruded, procVars, foreign, stopVars>>

\* launch: in.cmd = cmd; in.exitCh = exitCh, under in.mu
Publish(i) ==
  /\ Goto(i, "publish", "poll")
  /\ cmd'   = [cmd EXCEPT ![i] = child[i]]
  /\ child' = [child EXCEPT ![i] = None]
  /\ UNCHANGED <<state, stopping, backoff, overran, intruded, procVars, foreign, stopVars>>

\* Mutant of Poll: the loop does not look at in.stopping.
PollUnstoppable(i) ==
  /\ Goto(i, "poll", IF life[cmd[i]] = "reaped" THEN "failed" ELSE "get")
  /\ UNCHANGED <<state, stopping, cmd, child, backoff, overran, intruded, procVars, foreign, stopVars>>

\* launch, top of the health loop: return "stopping", return "exited during
\* load", or go on to the GET.
Poll(i) ==
  /\ Goto(i, "poll", IF stopping[i] \/ life[cmd[i]] = "reaped"
                     THEN "failed" ELSE "get")
  /\ UNCHANGED <<state, stopping, cmd, child, backoff, overran, intruded, procVars, foreign, stopVars>>

\* launch: http.Get(/health) is 200, return nil ...
HealthOK(i) ==
  /\ Goto(i, "get", "up")
  /\ MayAnswer200(PortOf[i])
  /\ UNCHANGED <<state, stopping, cmd, child, backoff, overran, intruded, procVars, foreign, stopVars>>

\* Mutant of HealthNotYet: the first failed GET is an error of launch.
HealthGivesUp(i) ==
  /\ Goto(i, "get", "failed")
  /\ ~ServedAt(PortOf[i])
  /\ UNCHANGED <<state, stopping, cmd, child, backoff, overran, intruded, procVars, foreign, stopVars>>

\* ... or anything else: sleep a second and go round, ...
HealthNotYet(i) ==
  /\ Goto(i, "get", "poll")
  /\ ~ServedAt(PortOf[i])
  /\ UNCHANGED <<state, stopping, cmd, child, backoff, overran, intruded, procVars, foreign, stopVars>>

\* ... until the deadline has passed: return "health timeout".  The process is
\* left as it is.
HealthTimeout(i) ==
  /\ Goto(i, "get", "failed")
  /\ ~ServedAt(PortOf[i])
  /\ overran' = overran \cup {i}
  /\ UNCHANGED <<state, stopping, cmd, child, backoff, intruded, procVars, foreign, stopVars>>

\* backoff = time.Second; in.set(Healthy, "")
Up(i) ==
  /\ Goto(i, "up", "wait")
  /\ backoff' = [backoff EXCEPT ![i] = 1]
  /\ SetState(i, "healthy")
  /\ UNCHANGED <<stopping, cmd, child, overran, intruded, procVars, foreign, stopVars>>

\* Mutant of WaitExit: an exit is noticed only once the slot is being stopped.
WaitExitStopping(i) ==
  /\ Goto(i, "wait", "exited")
  /\ life[cmd[i]] = "reaped" /\ stopping[i]
  /\ UNCHANGED <<state, stopping, cmd, child, backoff, overran, intruded, procVars, foreign, stopVars>>

\* err := <-in.exitCh
WaitExit(i) ==
  /\ Goto(i, "wait", "exited")
  /\ life[cmd[i]] = "reaped"
  /\ UNCHANGED <<state, stopping, cmd, child, backoff, overran, intruded, procVars, foreign, stopVars>>

\* Mutant of Exited: the crash is reported before in.stopping is looked at.
ExitedReportsCrash(i) ==
  /\ Goto(i, "exited", "crash")
  /\ UNCHANGED <<state, stopping, cmd, child, backoff, overran, intruded, procVars, foreign, stopVars>>

\* if in.isStopping() { return }, after the exit
Exited(i) ==
  /\ Goto(i, "exited", IF stopping[i] THEN "done" ELSE "crash")
  /\ UNCHANGED <<state, stopping, cmd, child, backoff, overran, intruded, procVars, foreign, stopVars>>

\* in.set(Crashed, ...): the process exited, or launch returned an error
SetCrashed(i) ==
  /\ Goto(i, pc[i], "recheck")
  /\ pc[i] \in {"crash", "failed"}
  /\ SetState(i, "crashed")
  /\ intruded' = intruded \ {i}
  /\ UNCHANGED <<stopping, cmd, child, backoff, overran, procVars, foreign, stopVars>>

\* if in.isStopping() { return }, before the sleep
Recheck(i) ==
  /\ Goto(i, "recheck", IF stopping[i] THEN "done" ELSE "sleep")
  /\ UNCHANGED <<state, stopping, cmd, child, backoff, overran, intruded, procVars, foreign, stopVars>>

\* Mutant of Sleep: the delay doubles without a limit.
SleepUnlimited(i) ==
  /\ Goto(i, "sleep", "check")
  /\ backoff' = [backoff EXCEPT ![i] = 2 * @]
  /\ UNCHANGED <<state, stopping, cmd, child, overran, intruded, procVars, foreign, stopVars>>

\* time.Sleep(backoff); if backoff < 30*time.Second { backoff *= 2 }
Sleep(i) ==
  /\ Goto(i, "sleep", "check")
  /\ backoff' = [backoff EXCEPT ![i] = IF @ < BackoffLimit THEN 2 * @ ELSE @]
  /\ UNCHANGED <<state, stopping, cmd, child, overran, intruded, procVars, foreign, stopVars>>

Supervise(i) ==
  \/ Check(i) \/ BeginLaunch(i) \/ ProbeFree(i) \/ ProbeHeld(i)
  \/ Spawn(i) \/ SpawnFails(i) \/ Publish(i)
  \/ Poll(i) \/ HealthOK(i) \/ HealthNotYet(i) \/ HealthTimeout(i)
  \/ Up(i) \/ WaitExit(i) \/ Exited(i) \/ SetCrashed(i)
  \/ Recheck(i) \/ Sleep(i)

(***************************************************************************)
(* Unload and StopAll, the part that stops one instance.                   *)
(***************************************************************************)
StopAt(k, i, from, to) ==
  /\ stopPc[k][i] = from
  /\ stopPc' = [stopPc EXCEPT ![k][i] = to]

\* under in.mu: in.stopping = true; cmd := in.cmd
RequestStop(k, i) ==
  /\ StopAt(k, i, "idle", "kill")
  /\ stopping' = [stopping EXCEPT ![i] = TRUE]
  /\ victim'   = [victim EXCEPT ![k][i] = cmd[i]]
  /\ UNCHANGED <<supVars, state, cmd, procVars, foreign>>

\* Mutant of Kill: a server that is still loading is not killed.
KillIfReady(k, i) ==
  /\ StopAt(k, i, "kill", "mark")
  /\ life' = [p \in Proc |-> IF p = victim[k][i] /\ life[p] = "ready"
                             THEN "killed" ELSE life[p]]
  /\ UNCHANGED <<supVars, state, stopping, cmd, owner, listening, foreign, victim>>

\* if cmd != nil && cmd.Process != nil { _ = cmd.Process.Kill() }
Kill(k, i) ==
  /\ StopAt(k, i, "kill", "mark")
  /\ life' = [p \in Proc |-> IF p = victim[k][i] /\ Running(p)
                             THEN "killed" ELSE life[p]]
  /\ UNCHANGED <<supVars, state, stopping, cmd, owner, listening, foreign, victim>>

\* in.set(Stopped, "")
MarkStopped(k, i) ==
  /\ StopAt(k, i, "mark", "end")
  /\ SetState(i, "stopped")
  /\ UNCHANGED <<supVars, stopping, cmd, procVars, foreign, victim>>

Stop(k, i) == RequestStop(k, i) \/ Kill(k, i) \/ MarkStopped(k, i)

(***************************************************************************)
(* The llama-server processes and the rest of the machine.                 *)
(***************************************************************************)
\* The server binds its port.
Bind(p) ==
  /\ life[p] = "loading" /\ p \notin listening
  /\ ~Held(PortOf[owner[p]])
  /\ listening' = listening \cup {p}
  /\ UNCHANGED <<supVars, state, stopping, cmd, life, owner, foreign, stopVars>>

\* The model is loaded: /health answers 200 from now on.
BecomeReady(p) ==
  /\ life[p] = "loading" /\ p \in listening
  /\ life' = [life EXCEPT ![p] = "ready"]
  /\ UNCHANGED <<supVars, state, stopping, cmd, owner, listening, foreign, stopVars>>

\* The process ends and the kernel releases its port: ...
End(p) ==
  /\ life' = [life EXCEPT ![p] = "dead"]
  /\ listening' = listening \ {p}
  /\ UNCHANGED <<supVars, state, stopping, cmd, owner, foreign, stopVars>>

\* ... it crashes, while loading or while serving,
Crash(p) == Running(p) /\ End(p)

\* ... it cannot bind because the port is taken,
BindFails(p) ==
  life[p] = "loading" /\ p \notin listening /\ Held(PortOf[owner[p]]) /\ End(p)

\* ... or the kill takes effect.
KillTakesEffect(p) == life[p] = "killed" /\ End(p)

\* go func() { exitCh <- cmd.Wait() }(), started once in.cmd is published
Reap(p) ==
  /\ life[p] = "dead"
  /\ \A i \in Slot : child[i] # p
  /\ life' = [life EXCEPT ![p] = "reaped"]
  /\ UNCHANGED <<supVars, state, stopping, cmd, owner, listening, foreign, stopVars>>

\* A process outside the rig takes a free port, perhaps one that a launch has
\* probed and whose server has not bound it yet, or gives it back.
Squat(port) ==
  /\ ~Held(port)
  /\ foreign' = foreign \cup {port}
  /\ intruded' = intruded \cup
       {i \in Slot : PortOf[i] = port /\ pc[i] \in {"spawn", "publish", "poll", "get"}}
  /\ UNCHANGED <<pc, backoff, child, overran, state, stopping, cmd, procVars, stopVars>>

Leave(port) ==
  /\ port \in foreign
  /\ foreign' = foreign \ {port}
  /\ UNCHANGED <<supVars, state, stopping, cmd, procVars, stopVars>>

OS == \/ \E p \in Proc : \/ Bind(p) \/ BindFails(p) \/ BecomeReady(p)
                          \/ Crash(p) \/ KillTakesEffect(p) \/ Reap(p)
      \/ \E port \in Port : Squat(port) \/ Leave(port)

Next == \/ \E i \in Slot : Supervise(i)
        \/ \E k \in Stopper, i \in Slot : Stop(k, i)
        \/ OS

Spec == Init /\ [][Next]_vars

(***************************************************************************)
(* Fairness.  Goroutines are scheduled: a supervisor that can take a step   *)
(* eventually does, sleeps included, and so does a stopper that has begun.  *)
(* The kernel carries out a kill and cmd.Wait then returns.  http.Get has   *)
(* no timeout: the GET need not return while somebody holds the port, but   *)
(* it fails when the one who held its connection goes away.                *)
(***************************************************************************)
Fairness ==
  /\ \A i \in Slot : /\ WF_vars(Supervise(i) /\ pc[i] # "get")
                     /\ SF_vars(Supervise(i) /\ pc[i] = "get" /\ ~Held(PortOf[i]))
  /\ \A k \in Stopper, i \in Slot : WF_vars(Kill(k, i) \/ MarkStopped(k, i))
  /\ \A p \in Proc : WF_vars(KillTakesEffect(p)) /\ WF_vars(Reap(p))

FairSpec == Spec /\ Fairness

(***************************************************************************)
(* A machine on which the slot CAN be served: from some time on no server   *)
(* crashes and no foreign process holds a port, cmd.Start does not fail for *)
(* ever, every GET is answered, and a server that can bind does, or exits,  *)
(* and becomes ready.                                                      *)
(***************************************************************************)
Servable ==
  /\ \A i \in Slot : WF_vars(Supervise(i)) /\ SF_vars(Spawn(i))
  /\ \A p \in Proc : WF_vars(Bind(p) \/ BindFails(p)) /\ WF_vars(BecomeReady(p))
  /\ <>[][\A p \in Proc : Crash(p) => BindFails(p)]_vars
  /\ <>[](foreign = {})

ServableSpec == FairSpec /\ Servable

-----------------------------------------------------------------------------
(***************************************************************************)
(* Properties.                                                             *)
(***************************************************************************)
\* Every variable has its type; the retry delay stays below twice the limit
\* at which supervise stops doubling it (32 s for the code's 30 s).
TypeOK ==
  /\ pc \in [Slot -> Location]
  /\ state \in [Slot -> State]
  /\ stopping \in [Slot -> BOOLEAN]
  /\ cmd \in [Slot -> Proc \cup {None}]
  /\ child \in [Slot -> Proc \cup {None}]
  /\ backoff \in [Slot -> 1 .. 2 * BackoffLimit - 1]
  /\ overran \subseteq Slot
  /\ intruded \subseteq Slot
  /\ life \in [Proc -> Life]
  /\ owner \in [Proc -> Slot \cup {None}]
  /\ listening \subseteq Proc
  /\ foreign \subseteq Port
  /\ stopPc \in [Stopper -> [Slot -> {"idle", "kill", "mark", "end"}]]
  /\ victim \in [Stopper -> [Slot -> Proc \cup {None}]]

\* A slot never has two llama-server processes at a time, however crashes,
\* restarts and stops interleave, as long as no load of it has outlasted the
\* deadline after which launch gives up on a process without killing it.
OneProcess ==
  \A p, q \in Proc :
    Live(p) /\ Live(q) /\ owner[p] = owner[q] /\ owner[p] \notin overran => p = q

\* A stop is complete unless a launch overtook it: when Unload or StopAll has
\* issued its kill, the instance still has the in.cmd the stopper read, and no
\* launch is between its stop check and the publication of in.cmd, no process
\* of the slot runs on (its loads having met the deadline).
StopComplete ==
  \A k \in Stopper, i \in Slot \ overran :
    /\ stopPc[k][i] \in {"mark", "end"}
    /\ victim[k][i] = cmd[i]
    /\ pc[i] \notin {"launch", "probe", "spawn", "publish"}
    => \A p \in Proc : owner[p] = i => ~Running(p)

\* A slot reported healthy is served by its own process: as long as ports are
\* not shared, its loads met the deadline and no program outside the rig took
\* the port between the probe and the first 200 of the launch, the process
\* whose exit supervise waits for is the one that answered /health.
DistinctPorts == \A i, j \in Slot : PortOf[i] = PortOf[j] => i = j

HealthyServes ==
  DistinctPorts =>
    \A i \in Slot \ (overran \cup intruded) :
      state[i] = "healthy" /\ Live(cmd[i]) =>
        cmd[i] \in listening /\ life[cmd[i]] # "loading"

\* Nobody is left looking at a slot that starts for ever: a supervise
\* goroutine that has returned did not leave the state at "starting".
EndedNotStarting ==
  \A i \in Slot : pc[i] = "done" => state[i] # "starting"

\* The GET of launch waits for somebody whom a stop of the slot does not kill:
\* a foreign program on the slot's port, or a server that launch gave up on.
Stranded(i) ==
  /\ pc[i] = "get"
  /\ \/ PortOf[i] \in foreign
     \/ \E p \in listening : p # cmd[i] /\ PortOf[owner[p]] = PortOf[i]

\* Once a slot is asked to stop its supervise goroutine returns, wherever in
\* launch, wait or sleep it was: it waits neither for a process nobody kills
\* nor for the answer of a killed one.  The only exception is a GET that a
\* stranger on the slot's port leaves unanswered for ever.
StopEnds == \A i \in Slot : (stopping[i] ~> pc[i] = "done") \/ <>[]Stranded(i)

(***************************************************************************)
(* What others see of the slots is the Lifecycle of that module.           *)
(***************************************************************************)
\* How many in.set calls a supervisor that was asked to stop has still to make:
\* launch's "starting" and then "crashed", or the outcome it already has.
Outstanding(i) ==
  IF pc[i] = "launch" THEN 2
  ELSE IF pc[i] \in {"probe", "spawn", "publish", "poll", "get", "up", "crash", "failed"} THEN 1
  ELSE 0

Seen == INSTANCE Lifecycle WITH
  MaxLate <- 2,
  shown   <- state,
  asked   <- stopping,
  late    <- [i \in Slot |-> IF stopping[i] THEN Outstanding(i) ELSE 0],
  over    <- {i \in Slot : pc[i] = "done"}

\* Every reader of in.state sees the promised life cycle: the states in order
\* until a stop, at most two late reports after it, and the end.
KeepsLifecycle == Seen!Spec

\* launch has returned an error and left a process of its own behind.
Abandoned(i) ==
  /\ pc[i] \in {"failed", "recheck", "sleep", "check", "launch", "probe"}
  /\ cmd[i] # None /\ Running(cmd[i])

\* The slot is reported healthy, and it is its own process that answers.
Serving(i) == /\ state[i] = "healthy"
              /\ cmd[i] \in listening /\ life[cmd[i]] = "ready"

\* On a machine where it can be served, a slot that nobody stops is served, and
\* is so again after every crash, failed start, squatted port and 200 that a
\* stranger on its port gave in its name, as long as launch never abandons a
\* running process to the health deadline.
Recovers ==
  Servable => \A i \in Slot : <>Abandoned(i) \/ []<>(Serving(i) \/ stopping[i])

\* "auto-restart on crash" (README.md:37): on such a machine a slot that nobody
\* stops is served again and again, without exception.
AutoRestart == \A i \in Slot : []<>(Serving(i) \/ stopping[i])

\* "Unload stops and removes a slot at runtime" (rig.go:158), "StopAll
\* terminates every instance" (rig.go:362): when the supervisor has returned
\* and no stopper is at work, no process of the slot runs, even if every load
\* met the deadline.
NoOrphan ==
  \A i \in Slot \ overran :
    pc[i] = "done" /\ (\A k \in Stopper : stopPc[k][i] \in {"idle", "end"})
      => \A p \in Proc : owner[p] = i => ~Running(p)
=============================================================================
