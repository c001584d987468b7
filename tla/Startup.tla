------------------------------ MODULE Startup -------------------------------
(***************************************************************************)
(* `llama-chip serve` from its start to its end (cmdServe in                *)
(* cmd/llama-chip/main.go, with config.Load, rig.New, rig.Start and the     *)
(* ApplyProfile of the default profile), while pulls write into the managed *)
(* builds that it takes its llama-server from and LM Studio changes its own.*)
(* What the slots do once they are supervised is Supervisor and Registry;   *)
(* here a slot is placed: it has a model, a backend and a port.             *)
(***************************************************************************)
EXTENDS Builds, Backends, Config, Library

CONSTANTS
  ConfigFile,  \* the configurations that may be on disk
  Scan,        \* the contents that LM Studio's directory may have
  UrlPort,     \* the port in an external slot's URL
  Reaps,       \* does the kernel kill a dead rig's children (reap_linux.go)?
  Nothing

Specification ==
  [kind : {"ggml"}, ref : Tag \cup {LatestRef}]
    \cup [kind : {"dir"}, hasServer : BOOLEAN]
    \cup [kind : {"variant"}, variant : {"cuda12", "cuda", "rocm", "vulkan", "cpu"}]

SlotRecord ==
  [name : STRING, alias : BOOLEAN, model : STRING, backend : Specification \cup {NoSpec},
   port : Nat, external : {"no", "url", "bad"}]

ASSUME ConfigAssumption ==
  ConfigFile \subseteq [backend : Specification \cup {NoSpec}, basePort : Nat,
                       slots : Seq(SlotRecord), profile : Seq(SlotRecord)]
\* looksLikeVersion lets only numbers pass, and parseDirName cuts at the last "-",
\* so that none has a sign.
ASSUME ScanAssumption == \A ds \in Scan : \A d \in ds : d.version \in Seq(Nat)
ASSUME HostAssumption == UrlPort \in Nat /\ Reaps \in BOOLEAN

VARIABLES
  phase,     \* where cmdServe is
  cfgFile,   \* the configuration it has read
  rigwide,   \* r.backend
  placed,    \* r.instances
  toLoad,    \* the slots of the default profile it has still to load
  handler,   \* has signal.Notify run?
  stopped,   \* how many instances the loop of StopAll has gone over
  orphaned,  \* history: a llama-server has outlived the last rig
  abrupt,    \* history: that rig died of an unhandled signal or of Serve's error
  overtaken  \* history: a request or a launch came behind the loop of StopAll

serveVars == <<phase, cfgFile, rigwide, placed, toLoad, handler, stopped>>
pastVars == <<orphaned, abrupt, overtaken>>
vars == <<buildVars, serveVars, pastVars>>

cfg == applyDefaults(cfgFile)

-----------------------------------------------------------------------------
\* The directory of t is not one that a pull fills or was cut short in.
Sound(t) == ~Filled(t) /\ t \notin cut

ManagedBuild(t)    == [kind |-> "ggml", tag |-> t, sound |-> Sound(t)]
CustomDir          == [kind |-> "custom"]
StudioBuild(d, ds) == [kind |-> "studio", dir |-> d, among |-> ds]

\* What a specification can resolve to when LM Studio has the directories ds;
\* {} is an error.
resolveBackend(spec, ds) ==
  CASE spec.kind = "ggml"    -> {ManagedBuild(t) : t \in ResolveGGML(spec.ref)}
    [] spec.kind = "dir"     -> IF spec.hasServer THEN {CustomDir} ELSE {}
    [] spec.kind = "variant" -> {StudioBuild(d, ds) : d \in Latest(ds, spec.variant)}

backendFor(s, ds) == IF s.backend = NoSpec THEN {rigwide} ELSE resolveBackend(s.backend, ds)

\* An instance: in.Slot, with the port that was asked for, in.Port, in.Backend.
Instance(s, p, b) ==
  [name |-> s.name, external |-> External(s), asked |-> s.port, port |-> p, backend |-> b]

\* The instances that the slot s can become; {} is an error.
Instances(s, p, ds) ==
  IF External(s)
  THEN IF s.alias /\ s.external = "url" THEN {Instance(s, UrlPort, Nothing)} ELSE {}
  ELSE IF s.model = NoModel \/ Find(s.model) = {} THEN {}
  ELSE {Instance(s, p, b) : b \in backendFor(s, ds)}

Taken(n) == \E j \in DOMAIN placed : placed[j].name = n

\* nextPortLocked
NextPort ==
  CHOOSE p \in cfg.basePort .. cfg.basePort + Len(placed) :
    /\ \A j \in DOMAIN placed : placed[j].port # p
    /\ \A q \in cfg.basePort .. p - 1 : \E j \in DOMAIN placed : placed[j].port = q

\* The slots whose llama-server the rig launches and restarts.
Launched == {j \in DOMAIN placed : phase \in {"boot", "serve", "stop"} /\ ~placed[j].external}

\* Those that StopAll has not come to.
Unstopped == {j \in Launched : j > stopped}

-----------------------------------------------------------------------------
Off ==
  /\ phase = "off" /\ cfgFile = Nothing /\ rigwide = Nothing
  /\ placed = <<>> /\ toLoad = <<>> /\ handler = FALSE /\ stopped = 0

Init == BuildsInit /\ Off /\ orphaned = FALSE /\ abrupt = FALSE /\ overtaken = FALSE

\* The process ends, by itself or by a signal.
Exits ==
  /\ phase' = "off" /\ cfgFile' = Nothing /\ rigwide' = Nothing
  /\ placed' = <<>> /\ toLoad' = <<>> /\ handler' = FALSE /\ stopped' = 0

\* config.Load.  A configuration that it refuses ends the process at once.
Load(c) ==
  /\ phase = "off"
  /\ validate(applyDefaults(c))
  /\ cfgFile' = c
  /\ phase' = "load"
  /\ orphaned' = FALSE /\ abrupt' = FALSE /\ overtaken' = FALSE
  /\ UNCHANGED <<buildVars, rigwide, placed, toLoad, handler, stopped>>

\* rig.New, the rig's own backend, whether or not a slot uses it
NewBackend(ds) ==
  /\ phase = "load"
  /\ LET found == resolveBackend(cfg.backend, ds) IN
     \/ /\ rigwide' \in found
        /\ phase' = "new"
        /\ UNCHANGED <<cfgFile, placed, toLoad, handler, stopped>>
     \/ found = {} /\ Exits
  /\ UNCHANGED <<buildVars, pastVars>>

\* rig.New, the next configured slot
NewSlot(ds) ==
  /\ phase = "new" /\ Len(placed) < Len(cfg.slots)
  /\ LET j    == Len(placed) + 1
         made == Instances(cfgFile.slots[j], cfg.slots[j].port, ds)
     IN  \/ /\ \E in \in made : placed' = Append(placed, in)
            /\ UNCHANGED <<phase, cfgFile, rigwide, toLoad, handler, stopped>>
         \/ made = {} /\ Exits
  /\ UNCHANGED <<buildVars, pastVars>>

\* Mutant of Listen: the slots have been started when the port turns out taken.
ListenLate ==
  /\ phase = "new" /\ Len(placed) = Len(cfg.slots)
  /\ \/ /\ phase' = "bound"
        /\ UNCHANGED <<cfgFile, rigwide, placed, toLoad, handler, stopped, orphaned>>
     \/ Exits /\ orphaned' = (~Reaps /\ \E j \in DOMAIN placed : ~placed[j].external)
  /\ UNCHANGED <<buildVars, abrupt, overtaken>>

\* net.Listen: the router's port is free or it is not
Listen ==
  /\ phase = "new" /\ Len(placed) = Len(cfg.slots)
  /\ \/ phase' = "bound" /\ UNCHANGED <<cfgFile, rigwide, placed, toLoad, handler, stopped>>
     \/ Exits
  /\ UNCHANGED <<buildVars, pastVars>>

\* r.Start, and ApplyProfile begins when there are no slots to start
Start ==
  /\ phase = "bound"
  /\ phase' = "boot"
  /\ toLoad' = IF cfg.slots = <<>> THEN cfg.profile ELSE <<>>
  /\ UNCHANGED <<buildVars, cfgFile, rigwide, placed, handler, stopped, pastVars>>

\* rig.Load for the next slot of the default profile; an error skips the slot
LoadSlot(ds) ==
  /\ phase = "boot" /\ toLoad # <<>>
  /\ LET s    == Head(toLoad)
         made == Instances(s, IF s.port = 0 THEN NextPort ELSE s.port, ds)
     IN  IF made = {} \/ Taken(s.name) THEN UNCHANGED placed
         ELSE \E in \in made : placed' = Append(placed, in)
  /\ toLoad' = Tail(toLoad)
  /\ UNCHANGED <<buildVars, phase, cfgFile, rigwide, handler, stopped, pastVars>>

\* The signal goroutine is spawned and srv.Serve runs.
Serve ==
  /\ phase = "boot" /\ toLoad = <<>>
  /\ phase' = "serve"
  /\ UNCHANGED <<buildVars, cfgFile, rigwide, placed, toLoad, handler, stopped, pastVars>>

\* signal.Notify in that goroutine
Notify ==
  /\ phase = "serve" /\ ~handler
  /\ handler' = TRUE
  /\ UNCHANGED <<buildVars, phase, cfgFile, rigwide, placed, toLoad, stopped, pastVars>>

\* The process ends.  A llama-server may run for a slot that StopAll has not come
\* to, or because something came behind it; then it lives on unless it is reaped.
ProcessEnds ==
  /\ Exits
  /\ \/ UNCHANGED orphaned
     \/ ~Reaps /\ (Unstopped # {} \/ overtaken) /\ orphaned' = TRUE

DiesAbruptly == ProcessEnds /\ abrupt' = TRUE /\ UNCHANGED <<buildVars, overtaken>>

\* SIGINT or SIGTERM.  The handler, once installed, takes the first and begins
\* StopAll; it reads no other, and Notify has disarmed them.
Signal ==
  /\ phase # "off"
  /\ \/ ~handler /\ DiesAbruptly
     \/ /\ handler /\ phase = "serve"
        /\ phase' = "stop"
        /\ UNCHANGED <<buildVars, cfgFile, rigwide, placed, toLoad, handler, stopped, pastVars>>

\* StopAll: stopping, kill and the state Stopped for the next instance
StopNext ==
  /\ phase = "stop" /\ stopped < Len(placed)
  /\ stopped' = stopped + 1
  /\ UNCHANGED <<buildVars, phase, cfgFile, rigwide, placed, toLoad, handler, pastVars>>

Overtakes ==
  /\ overtaken' = TRUE
  /\ UNCHANGED <<buildVars, serveVars, orphaned, abrupt>>

\* The router still listens: it serves a Load, whose slot the loop does not
\* range over, or an Unload, which shifts the instances the loop has before it
\* (Registry).
RequestLate == phase = "stop" /\ Overtakes

\* launch publishes the llama-server of a slot that was stopped without one
\* (Supervisor).
LaunchLate == /\ phase = "stop" /\ \E j \in Launched : j <= stopped
              /\ Overtakes

\* Mutant of Shutdown: the server is shut down beside StopAll, not after it.
ShutdownBeside ==
  /\ phase = "stop"
  /\ ProcessEnds
  /\ UNCHANGED <<buildVars, abrupt, overtaken>>

\* srv.Shutdown after StopAll: Serve returns and the process ends.
Shutdown ==
  /\ phase = "stop" /\ stopped = Len(placed)
  /\ ProcessEnds
  /\ UNCHANGED <<buildVars, abrupt, overtaken>>

\* srv.Serve returns an error of the listener.
ServeFails == phase \in {"serve", "stop"} /\ DiesAbruptly

ServeStep ==
  \/ \E c \in ConfigFile : Load(c)
  \/ \E ds \in Scan : NewBackend(ds) \/ NewSlot(ds) \/ LoadSlot(ds)
  \/ Listen \/ Start \/ Serve \/ Notify \/ Signal \/ ServeFails
  \/ StopNext \/ RequestLate \/ LaunchLate \/ Shutdown

PullsStep == BuildsNext /\ UNCHANGED <<serveVars, pastVars>>

Next == ServeStep \/ PullsStep

Spec == Init /\ [][Next]_vars

-----------------------------------------------------------------------------
Backend ==
  [kind : {"ggml"}, tag : Tag, sound : BOOLEAN] \cup {CustomDir}
    \cup UNION {{StudioBuild(d, ds) : d \in ds} : ds \in Scan}

ASSUME NothingAssumption == Nothing \notin Backend

InstanceRecord ==
  [name : STRING, external : BOOLEAN, asked : Nat, port : Nat, backend : Backend \cup {Nothing}]

\* Every variable has its type.
TypeOK ==
  /\ BuildsTypeOK
  /\ phase \in {"off", "load", "new", "bound", "boot", "serve", "stop"}
  /\ cfgFile \in ConfigFile \cup {Nothing}
  /\ rigwide \in Backend \cup {Nothing}
  /\ placed \in Seq(InstanceRecord)
  /\ toLoad \in Seq(SlotRecord)
  /\ handler \in BOOLEAN /\ stopped \in 0 .. Len(placed)
  /\ orphaned \in BOOLEAN /\ abrupt \in BOOLEAN /\ overtaken \in BOOLEAN

\* resolveBackend and PullGGML: a slot whose managed build was in order when the
\* slot was placed keeps it whole for as long as it launches from it, whatever
\* is pulled meanwhile; PullGGML's reuse of a build is what protects it.
ServesWhole ==
  \A j \in Launched :
    placed[j].backend.kind = "ggml" /\ placed[j].backend.sound => Whole(placed[j].backend.tag)

\* "Bind the router BEFORE spawning any llama-server, so a port clash can't
\* orphan a loading model process" (main.go:160), and StopAll before Shutdown:
\* no error of the start leaves a llama-server behind, and no signal that the
\* handler takes does, unless a request or a launch comes behind StopAll's loop.
OrphansExplained == orphaned => abrupt \/ overtaken

\* applyDefaults and nextPortLocked: two launched slots get the same port only
\* where the configuration names it; in a profile an automatic port also keeps
\* clear of those that earlier slots ask for, among static slots it does not.
PortsApart ==
  \A j, k \in Launched :
    j < k /\ placed[j].port = placed[k].port =>
      placed[k].asked # 0 \/ (placed[j].asked # 0 /\ cfgFile.slots # <<>>)

\* New puts its slots into byName without a look at what is there: validate is
\* what keeps two instances from sharing a name, Load's check in a profile.
NamesApart ==
  \A j, k \in DOMAIN placed : j # k => placed[j].name # placed[k].name

\* "2.22.0": up to three parts, each below 100; such a version as a number
TwoDigits == 0 .. 99
Dotted(v) == Len(v) <= 3 /\ \A k \in 1 .. Len(v) : v[k] \in TwoDigits
Number(x, y, z) == 10000 * x + 100 * y + z
Rank(v) == Number(Part(v, 1), Part(v, 2), Part(v, 3))

\* "the newest COMPLETE backend for a variant (the one we can actually run)"
\* (backends.go:121)
ChoosesNewest ==
  \A j \in DOMAIN placed :
    LET b == placed[j].backend IN
    b # Nothing /\ b.kind = "studio" =>
      /\ Runnable(b.dir)
      /\ \A d \in b.among : /\ VariantOf(d) = VariantOf(b.dir) /\ Runnable(d)
                            /\ Dotted(d.version) /\ Dotted(b.dir.version)
                            => Rank(d.version) <= Rank(b.dir.version)
=============================================================================
