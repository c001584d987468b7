# A TLA+ model of llama-chip

llama-chip supervises a few `llama-server` processes on one machine (the *rig*),
offers them behind one OpenAI-compatible router, and joins the routers of several
machines into a federation, either through configured peers or through a hub.
Everything that is hard about it happens between goroutines, processes and machines:
launches that race stops, handlers that look at the slot table and change it later,
routes that are older than the slots they lead to, heartbeats that arrive late, a hub
that dies between two file operations, a download that is cut short in a directory that
a slot launches from. This directory models those parts, checks them with TLC on small
instances, and proves with TLAPS, for every value of the constants, all of the safety and
action properties that the runs check and find to hold, and two refinements.

Paths below are relative to the repository (`internal/...`, `cmd/...`).

## 1. The system

| Component | State | Operations | Talks to |
|---|---|---|---|
| Slot supervisor (`internal/rig/rig.go`: `supervise`, `launch`) | `in.state`, `in.stopping`, `in.cmd`, `in.exitCh`, local `backoff` | launch (probe the port, start, publish, poll `/health`), wait for the exit, back off, relaunch; stopped from `Unload` and `StopAll` | processes, ports; the registry's stop |
| Slot registry (`rig.go`: `New`, `Load`, `Unload`, `UnloadAll`, `ApplyProfile`, `Ensure`, `Resolve`, `StopAll`) | `r.instances`, `r.byName` under `r.mu`, ports | one handler per `/api/...` call, each of them several critical sections; `StopAll` from the signal handler | supervisors, router |
| External slots (`addExternal`, `loadExternal`, `superviseExternal`) | state mirrored from a server that the rig does not own; the poller's `last` | poll every few seconds until unloaded | registry |
| Peer federation (`internal/fed/fed.go`) | `f.routes`, `f.health` | poll every peer's `/api/fed/local` (else `/v1/models`), rebuild the routes, `Resolve`, `NodeAddr` | other nodes' routers |
| Request proxy (`internal/router/router.go`: `withAuth`, `proxyByModel`, `listModels`, `fedLocal`) | none of its own | pin, serve locally, forward by a route, 404 | rig, federation, the next node |
| Anthropic fold (`internal/router/anthropic.go`) | the body being rewritten | fold system messages into user turns | request proxy |
| Hub token store (`internal/hub/store.go`, `server.go`, `cmd/llama-hub/main.go`) | `s.tokens` under `s.mu`, the token file and its temporary file | load, seed the admin key, mint, verify, revoke, save in two steps | admins' requests |
| Hub roster and client (`internal/hub`, `internal/hubclient`, `fed.ApplyRoster`) | the roster with `LastSeen`; each client's routes | heartbeat, read-only fallback, TTL, apply the roster | every node |
| Start and end of the rig (`cmd/llama-chip/main.go`: `cmdServe`; `rig.New`, `rig.Start`) | the rig under construction, the listener, the signal handler | load the configuration, place the slots, bind, start, apply the default profile, serve, stop | all of the below |
| Configuration (`internal/config/config.go`) | the configuration file | fill in defaults, refuse | start |
| Managed builds (`internal/backends/ggml.go`) | `ManagedDir()/ggml-<tag>` | pull (a process of its own), reuse, resolve `ggml@...` | start, `Load` |
| Backend discovery, model library (`backends.go`, `internal/models/models.go`) | LM Studio's directories | scan, choose | start, `Load` |
| GPU and `lms` wrappers, GGUF headers, status views, UIs | files and child programs | read, parse, show | |

Hard behaviours, and what makes each component correct:

* **Supervisor.** A stop interleaves with every step of a launch; the health deadline
  races a slow load; the port probe is stale when the server binds. A slot must have one
  process, a stop must leave none, *healthy* must mean that the slot's own process
  answers, a stopped supervisor must return, and a crashed slot must come back.
* **Registry.** Handlers run concurrently and every operation is a look followed by
  separately locked changes; `StopAll` reads the list without the lock. The list and the
  map must agree, no instance may leave the table without being stopped, automatic ports
  must not collide, and an undisturbed swap or profile switch must do exactly its job.
* **External slots.** The poller reports only what differs from what it reported before,
  and a report can come after an `Unload`. The slot must show what the upstream answers,
  and the poller must end with the slot.
* **Federation and proxy.** Answers of one poll round have different ages. A node must
  forget in time what is gone, a request must not be refused where the poll was admitted,
  and must be answered; routes must settle on what is there.
* **Fold.** One loop with several early exits must lose, double or reorder no block, and
  must be harmless the second time, at the next node.
* **Hub.** A crash between any two steps must not undo what a client was told.
* **Membership.** Late, lost and duplicated beats, revocations, stalls and restarts must
  not leave wrong routes for good, and a read-only token must never contribute.
* **Start and end.** One of many steps fails, a signal arrives between two of them, and
  requests go on while the slots are stopped one by one: what may be left running, and
  when? Slots must get names, ports and builds of their own.
* **Managed builds.** Pulls share a directory without a lock and can die at any file. What
  passes for a build must be one, and must stay one under the slots that use it.

`PROJECT.json` lists each hazard at its line with the properties aimed at it.

## 2. Modules

| Module | Models | MC module, runs |
|---|---|---|
| `Supervisor` | `supervise`, `launch`, the stop half of `Unload`/`StopAll`, `llama-server` processes, ports | `MCSupervisor`: `Supervisor_one`, `_orphan`, `_recover_deadline` |
| `Lifecycle` | what a reader of a slot's state may rely on; `Supervisor` implements it | in `Supervisor_one` |
| `Registry` | the slot table and its concurrent operations, external slots and their pollers | `MCRegistry`: `Registry_pair`, `_shutdown` |
| `Federation` | gossip polling and one request travelling from node to node | `MCFederation`: `Federation_hops`, `_calm`, `_alias` |
| `Fold` | the rewriting of `/v1/messages` bodies, and its reference definition | `MCFold`: `Fold_all` |
| `Hub` | the token store with its handlers, saves and crashes | `MCHub`: `Hub_store` |
| `Ledger` | what the store promises to those who hold tokens; `Hub` implements it | in `Hub_store` |
| `Membership` | heartbeats, roster, TTL, `ApplyRoster` | `MCMembership`: `Membership_calm` |
| `Builds` | `PullGGML` file by file, several at once, `DiscoverManaged`, `ResolveGGML` | in `Startup` |
| `Backends`, `Config`, `Library` | operators: what `backends.Latest`, `applyDefaults`, `validate` and `models.Find` return | in `Startup` |
| `Startup` | `cmdServe` from its start to its end, beside the pulls; composes the four above | `MCStartup`: `Startup` |
| `Numbers` | lemmas on finite sets of numbers, shared by the proofs | |
| `SupervisorProofs`, `RegistryProofs`, `FederationProofs`, `HubProofs`, `MembershipProofs`, `StartupProofs`, `FoldProofs` | theorems and their lemmas | |

Definitions whose comment begins with *Mutant of* are deliberately wrong variants of the
definition that follows them. Each stands for a plausible slip in the code and shows that
some property would notice it; no specification uses them.

### Supervisor

`pc[i]` is the place of slot *i*'s `supervise` goroutine. Every read of `in.stopping`,
every `in.set` and the publication of `in.cmd` is a separate step, because `Unload` and
`StopAll` run in other goroutines and take `in.mu` only for moments. A stopper reads
`in.cmd` (`RequestStop`), kills what it read (`Kill`) and sets the state (`MarkStopped`),
in three steps. `child` is `launch`'s local command between `cmd.Start` and the
assignment of `in.cmd`: the window in which a stop cannot see the process.

Processes bind, become ready, crash, fail to bind and die of a kill on their own; other
programs take and leave ports, and answer there what they like: a 200 makes the slot
*healthy* whoever gives it (`MayAnswer200`). Process identities are used again once
nothing refers to them, which keeps the model finite without bounding the number of
restarts. Time is left out: a sleep is part of a step, and any load can outlast the
four-minute deadline. The history variable `overran` remembers the slots to which that
happened; the properties that a left-behind process breaks except them. `intruded`
remembers the slots whose port such a program took after the launch had probed it, and
lasts until the launch has failed or the process has exited. The GET of the health check
has no timeout in the code: it returns when somebody answers or the one who holds the
connection goes away.

`Lifecycle` is the abstract specification. It knows a slot's state as `/api/status`, the
router, `Ensure` and the hub client read it, the request to stop, and how many reports may
still come after it. The refinement mapping takes `state`, `stopping` and the place of
`supervise`, from which the number of outstanding `in.set` calls follows (`Outstanding`).

### Registry

A client carries the names it has still to unload and the slots it has still to load; the
operations differ only in what they put there. `Remove`, `StopHeld`, `Insert`, `NotLoaded`
and `LoadFails` are the critical sections of `Unload` and `Load`. `StopAll` ranges over
the *array* of `r.instances`: `view`, `shared` and `cap` model Go's slices, in which
closing a gap moves elements under the loop and an append writes in place until the
capacity is used up. `alone[c]` is a history variable: it says that no other request was
under way since the request of *c* began. `healthy` is what a supervisor reports; here it
changes at will. `Fragile` are the slots that `Load` may refuse when their turn comes, because
the model or the backend does not resolve or the URL does not parse; any slot is refused when
its name is taken.

An external slot goes through the same `Load` and `Unload`. Its instance has a goroutine of
its own, `superviseExternal`: `PollLoop` reads `in.stopping`, `PollAnswered` and `PollLost`
end the GET, `PollReport` compares with `last` and calls `in.set`. The upstream comes and
goes as it likes.

### Federation

One request at a time stands for any number, since requests change nothing at the nodes.
`heard` collects the answers of a poll round, each as of the moment its peer gave it;
`Rebuild` replaces the routes when all are in. Handles are abstract: `NameMatch` and
`IDMatch` say which slot names and which model IDs contain a handle, so the difference
between `fed.Resolve` (names) and `rig.Resolve` (exact name, else ID) is kept. `unrest` is
a history variable: the rounds a node has to finish until it has forgotten the last unload
anywhere and the last fallback list it was given itself. Tokens follow the code's
precedence, and loopback clients are admitted as `withAuth` does.

### Fold

The loop of `foldSystemTurns` is the state machine, one message per step, with its early
returns; `Parse` stands for `parseOrdered` and the checks before the loop, `NextHop` for a
router that proxies to a peer, which folds again. A content block is an opaque value, and
a message is a role, the shape of its content and its blocks.

The reference is said without a loop, in the words of the comment at `anthropic.go:20-22`.
A *place* is a message and a block of it; `Home` is the turn where the blocks of a message
belong, and `Residents` are the places at home in a turn. `IsFold` says what the result is:
the turns are those that were no system messages (and one more if blocks are left over), in
their order and with their roles; each `Lists` its residents, every one once and in the order
of the body; and a turn into which nothing is folded is as it was, string content included.
`Impossible` says when the code gives up. Blocks of one body are told apart, so that a
doubled block or a wrong order can be seen; the code never compares blocks.

### Hub

`WriteTmp` and `Rename` are the two steps of `saveLocked`; either can fail, and the
process can crash between any two steps of anybody. `minted` and `revoked` record what
clients were told. A start of the hub seeds the admin key, finds it there, or has none to
seed (`SeedBlank`). A secret stands for its hash. `newSecret` is random, so the secret of
a minted token is new. `Ledger` is the abstract specification: the token *file* is a book
that is only added to and struck through, and clients are told what is in it. Memory,
lock, temporary file and crashes are not visible there.

### Membership

A beat goes *posting, verified, entered, apply*; a user token goes *posting, reading,
apply*. A node token whose client advertises no address (`mute`) is refused with 400 every
time and has no fallback, so it never sees a roster (`Rejected`). `stray` holds beats
whose client gave up after six seconds and which the hub may still carry out, before or
after newer ones. `age` counts ticks since `LastSeen`. An answer is kept as the routes
that `ApplyRoster` makes of it, which depend on nothing but the answer and the node.
`steady` is a history variable for `KeepsRoutes`: no slot has changed, no hub restarted
and no beat been overdue so far.

### Builds and Startup

A pull goes *stat, download, extract, download, ...*, one archive entry after the other. An
entry is created or truncated (`Create`), grows (`Grow`) and is closed (`Close`); `writer`
remembers who truncated a file last, because two pulls of one release write into the same
files, and the bytes of the first may be lost under the truncation by the second. A link
counts as a file. `CutShort` is every error and every kill. `cut` is a history variable: the
directories in which a pull was cut short at a moment from which the code cannot tell that
anything is missing, that is when the server had content already, or another pull was
filling the directory and would have its files tested for.

`Startup` places one slot per step, since every slot resolves its backend against the
directories as they are at that moment. A backend is remembered with what it was chosen
from, and whether its directory was *sound*: not being filled and not cut. Configuration,
library and LM Studio's directories are constants or inputs: `ConfigFile` are the
configurations that can be on disk, `Scan` the contents LM Studio's directory can have, and
they change from step to step. `orphaned` records that a process died with llama-servers
running where nothing reaps them (`reap_other.go`), `abrupt` that it died of a signal that
nothing handled or of `Serve`'s error. A handled signal opens the phase *stop*, in which
`StopAll` goes over the slots one by one (`StopNext`) and the router still serves; `Shutdown`
comes after it. What comes behind the loop is not taken apart again here: `RequestLate` is a
`Load` or an `Unload` that the loop does not see, which `Registry` models, `LaunchLate` the
publication of a process for a slot that was stopped without it, which `Supervisor` models.
Both set `overtaken`.

## 3. Runs

### Checked and found to hold

| Run | Instance | Shows |
|---|---|---|
| `Supervisor_one` | 1 slot, 3 processes, 2 stoppers, a port others can take, loads that outlast the deadline, `BackoffLimit` 2 | `OneProcess`, `StopComplete`, `HealthyServes` (unless an intruder answered), types and the bound on the retry delay; a stopped supervisor returns (`StopEnds`); an unstopped slot is served again and again unless a launch abandoned its process (`Recovers`); the state follows `Lifecycle` (`KeepsLifecycle`) |
| `Registry_pair` | 2 clients, all requests, 2 names, 3 slots on 2 GPUs, one of them fragile, profiles of 2 and 3 slots, 4 instances | `Consistent`, `NoLeak`, `AutoPorts`; `SwapClean` and `ProfileExact` for requests that run undisturbed, from every table that concurrent requests can leave: a profile ends as exactly its slots, all of them but those that `Load` may refuse |
| `Registry_shutdown` | 1 client, a launched and an external slot, the `StopAll` loop | `MemoAgrees`; under fairness `UnloadStops`, `PollerEnds` and `MirrorsUpstream` |
| `Federation_hops` | 3 nodes, one gated, nodes that leave and rejoin, flaky polls, pins | `RouteAdmitted`, types |
| `Federation_calm` | 2 mutual peers, slots that change, nodes that roam, flaky and fallback polls, pins | `RoutesEnd` while all that goes on; `Converges` and `Answered` once it ends |
| `Fold_all` | all conversations of up to 5 messages of 11 kinds, 2 routers | `MatchesReference`, `OrderKept`, `FoldedOnce` |
| `Hub_store` | 3 token IDs, 2 handlers, crashes and failed saves anywhere | `AckedSurvives`, `WriteThrough`, `ActiveUnique`, `KeepsLedger` |
| `Membership_calm` | 2 nodes (two contributors, or a contributor and a reader or a client without an address), 1 model, 1 stray beat, TTL of 1 tick, one revocable token | `OnlyContributors`, `KeepsRoutes`, `Converges` |
| `Startup` | 2 pulls, 2 releases of 2 archives, 5 configurations, 2 scans of LM Studio's directory, no reaping | `PassesWhole`, `ServesWhole`, `OrphansExplained`, `PortsApart`, `ChoosesNewest` |

Between them these runs take every action of every module. Deadlock is checked except in
`Fold_all`, where a body that has been rewritten is the end.

**Why the bounds are enough.** *Supervisor*: three processes are the one being launched,
the one being killed and one more that an earlier stop or deadline left; two stoppers are
the two that exist, `Unload` and `StopAll`. With `BackoffLimit` 2 the delay doubles and
stops, which is what the bound in `TypeOK` is about; that it stays below twice any limit
is proved. *Registry*: the races are between two handlers; two names with three slots give
name clashes, GPU overlap, explicit next to automatic ports and gaps in the ports; four
instances are two in the table and one held by each client. The two profiles have the slot
that may be refused in front and in the middle, the second also a name twice. Beside
`StopAll` one client and a poller suffice, since the pollers of two slots share nothing;
with two instances a `Load` waits there for the identity of a slot that is really gone.
*Federation*: three nodes are needed for a peer that one node may use and another may not,
and for two peers with the same model; two mutual peers are the smallest federation in
which gossip can feed back, and with one model every stale combination of routes is
reached. *Fold*: five messages hold a system message before, between and after two user
turns. *Hub*: three IDs are a seeded admin, a minted token and a second seed; two handlers
are the smallest race. *Membership*: two nodes see each other's coming and going; with two
nodes the order of the names decides nothing, so the initial grants and the revocable
token are chosen up to the mirror image. TTL 1 distinguishes fresh, about to expire and
expired. *Startup*: two pulls meet in one directory, one after the other or at once, and
two archives of one file each have a moment when the server is there and its library is
not; a second release makes *latest* change. The configurations are one of each kind:
defaults only, explicit and automatic ports with an external slot between them, one that
`validate` refuses, one that `New` refuses, and a default profile with a slot that fails.
The scans have versions of different length, parts past 9, a stub, a shim without its
library and a build whose name gives it another variant. `MaxHops` (of the fold), `Late`
and `MaxLen` are the other bounds; each is a named constant.

### Disagreements between the code and its documentation

| Run | Property | What happens |
|---|---|---|
| `Supervisor_orphan` | `NoOrphan` | `launch` publishes `in.cmd` after a stop has read the old value; it then sees `in.stopping` and returns without killing its process (`rig.go:482`). Nobody refers to the process any more, yet it runs: against `rig.go:158` and `rig.go:362`. |
| `Supervisor_recover_deadline` | `AutoRestart` | A load that outlasts the deadline is reported as failed and left running (`rig.go:498`). It takes the port, and every later launch fails at the port probe: against `README.md:37`. |
| `Federation_alias` | `NoEndlessLoop` | A request is pinned to a peer by a handle contained in slot names but in no model ID. It goes on from there by a route (`router.go:550`) and between the two mutual peers for ever (`fed.go:438`): against `fed.go:12-13`, and against *no double-hop, no loop* of `router.go:529-530` and `docs/federation.md:248`. |

More were met while modelling. The properties above are stated so as to leave these
cases out, and the models contain the behaviour:

* Two concurrent `Ensure` calls can both evict before either loads, and end with two slots
  on one GPU; two concurrent `ApplyProfile` calls can end with slots of both profiles.
  `SwapClean` and `ProfileExact` without `alone[c]` fail for two clients.
* `StopAll` ranges over `r.instances` without the lock. An `Unload` that closes a gap below
  the loop's index makes it skip an instance, which is then not stopped (`rig.go:364`, with
  three configured slots).
* The double hop of a pinned request needs no ambiguous handle: with a plain name too, a node
  that is pinned and does not have the model routes the request on, even back to the node that
  pinned it. Only the loop needs the handle, and `Federation_alias` has both in one trace.
* A route is followed for up to two rounds after the model was unloaded at its end, and
  longer where a fallback list brought it back. `RoutesEnd` says where this ends.
* A program that takes the slot's port after the probe and answers 200 makes the slot
  *healthy* (`rig.go:490`): nothing ties the answer to the process. `HealthyServes`
  excepts the slot by way of `intruded`, until its launch fails or its process exits, and
  shows that nothing else does that while loads meet the deadline.
* When `/api/fed/local` fails and `/v1/models` does not, two peers can keep a model alive
  that neither has (`fed.go:370`, against `fed.go:14`). `Converges` assumes that
  `/api/fed/local` works again in the end.
* A revoked seeded admin token is seeded anew at the next start (`store.go:156`), because
  only active tokens count. `ActiveUnique` is about active tokens for that reason.
* After a hub restart the first answers are partial rosters, and routes to nodes that have
  not beaten since drop out until they do (`fed.go:255`, against `hubclient.go:68`).
  `KeepsRoutes` therefore excludes restarts by way of `steady`.
* `PullGGML` takes any server file of non-zero size for a finished build (`ggml.go:142`).
  A pull that is killed after the server has content, say between the two archives, leaves a
  directory that every later pull *reuses* and that `ggml@latest` launches, against the
  self-contained directory of `ggml.go:6`. `cut` names these cases; `PassesWhole` shows that
  they are the only ones, and that an earlier cut is repaired by the next pull.
* `ggml@latest` can also resolve to a directory that a pull is filling at that moment.
  `ServesWhole` is about slots whose build was in order when they were placed.
* Among configured slots an automatic port does not keep clear of explicit ones
  (`config.go:155`), as `nextPortLocked` does; `PortsApart` says so.
* `signal.Notify` runs in a goroutine that is spawned after `Start` and after the default
  profile (`main.go:213`). A signal before it, or an error of `Serve`, ends the rig without
  `StopAll`, and where the kernel does not reap children the llama-servers stay
  (`abrupt` in `OrphansExplained`).
* A handled signal may leave a llama-server behind as well, against `reap_other.go:7-9`: the
  router serves requests while `StopAll` runs, whose loop misses the slot that a `Load`
  appends and can skip one when an `Unload` closes a gap, and a launch can publish its
  process after the stop (`overtaken`). `OrphansExplained` says that there is no other
  way.
* `Ensure` resolves `s.Model` (`rig.go:258`), which is empty for an external slot, and every
  model ID contains the empty string: any healthy first slot counts as *already loaded*.
* The health check's `http.Get` has no timeout (`rig.go:490`). If a stranger on the slot's
  port accepts and never answers, a stop does not end the supervisor; `StopEnds` excepts it
  (`Stranded`) and shows that nothing else does that.

## 4. Fairness

* **Supervisor** (`Fairness`). Goroutines are scheduled, sleeps end, a stopper that has
  begun goes on, a kill takes effect and `cmd.Wait` returns. A GET returns if again and
  again nobody holds the port (a refused or broken connection is an error at once); while
  somebody holds it nothing is assumed, because the code sets no timeout. A stop is never
  assumed to be requested. `Servable`, a premise of `Recovers` and `AutoRestart` only,
  describes the machine: GETs are answered, starting a process does not fail for ever, a
  server that can bind does, servers stop crashing and foreign programs leave the port in
  the end.
* **Registry** (`FairSpec`). A handler that has begun goes on; none of its steps waits for
  another client beyond a mutex. A poller's sleep ends, and its GET has a timeout of three
  seconds. Requests, and `StopAll`, need not come. `MirrorsUpstream` has as its premise that
  the upstream stays as it is and answers are not lost for ever.
* **Federation** (`FairSpec`, `CalmSpec`). The ticker keeps every node polling, each fetch
  ends within the client's four seconds, a request moves on. `Calm` is the premise of
  convergence: from some time on slots and nodes stay put and an admitted poll gets its
  answer from `/api/fed/local`.
* **Membership** (`CalmSpec`). Tickers keep beating, time passes, the hub carries out what
  reaches it. `Calm`: from some time on slots, tokens and the hub stay put, beats are
  punctual (five seconds against a TTL of thirty) and end with an answer.

The `Calm` formulas say what a step brings about and not which action took it: a failed poll
of a peer without slots, or a lost answer that brings nothing new, is the same step as
a successful one, and a formula that forbade the action would forbid the success as well.

## 5. Proofs

All constants are arbitrary within the named `ASSUME`s of the modules, which say only what
the code or the configuration's validation guarantees (distinct names of configured slots,
a port for each, versions that are lists of numbers) or how the model tells its values apart
(`None` different from real values, profile names from the other requests, the blocks of one
body from each other).

**SupervisorProofs.** `Typing` is inductive by itself. `SafetyInv` is the strengthening
for `OneProcess` and `StopComplete`: neither says where a process can be found, so a
launch or a kill could break them. The invariant says that, for a slot whose loads met the
deadline, every live process is the one its supervisor is attending to, or the one a
stopped supervisor has walked away from (`AttendedInv`): in particular none is live where
a launch begins. The other parts support it: `child` is set exactly in the publication
window (`ChildInv`), `in.cmd` is a process of the slot wherever `supervise` relies on it
(`CmdInv`), only live processes hold ports (`ProcInv`), and what a stopper killed stays
killed (`VictimInv`). `AtMostOneProcess` and `StopsAreComplete` follow.
`HealthyMeansServing` and `EndedReported` add `ServesInv` and `ReportedInv`: whoever
answers on the slot's port is the slot's own process (`AnswerIsOwn`), because ports are
distinct, the slot has one process, and a stranger on the port has made the slot
`intruded` (`IntrudedInv`). `ImplementsLifecycle` goes through the actions: each is a step
of `Lifecycle` or leaves its variables alone, given the state that `ReportedInv` ties to
each place of `supervise`.

**RegistryProofs.** One invariant for any number of clients and any mix of requests,
`StopAll` and pollers included. It says that a client holds an instance exactly while it
is about to stop it (`Carries`), that listed instances have slots, and that a poller that
has ended remembers nothing. Two lemmas on lists carry `Consistent` and `NoLeak`: closing
a gap removes just one element (`RemovedFromList`), and a new instance is in no list
(`AppendedToList`). `PortsDistinct` needs that the search of `nextPortLocked` ends: among
*n* + 1 candidates for *n* instances one is free (`MorePortsThanSlots` in `Numbers`), and
a least free one exists (`LessWellFounded`, `LeastElement`), so that the `CHOOSE` of the
model has a value. `SwapClean` and `ProfileExact` speak of a request that nothing
disturbed, and what makes them true was decided when it looked at the table. `AloneInv`
carries that look along: a client that is alone still owes the unloading of every listed
instance that overlaps the slot it is going to load (`Evicts`), and of every listed one
that is not among the profile's slots it has tried; and of those it has tried, every one
that cannot be refused is listed (`LaysOut`). It loads only when it owes nothing
(`Drained`), and nobody else is under way (`Solitary`).

**FederationProofs.** `RoutesAreAdmitted` rests on `AdmitInv`: a peer that was heard to have
models let the node's bearer in, so a route leads to a peer that does (polling and proxying
use the same bearer). `RoutesEndWhereServed` (for `RoutesEnd`) rests on `HopInv`, an
induction over rounds: with at most one round to go, what was heard in the round under way is
at the peer that said it, and with none to go, so is what is routed. An unload anywhere sets
the count back to two, a load makes no answer less true. `TypesKept` is the type invariant.

**HubProofs.** `HubInv` proves the types, `AckedSurvives`, `WriteThrough` and
`ActiveUnique`. The key is `Ahead`: memory is the file plus additions and revocations. A
save can then only add and revoke, and a crash goes back to a file that holds every
promise. `LockInv` and `TaskInv` follow a save through its steps. `ImplementsLedger` needs
more than `Ahead`: what is in memory for a token of the file is that token or that token
struck through (`Kept`), and striking through twice is doing it once.

**MembershipProofs.** `UsersOnlyRead` needs `CheckedInv`: no beat of a user token or
without an address is past the hub's checks, neither one that is waited for nor one that
was given up on. From there it is what `ApplyRoster` does (`RoutesLead`): a route leads to
another node of the roster. `BlipKeepsRoutes` (for `KeepsRoutes`) is about runs that are
steady so far. `SteadyInv` says what they have in common, even with beats late, lost,
doubled or answered read-only: what is on its way and what the roster says of a node is
what the node has, a contributor's entry has not expired, a route leads to somebody who is
listed, and an answer that waits to be applied holds a route for every model that has one
(`AnswerKeeps`), so that applying it drops none.

**StartupProofs.** First the pulls. `PassesWhole` speaks of directories that nobody fills, and
what makes it true was done while somebody did. `StartedInv` is the bridge: outside `cut`, a
file on which some filling pull has started is whole, or the pull that truncated it last
still has it open. When the last filling pull ends no file has a writer, so all are whole.
`Ahead` (the files that a pull has not started on) makes *started* precise across archives;
`WriterInv` says that a writer has its file open.

Then the start, with that invariant: a backend that was chosen when sound is whole and
nobody fills it (`GoodInv`), which every step of a pull keeps because the reuse test keeps
pulls out of it (`WholeKept`); with static slots the instances follow the configuration
slot by slot (`StaticInv`), so that `validate` and the counting of `applyDefaults`
(`PortlessCounts`) decide names and ports; in a profile `Load`'s own checks do
(`ProfileInv`). `NoSilentOrphan` needs that `Shutdown` finds no slot unstopped
(`EndSteps`), and that no slot is launched before `Listen`.

Last the versions. `ChoosesNewest` compares versions as numbers, `cmpVersion` part by
part; `NewerIsGreater` says that the two agree, missing parts counting as zero. The
property is about versions of at most three parts below 100, which the reference can rank.
`VersionsOrdered` has no such bound: for lists of numbers of any length `cmpVersion` is a
strict weak order, which `sort.Slice` needs. `LatestFound` has none either: in any finite
directory a runnable build of a variant is enough for the variant to resolve, since a
strict weak order has a greatest element in every finite set. The proofs hold for any
configurations, any directories and any number of pulls.

**FoldProofs.** The result depends on every message, so the fold calls for an induction
over the conversation, and the loop itself is that induction: `Loop(ms, n, os, bs)` says
of the messages before *n* what `IsFold` says of all. The turns so far are in `os`, each
with the blocks that have arrived in it (`Arrived`), and `bs` has the blocks whose home is
still to come (`Waiting`). `LoopBack`, `LoopAhead`, `LoopTake` and `LoopKeep` are its four
steps, and `LoopEnds` turns it into `IsFold`. They rest on what `Home` is (`HomeIs`), on
its being monotone (`HomesInOrder`): a later message has no earlier home, so that blocks
appended in the order of the loop are in the order of the body; on the position of a turn
as a count (`Counts`, `CountsGrow`); and on concatenation (`ListsJoin`: what lists *P*,
followed by what lists *Q*, lists both when *P* is before *Q*). No recursive definition is
unfolded anywhere. `NothingMoved` follows from `Loop` as well, at every turn and at the
end (`LoopInOrder`), and `SecondFoldIdle` from the absence of system messages in a result
that was folded. The theorems hold for conversations of any length and any number of
routers.

**Numbers.** Least and greatest elements of finite sets of numbers, and the pigeonhole of the
ports.

**Only proved.** `NamesApart`, `EndedNotStarting`, `VersionsOrdered`, `LatestFound`, and
`Consistent` and `NoLeak` beside `StopAll` are theorems and are not repeated in a run.

**Only model-checked.** All liveness (`StopEnds`, `Recovers`, `UnloadStops`, `PollerEnds`,
`MirrorsUpstream`, both `Converges`, `Answered`): it needs `ENABLED`, which the prover
does not reason about. The three disagreements of section 3 are counterexamples and TLC's
alone.

## 6. Not modelled

* `DLLDirs` and `vendorDir` put a search path together for the launched process. The comment
  "prefer the last (newest -vN) match" (`backends.go:168`) holds only while *N* has one digit,
  since the directory is read in lexicographic order.
* The status, live and pool views, `/api/remote` and `guess-context` only read state or pass
  a call on; GGUF headers are read for them alone.
* The wrappers of `nvidia-smi` and `lms` are input and output of other programs.
* The UIs, the experiment and the deploy scripts are not part of the logic.
* Within the modelled parts the log tail, restart counters, latencies, labels, dates, scopes,
  file modes and command-line arguments are left out: no decision that is modelled depends on
  them. Slot names are compared as the code compares them, in lower case.

## 7. Plan

In place, in the order of importance:

1. `Supervisor` with its safety and liveness, `Lifecycle`, and the proofs of both.
2. `Registry`, alone, beside `StopAll` and with external slots; the proofs of its invariants
   and of its undisturbed requests.
3. `Federation`: hops, bearers, convergence, with the proofs of `RoutesEnd` and
   `RouteAdmitted`.
4. `Hub`: crash safety of the token store, `Ledger`, with their proofs.
5. `Membership`: heartbeats and the roster, with the proofs of `OnlyContributors` and
   `KeepsRoutes`.
6. `Fold`: the rewriting loop against its reference, with the proof that it computes it.
7. `Builds`, `Backends`, `Config`, `Library` and `Startup`: how a rig comes to its slots, with
   the proofs, those of the version order among them.

Left:

8. `Rig`: `Supervisor` and `Registry` composed, so that the `stopping` of an instance is the
   one its supervisor reads, and `Startup`'s `Launched` slots are theirs, with the proof that
   a composed step is a step of each.
9. `vendorDir` as an operator of `Backends`.
