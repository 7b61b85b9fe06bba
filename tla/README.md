# mast: specifications

mast is an unattended agent daemon built on the ADK v2 runner. It accepts
triggers (HTTP injects, attach sessions, AG-UI runs, A2A tasks, scheduled ticks,
resumed pauses, boot-time resumption), runs each as a *turn* of a durable
session, and surrounds the turn with guards: one turn per session, durable
interruption markers, a recorded-effect outbox, an operator write gate, budgets,
a watchdog. The modules model the parts where the order of steps decides whether
a guard works.

`PROJECT.json` holds what is tabular: components, runs, the source lines of every
definition (`map`), the mutants, hazards, findings and theorems.

## The system and its modules

| part | code | modules |
|---|---|---|
| composition of a workload | `pkg/{workload,specialists}`, `internal/{config,compose}`, `internal/mcp/annotations.go` | `Composition` |
| turn chokepoint and drain | `internal/cli/{turn,shutdown,serve}.go` | `TurnTracker` |
| start, surfaces, teardown | `internal/cli/serve.go` | `Serve` |
| pause, resume, abort, timed pauses | `internal/transcript`, `internal/cli/{handlers,pausesched}.go` | `SessionOps` |
| effect outbox, boot auto-resume | `internal/effects`, `internal/cli/autoresume.go` | `EffectOutbox` |
| scheduling lease, scheduled triggers | `internal/cli/{schedlease,schedtrigger}.go`, `internal/eventlog/lock.go` | `Scheduling` |
| write gate, grants, change sets | `pkg/approval` | `WriteGate` |
| budget, ledger, watchdog, loops | `pkg/budget`, `internal/watchdog`, `internal/cli/{meterpool,watchdogpool}.go` | `Meter`, `Guardrails`, `ToolLoops` |
| attach: streams, registry, adapter, routes, prompts, peers | `internal/attach`, `internal/attachadapter` | `Broadcaster` (implements `EventFeed`), `SessionRegistry`, `Adapter`, `OperatorRoutes`, `Prompts`, `Peers` |
| listeners, limits, listing of parks | `internal/{inject,auth,serverauth,attach}` | `FrontDoor`, `Throttle`, `Parks` |
| agents a turn runs | `internal/{planner,graph,modelretry}` | `Dispatch`, `Workflow`, `Fanout`, `ModelRetry` |
| permissions | `internal/permissions` | `Permissions` |
| AG-UI; A2A server and client | `internal/{agui,a2a,federation}` | `AGUI`; `A2ATasks`, `A2AClient` |
| monitoring cycle | `internal/{monitor,notify}`, `internal/cli/monitor*.go` | `Monitor` |
| files and readings | `internal/{digest,mcp,instruction,kvwindow}`, `internal/cli/configidentity.go` | `Digest`, `Instructions`, `ConfigDrift`, `KVPool` |
| other ways to run a turn | `mast.go`, `internal/cli/oneshot.go` | `Library`, `OneShot` |
| outcome evaluation | `internal/evals/outcome` | `Outcome` |

`Composition` comes first: how files and flags become a root that serves, or a
refused start. The other parts meet at the session. The slot of `TurnTracker` is
what lets `EffectOutbox`, `WriteGate` and `Guardrails` assume one turn at a time, and
lets `SessionOps` name one registered turn. The listeners (`FrontDoor`) hand a request
to the attach, AG-UI, A2A and inject handlers, and all of those call the same
chokepoint. The drain of `TurnTracker` is one step of `Serve`.

Each module's header says which code it models and what one step is: mostly one
critical section, one store call or one wait. Actions carry the names of the
functions they model. A read and the write that follows it are two steps wherever
the code holds no lock across them; a store call may fail; a process may end
between any two steps where something durable is at stake. ADK, tools, models,
the chat ingress and other daemons are external and may do whatever the code does
not exclude.

**Composition.** `at` walks the start: load the bundle and the specialists, check the
roster, wire the servers, build the root, put the write gate around it. Each step
that can refuse does (`Refuse`), in the code's order. A root that serves has three
sources of steps: models call the tools they hold (and park, and are answered),
mast runs some on its own behalf (`read`, `collect`, `ack`), and servers publish
annotations (`observe`), which change how later calls are classified.

**TurnTracker.** A turn's `pc` walks `runTurnPre`: accept, lock, begin (which may
mark), run, end, clear, unlock. `mk` is the progress of a `mark` call, `writeMu`
its mutex. The drain goroutine walks premark, handlers, wait, freeze, cancel,
grace. Process exit is taken to coincide with the drain's last sample.

**SessionOps.** Each call is an actor with a `pc`. A token is named after the call
that minted it. The scheduler (`Timer`) pops, fetches the record again and fires
through the operator's own paths. `replaced` is a history variable: tokens whose
gate record another write took the place of.

**EffectOutbox.** The log is a function of the call: the time of its
FunctionCall, its response, its confirmation. A confirmation's placeholder pairs
the call, as `pairScan` does. The boot pass is separate steps (scan, decide and
count, recheck and drive, clear), so turns and exits fall between them.

**Scheduling.** Two or more process lifetimes over one lease row and one schedule
record: insert, refusal within a retry window, steal of a stale row, heartbeat,
loss, release, and the fail-open path; anchor, plan with coalescing and jitter,
fire, persist.

**Broadcaster.** A pump watches the log and fans out, one replay goroutine per
subscriber catches it up, both send into the same bounded channel. `EventFeed` is
what a subscriber is promised.

## Runs

TLC runs are composed so that state spaces add up instead of multiplying: a
variable `focus` names one component for a whole behaviour, and the components
take turns at one pool of variables (`x1`, `x2`, ...). Every interleaving within a
component is explored; none across components. `TurnTracker`, `SessionOps`,
`Scheduling` and `Composition` keep their own variables in the run that extends
them; the others are instances over the pool.

| run | module | what it shows |
|---|---|---|
| `daemon` | `MCDaemon` | through a drain the marks tell the truth and no marker is cleared under a running turn; a write runs on its own grant and the record says what ran; registry, monitor, AG-UI queue and A2A tasks keep what they tell their clients |
| `session` | `MCSession` | an acknowledged abort or hard pause leaves no turn running untold; no mutation runs over an unacknowledged one; auto-resume is bounded, starts clean and repeats nothing completed; a remote task known to be open is cancelled |
| `timed_pause` | `MCSession` | a timed pause ends; the token of a parked turn is consumed only for an answer |
| `liveness` | `MCLiveness` | a drain ends and a process told to stop leaves; the lease settles; a tick runs once and no plan skips one; `Broadcaster` implements `EventFeed` and strands nobody |
| `surfaces` | `MCSurfaces` | 24 further components: who a request acts for, what a composed root may do, what operators are shown, that a spend once recorded outlives its process, limits that hold although steps overlap, results that are earned |

Each property of these runs has at least one mutant of the code that breaks it
(`mutants`).

`daemon`, `liveness` and `surfaces` do not check deadlock: most of their
components end (a process exits, a run or a turn is over, a bound is used up).
`session` and `timed_pause` do check it; a remote call that has returned stutters
(`Ends`), and in the other components something can always happen or the spec
says that it is over.

**Bounds.** The properties are about a pair of racing calls and what a third
sees, so two to six calls reach them. Three turns give one that leaves something
behind, one that acts on it and a continuation. `MaxAttempts` is 1 so that the
breaker trips; queues, rings, channels and caches hold one or two so that they
fill; retry windows and jitter are as long as the clock's bound allows a second
tick to come. `MaxFaults`, `MaxCrashes`, `MaxExits` and `MaxRestarts` are at most 2:
one failure, and one more in what repairs it. `daemon` exchanges the two requests
for one session (symmetry), which its properties do not tell apart; the runs with
liveness use no symmetry.

**Fairness.** `liveness` assumes that mast's own goroutines go on and that a call
with a timeout returns: the drain goroutine, its timers and a marker write once
begun; the serving goroutine, shutdown, and the teardown watchdog; pump and replay
goroutines; the lease heartbeat. It never assumes that a turn finishes. `timed_pause`
assumes that started calls and turns go on, that time passes, and that a store
asked again and again about one token answers in the end. The last is strong
fairness per token: the scheduler requeues what failed. The scheduler loop is
synchronous, so a turn that never ends would block it; that turns end is an
assumption of this one run.

## Disagreements

| run | code | text it contradicts |
|---|---|---|
| `approved_refire` | an approved call cut off mid-execution does not dangle, and the boot continuation dispatches it again | "auto-resume never double-fires a mutation" |
| `boot_clear` | the boot pass clears a marker a drain just wrote | "marked survivors truly carry durable markers" |
| `abort_race` | a pause written after the abort's snapshot survives it | "holds no resumable tokens and no live timers" |
| `replay_gap` | the pump overtakes a subscriber's replay, whose frames are then skipped | "every frame with seq > since before switching to live-tail" |
| `phantom_charge` | a restore retried after a failed read counts this process's own calls twice | "a retry after a failed read cannot double-count" |
| `masked_ceiling` | a call that crosses a specialist's and the session's ceiling is reported for the specialist only | "crossing a ceiling aborts the run with an error" |
| `stale_change` | a finding without a change leaves the previous change set in place, and that one is executed | "what executes is what an operator approved" |

`approved_refire` is M1 of `docs/assessments/2026-10-29-mast-assessment.md`,
which reports reproducing it; the second dispatch is ADK's and external here.

## Proofs

The theorems hold for every value of the constants that meets the stated
assumptions, whatever the bounds. All bounds on clocks, faults and sequence
numbers are constants too, so a theorem covers every one of them. Each safety
property of `daemon`, `session`, `timed_pause` and `liveness`, and `AuthorityHolds` of
`surfaces`, is proved of the component it is about.

| theorem | states | assumes |
|---|---|---|
| `TurnTrackerProofs` | | |
| `TypeCorrect` | `TypeOK` | `ActorAssumption` |
| `SurvivorsTruthful` | a session counted as marked carries its marker | no boot-resumed turns |
| `ClearsOnlyIdle` | no marker is cleared while a turn of its session is in flight | no boot-resumed turns |
| `RunningMarked` | while the window is open every running turn is marked on disk unless its write failed; a planned stop has paused the known sessions it marked | no boot-resumed turns |
| `MarksTruthful` | the same, and exit 0 within the window leaves no marker behind | inject turns only |
| `SessionOpsProofs` | | |
| `AbortStops` | after an acknowledged abort no turn runs uncancelled | no empty abort reason |
| `AbortTerminal` | after an acknowledged abort the session reads as aborted for good | no empty abort reason |
| `HardPauseStops` | after an acknowledged hard pause no turn runs uncancelled, until its token is spent or its record replaced | no empty abort reason |
| `ConsumedAnswered` | the token of a parked turn is consumed only if its answer is on the log or the session was aborted | no empty abort reason |
| `EffectOutboxProofs` | | |
| `AmbiguityIsBlocked` | a mutation runs only over acknowledged ambiguity | `CallTree` |
| `CompletionReplayed` | a recorded completion is never run again | `CallTree` |
| `NothingUnaccounted` | between turns a mutation that ran ungated has an outcome on record or dangles | `CallTree` |
| `AutoResumesClean` | the boot pass starts a turn only where nothing mutating dangles | `CallTree` |
| `RestartLoopBroken` | at most `MaxAttempts` boot turns per window before one succeeds | `MaxAttempts` is positive |
| `WriteGate` | | |
| `RecordsAreTrue` | the record says "authorized" exactly of what ran, and what ran passed the deny policy and left its prior state | `None` is no call id |
| `GrantsBindOneCall` | a grant is good for one call, on the state approved, and never once found stale | same |
| `Composition` | | |
| `AuthorityBounded` | mast's own tools are fenced, readers read, a write is answered for | none |
| `SchedulingProofs` | | |
| `TicksRunOnce` | a tick runs in two processes only in a split; a plan follows the last tick accounted for | `CadenceAssumption`, `NoneAssumption` |
| `GivesUpToALiveRival` | a booting process gives up only to one that wrote the row after it began to ask | same |
| `MonitoringIsHonest` | a quiet cycle found nothing, an open timeline's message says what mast believes, nothing is suppressed unrecorded | `MaxFound` is a natural number |
| `RegistryProofs` | | |
| `RegistryKeepsItsOwn` | every running wake loop is reachable, a live stream is ended by its own DELETE or by the server only, a closed pool reads nothing | `Serving` |
| `DaemonProofs` | | |
| `FeedRefinement` | `Broadcaster` implements `EventFeed` | bounds are natural numbers |
| `WiredAndQuiet` | an attached audience is wired to the agent; after Close no goroutine reads the log | same |
| `WorkIsInFlight` | an A2A task says "working" only while a message of it is in flight | `None` is no task state |
| `CanceledStays` | after an answered tasks/cancel every answer that names a state says "canceled" | same |
| `SlotsAndFrames` | an AG-UI queue counts the runs that hold a slot; a client sees a status or an ordered stream | `Posted` |
| `SuccessEarned` | a client is told of a success only if its turn earned it | same |
| `CancelsOpenTasks` | a remote task known to be open is cancelled before the call gives up | none |

The assumptions on constants say that the names of actors differ, that calls and
turns have one of the kinds the code knows, that the cadence is positive, jitter
at most one interval and the lease's staleness at most its retry window
(`schedlease.go:111`, the bundle's validation of a trigger). They are evaluated in the
runs. Components that a run instantiates state theirs as hypotheses instead, and the
values of the runs meet them: `Serving` (the owner is a caller, amendments are
access lists), `Posted` (finitely many runs, a numeric depth), `CallTree` (what a
composed root makes of its calls: a sub-run belongs to a spawning call, its calls
mutate and do not park, and it dispatches nothing). The other hypotheses are needed,
and each has its reason in the code:

- *no boot-resumed turns*: `boot_clear` is the counterexample;
- *inject turns only*: the HTTP server waits for inject handlers, so none is in
  flight when the drain finds the count at zero. An attach turn leaves the count
  before it clears (`shutdown.go:257`), and the process may exit 0 in between;
- *no empty abort reason*: `Abort` with an empty reason writes a marker that reads
  as none (`transcript.go:448`).

**Drain.** `IInv`: the slot names the turn in its bracket, the in-flight count is
that bracket, `writeMu` names whoever is between a decision and its bookkeeping.
`DiskInv` ties marks to disk. Neither says what a drain owes, so `DrainInv` adds:
a turn in its bracket is marked, or the drain goroutine or the turn itself is on
the way to marking it (`PremarkInv`); a mark is written only for a session whose
turn has yet to look (`HeldInv`), so a marker this process wrote is owed a clear by
the turn in the slot and that turn will find it recorded (`OwedInv`); a known
session is paused before its mark is recorded (`PauseInv`). `StillInv` gives exit 0.

**Session operations.** An abort reaches a turn only because the turn that holds
the slot is the registered one (`HoldingInv`), and later turns are refused only
because a written marker is visible (`MarkedInv`). A pause needs more, since calls
write back what they read long before. `CallInv` says what a call in flight may
rely on: the record it will write carries the token it holds, a gate token it saw
is the current one or was replaced, an interrupt it is about to consume is
settled. With it a stale write can only bring back a gate record that was replaced
before (`GateInv`) and consume only what was answered (`ParkInv`); a hard pause
that has swept leaves no turn untold while its record stands (`HushedInv`). Without
`replaced` the hard-pause property is false: with two pauses, an extension that
read the first record revives it after the second pause was resumed, and the first
pause has by then been overruled. The property says so.

**Effect outbox.** The properties speak of the step at which a call runs; why it
may was settled when its turn began. So the invariant says what the snapshot of the
turn's start is still worth: a call runs only in a turn that found nothing dangling
(`TurnInv`); what the watermark covers, and what dangled when such a turn began, an
operator has seen (`AckInv`); a root call that ran is in the log and a sub-run's is
on the ops row until its response was observed (`RanInv`). The boot pass decides on
a log it read before: while the event count is the one it read, the log is the one
it read (`ScanInv`). The breaker needs the attempt counted before its turn
(`WindowInv`).

**Write gate.** A verdict decides what parked before, so `RecordInv` says what a
parked call has passed. `GrantInv`: mints are numbered; the grant a call ran under
names that call as its spender, and what was found stale is void, while it is the
grant on record. `stale` names a grant by call and mint. One verdict mints the whole
change set under one number, so the number alone would not tell two grants apart.

**Composition.** `AuthorityHolds` is about a root that serves, and nothing in such a
state says why it was let through. The invariant carries every check the start
passed to that state (`CheckedInv`, `ReadsInv`, `WiredInv`), and that a call waits
only where an operator is asked (`ParkedInv`). What makes the checks last although
servers go on annotating is `ClassStands`: a server's word decides only what neither
the workload nor mast's own table has classified. The two exceptions in the
properties are the code's (see below).

**Scheduling.** A process that is no party to a split and drives holds the row
(`LeaseInv`), so between two such processes one has stopped; records and plans lie
on the cadence and behind the clock (`GridInv`); what the others ran lies behind
the tick a process waits for (`RanInv`). A split is a process that was robbed of its
lease alive, or drove without one because the store failed at boot.

**Monitoring cycle.** What reaches `Parse` is what the collectors answered, cut
anywhere or with a record spoiled; a lemma on sequences says that such an answer
never parses as an empty one. `CycleInv` adds that an acknowledgement past its
record is in the trace and that an open timeline's message exists.

**Registry.** The registered entry is the newest agent built and nobody carries a
newer one (`NewestInv`), one resume is in flight and none before there is a row
(`FlightInv`), an agent built and not yet registered is known to its builder alone
(`UnregisteredInv`), and what the sweep has still to hang up is not what is
registered (`EvictInv`). Together they exclude that a late step ends somebody
else's stream or drops the only handle on a wake loop.

**Broadcaster.** Cursors and query results never pass the end of the log
(`RowsInv`), an attached subscriber means a pump's cancel is held (`WiredInv`), an
unregistered one has no goroutine (`FreshInv`), Close precedes its wait
(`CloseInv`). Under these each step is a step of `EventFeed` or a stutter. The
mapping reads `stream` and `cursor` off the subscriber's state and `lastSent`.
`EventFeed` promises order and no repetition, not completeness: `replay_gap` is why.

**A2A tasks, AG-UI thread, remote call.** `TaskInv`: a marker of work belongs to a
message that will settle it, what a cancel reports on is aborted, and a process
that answered "canceled" keeps that state. `ThreadInv`: what a run has sent follows
from where it is, and the queue counts the runs between taking and giving back a
slot (a cardinality, hence finitely many runs). `ClientInv`: nothing is returned
before the end, and no task is known before the reply.

### Only model-checked

- Liveness: `TimedPauseEnds`, `BootDrainEnds`, `LeavesWhenTold`, the liveness half
  of `NobodyStranded`, and `RobbedStops` of `LeaseSettles`. They rest on fairness,
  which is beyond the prover.
- In `surfaces`, everything but `AuthorityHolds`. Parts of it compute over sequences
  (`ToolLoops`, `Instructions`, `Outcome`, `Digest`), where a proof would need
  induction over data; the rest is safety of smaller components that could be proved
  along the lines above and is not.
- What ties components together: a theorem is about one component, as is every run.

## Seen while modelling

Read off the code; no run is kept for these. Four of them are stated as properties
the code does not keep: `NotAskedTwice` (`WriteGate`), `ReplyIsOwnOutcome`
(`A2ATasks`), `ResumeAnswersOpen` (`AGUI`), `FailureAnnouncedOnce` (`Monitor`).

- *Composition.* Two servers that disagree on a tool are said to resolve "toward
  mutating" (`annotations.go:128`); they do until the server recorded last lists
  again, and its word alone then counts (`annotations.go:151`).
  `CheckMonitorCollectSurface` (`monitor.go:115`) and `checkBranchTools`
  (`fanout.go:391`) look at the catalog's servers only, unlike
  `CheckCapabilitySplit` (`capability.go:85`): where all toolsets are the binary's
  own, a change executor that lists none holds all of them, mast's own tools
  included. A rejected call whose tool was annotated read-only meanwhile runs when
  dispatched again.
- *Sessions.* An abort with an empty reason succeeds and aborts nothing
  (`transcript.go:448`). An extension may revive a token consumed meanwhile
  (`pause.go:454`), and a gate record another pause replaced. Two concurrent gate
  pauses each return a token and one resolves (`pause.go:216`). An old timer entry
  resumes a pause whose time was cleared (`pausesched.go:287`).
- *Drain.* A late turn on a fresh session is marked and not paused
  (`shutdown.go:300`). A failing inject listener returns without a drain, and the
  database is never closed.
- *Scheduling.* A steal that finds the row released meanwhile counts as lost to a
  rival (`lock.go:255`), and after a process's last attempt it stays passive.
- *Budget and watchdog.* Grants are replayed twice when no earlier spend exists; the
  loser of a restore race goes on before grants are replayed; a reset row can be
  lost (`watchdogpool.go:326`); the final report's use is not durable.
- *Write gate.* Grants are committed before the permit is taken, and approving
  again mints them again. A run that ends forgets what was refused in it, although a
  verdict on another of its parks goes on with the same invocation, where
  `suppress.go` calls forgetting hygiene.
- *A2A, AG-UI.* A completed message may be answered "working", when another one was
  accepted between the write and the reply. A resume is checked before its turn has
  the session's slot.
- *Monitor.* A collection that succeeds clears the failure flag, so a cycle whose
  turn then fails is announced again.
- *Attach.* The registry may act on an access list read before a concurrent change;
  resuming an already registered session leaks its wake loop. The prompt broker,
  which nothing wires, may acknowledge an answer that a timeout has overtaken
  (`prompter.go:212`).
- *Peers.* A cancelled registration deregisters only its first id.
- *Agents.* A loop of failing identical calls carries no note and yet counts as
  gone on "after being told". A second incident on one session skips its specialist.
  Fan-out's stash is overwritten by a second activation.
- *Files.* Two daemons share one digest directory; one oversized payload evicts all
  others; JSON the pruner cannot reduce is passed on whole (`digest.go:276`), where
  `digest_wrap.go:64` speaks of a bounded passthrough.
- *Permissions.* Answers "session" and "tool" to a prompt about a path outside the
  scope are stored and never consulted; the scope's list is extended without a lock.

The daemon wires neither an access-list store nor multi-session authentication, and
of the permission gate it uses two entry points; the rest of that package is
modelled as a library.

## Not modelled

Wire formats, rendering, logging, metrics; agent construction and scripted models;
model tiers, vendors and profiles; MCP protocol traffic; read-only projections
and listings; the command-line client; the evaluation harnesses other than
`outcome`; examples and development tools. Within modelled parts: marker reads that
fail open; auto-resume's freshness window, per-boot cap and sub-agent-authored tail
(each only skips); parallel calls within one event; the registry's listings,
`Unregister` and `TouchEntry`. `components` gives the reason for each.
