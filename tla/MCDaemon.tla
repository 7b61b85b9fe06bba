------------------------------- MODULE MCDaemon ------------------------------
(***************************************************************************)
(* What stands around a turn, for TLC: the tracker of a request-driven     *)
(* daemon (TurnTracker, on its own variables), the write gate inside a     *)
(* turn, the registry of attached sessions, the monitor a scheduled turn   *)
(* reports to, AG-UI runs on one thread and A2A calls on one task.  A      *)
(* behaviour is one of one component, which `focus` names and never        *)
(* changes; all components but the tracker take turns at x1 .. x18, so     *)
(* their state spaces add up and do not multiply.                          *)
(***************************************************************************)
EXTENDS TurnTracker, TLC

CONSTANTS s1, s2, i1, i2, a1, c1, c2, c3, Ids, p1, w1, own, gst, o1, None

VARIABLES focus, x1, x2, x3, x4, x5, x6, x7, x8, x9, x10, x11, x12, x13,
          x14, x15, x16, x17, x18

\* Two requests queue on one session while a third runs on another.
InjectTurns == {i1, i2, a1}
InjectSessionOf == i1 :> s1 @@ i2 :> s1 @@ a1 :> s2
InjectKind == i1 :> "inject" @@ i2 :> "inject" @@ a1 :> "inject"

\* Three calls, the third one denied by policy; the first two are a change set.
Writes == INSTANCE WriteGate WITH
  Calls <- {c1, c2, c3}, Short <- c1 :> "k1" @@ c2 :> "k2" @@ c3 :> "k3", Denied <- {"k3"},
  ChangeSet <- {c1, c2}, Captured <- {c2},
  Policies <- {"require_approval", "apply", "dry_run"}, MaxTurns <- 1, MaxRestarts <- 1,
  policy <- x1, turn <- x2, turns <- x3, memory <- x4, recorded <- x5, grant <- x6,
  world <- x7, fc <- x8, said <- x9, asked <- x10, stale <- x11, mints <- x12, restarts <- x13

Reg == INSTANCE SessionRegistry WITH
  Requests <- {i1, i2}, Callers <- {own, gst}, Owner <- own, Admins <- {},
  Amendments <- {[owner |-> own, viewers |-> {gst}, contributors |-> {}]},
  MaxBuilt <- 2, MaxFeeds <- 2,
  entry <- x1, acl <- x2, row <- x3, built <- x4, running <- x5, flight <- x6, fed <- x7,
  feeds <- x8, feed <- x9, poolUp <- x10, rq <- x11, sweeper <- x12, shutter <- x13

Mon == INSTANCE Monitor WITH
  MaxCycles <- 3, MaxFound <- 2, DigestAfter <- 2, Ackers <- {o1},
  cyc <- x1, at <- x2, found <- x3, calm <- x4, classifies <- x5, edits <- x6, ref <- x7,
  text <- x8, spokeAt <- x9, failing <- x10, body <- x11, forgot <- x12, gone <- x13,
  told <- x14, again <- x15, ack <- x16, trace <- x17, suppressed <- x18

Agui == INSTANCE AGUI WITH
  Runs <- {i1, i2, a1}, Depth <- 1, Interrupts <- {p1}, Authors <- {w1},
  queued <- x1, turn <- x2, refusing <- x3, thread <- x4, run <- x5

Tasks == INSTANCE A2ATasks WITH
  Calls <- {i1, i2, a1}, MaxBoots <- 2,
  task <- x1, session <- x2, holder <- x3, closing <- x4, boots <- x5, call <- x6, canceled <- x7

\* What the smaller components leave alone.
to5 == <<x1, x2, x3, x4, x5>>
to13 == <<x8, x9, x10, x11, x12, x13>>
to18 == <<x14, x15, x16, x17, x18>>
after7 == <<to13, to18>>
pool == <<to5, x6, x7, after7>>
all == <<focus, vars, pool>>

Zero5 == x1 = 0 /\ x2 = 0 /\ x3 = 0 /\ x4 = 0 /\ x5 = 0
Zero7 == x6 = 0 /\ x7 = 0
Zero13 == x8 = 0 /\ x9 = 0 /\ x10 = 0 /\ x11 = 0 /\ x12 = 0 /\ x13 = 0
Zero18 == x14 = 0 /\ x15 = 0 /\ x16 = 0 /\ x17 = 0 /\ x18 = 0

MCInit ==
  /\ Init
  /\ \/ focus = "turns" /\ Zero5 /\ Zero7 /\ Zero13 /\ Zero18
     \/ focus = "write" /\ Writes!Init /\ Zero18
     \/ focus = "registry" /\ Reg!Init /\ Zero18
     \/ focus = "monitor" /\ Mon!Init
     \/ focus = "agui" /\ Agui!Init /\ Zero7 /\ Zero13 /\ Zero18
     \/ focus = "task" /\ Tasks!Init /\ Zero13 /\ Zero18

In(component, frame) == focus = component /\ UNCHANGED <<focus, frame>>
MCNext ==
  \/ In("turns", pool) /\ Next
  \/ In("write", <<vars, to18>>) /\ Writes!Next
  \/ In("registry", <<vars, to18>>) /\ Reg!Next
  \/ In("monitor", vars) /\ Mon!Next
  \/ In("agui", <<vars, x6, x7, after7>>) /\ Agui!Next
  \/ In("task", <<vars, after7>>) /\ Tasks!Next
MCSpec == MCInit /\ [][MCNext]_all

\* The two requests for one session are alike, and so are two runs of a thread
\* and two calls of a task.
Alike == Permutations({i1, i2})

-----------------------------------------------------------------------------
\* A change-set grant authorizes one call of the exact arguments approved, on a
\* precondition that still reads as it did; and what ran is what the decision
\* record says ran, policy and capture included (the write gate).
WritesAreGranted ==
  /\ [](focus = "write" => Writes!RecordMatchesEffect)
  /\ [][focus = "write" => Writes!GrantSpentOnce]_all

\* No path of create, resume, evict or delete leaves an agent nobody can reach or
\* ends another entry's live stream, and once the server has closed its pool no
\* broadcaster reads the event log (the session registry).
RegistryHolds == focus = "registry" => Reg!AgentsAccounted /\ Reg!LiveStreamKept /\ Reg!PoolQuiesces

\* An open timeline's message says what mast believes it says; a cycle stays quiet
\* only when the producer really found nothing; and nothing is suppressed without a
\* durable record of who asked (the monitoring cycle).
MonitorIsHonest ==
  focus = "monitor" => Mon!TimelineIntact /\ Mon!QuietOnlyWhenCalm /\ Mon!SuppressionAttributed

\* A client is told of a success only when its turn ran to the end and did not park;
\* it sees a status or an ordered stream, never a truncated one; and a thread's
\* queue counts exactly the runs that hold a slot of it (AG-UI).
RunsEndInOrder ==
  /\ [](focus = "agui" => Agui!SlotsAccounted /\ Agui!OrderedEnd)
  /\ [][focus = "agui" => Agui!EarnsSuccess]_all

\* After a tasks/cancel was answered every answer of the process says "canceled",
\* and "working" is said only while a message of the task is in flight (A2A).
CancelWins ==
  /\ [](focus = "task" => Tasks!NoPhantomWork)
  /\ [][focus = "task" => Tasks!SaysCanceled]_all
==============================================================================
