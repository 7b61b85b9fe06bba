------------------------------ MODULE MCLiveness ------------------------------
(***************************************************************************)
(* For TLC, the components whose promises include "eventually": two        *)
(* scheduling processes (Scheduling, on its own variables), a daemon with  *)
(* a boot pass that is told to stop, the process around it, a broadcaster. *)
(* A behaviour is one of one component, which `focus` names and never      *)
(* changes; all components but Scheduling take turns at x1 .. x20, so      *)
(* their state spaces add up and do not multiply.                          *)
(***************************************************************************)
EXTENDS Scheduling, TLC

CONSTANTS s1, i1, b1, drainer, nobody, Subs

VARIABLES focus, x1, x2, x3, x4, x5, x6, x7, x8, x9, x10,
          x11, x12, x13, x14, x15, x16, x17, x18, x19, x20

\* The boot pass revives a session that a request also asks for.
Pass == INSTANCE TurnTracker WITH
  Sessions <- {s1}, Turns <- {b1, i1}, SessionOf <- b1 :> s1 @@ i1 :> s1,
  Kind <- b1 :> "boot" @@ i1 :> "inject", Known <- {s1}, Leftover <- {s1},
  Drainer <- drainer, Nobody <- nobody,
  phase <- x1, deadline <- x2, draining <- x3, frozen <- x4, cancelled <- x5,
  pauseOnDrain <- x6, toMark <- x7, cur <- x8, active <- x9, marked <- x10,
  writeMu <- x11, mk <- x12, pc <- x13, ok <- x14, lock <- x15, candidates <- x16,
  marker <- x17, gate <- x18, row <- x19, failed <- x20

\* A daemon with an attach surface, a durable store and a boot pass.
Run == INSTANCE Serve WITH
  Configs <- {[surfaces |-> {"attach"}, db |-> TRUE, auto |-> TRUE, trigger |-> FALSE]},
  cfg <- x1, at <- x2, stack <- x3, open <- x4, work <- x5, stopped <- x6, drain <- x7,
  deadline <- x8, turn <- x9, marked <- x10, armed <- x11, wedged <- x12, code <- x13

Cast == INSTANCE Broadcaster WITH
  MaxReplay <- 1, Pumps <- 2, MaxSeq <- 2,
  head <- x1, shut <- x2, cancel <- x3, pumpGen <- x4, pump <- x5, replay <- x6,
  st <- x7, since <- x8, lastSent <- x9, got <- x10, emitter <- x11, closer <- x12

\* What the smaller components leave alone.
afterRun == <<x14, x15, x16, x17, x18, x19, x20>>
afterCast == <<x13, afterRun>>
pool == <<x1, x2, x3, x4, x5, x6, x7, x8, x9, x10, x11, x12, afterCast>>
all == <<focus, vars, pool>>

ZeroRun == x14 = 0 /\ x15 = 0 /\ x16 = 0 /\ x17 = 0 /\ x18 = 0 /\ x19 = 0 /\ x20 = 0
ZeroCast == x13 = 0 /\ ZeroRun
MCInit ==
  /\ Init
  /\ \/ /\ focus = "sched" /\ ZeroCast
        /\ x1 = 0 /\ x2 = 0 /\ x3 = 0 /\ x4 = 0 /\ x5 = 0 /\ x6 = 0
        /\ x7 = 0 /\ x8 = 0 /\ x9 = 0 /\ x10 = 0 /\ x11 = 0 /\ x12 = 0
     \/ focus = "boot" /\ Pass!Init
     \/ focus = "serve" /\ Run!Init /\ ZeroRun
     \/ focus = "feed" /\ Cast!Init /\ ZeroCast

In(component, frame) == focus = component /\ UNCHANGED <<focus, frame>>
Schedules == In("sched", pool)
Passes == In("boot", vars)
Serves == In("serve", <<vars, afterRun>>)
Feeds == In("feed", <<vars, afterCast>>)
MCNext ==
  \/ Schedules /\ Next
  \/ Passes /\ Pass!Next
  \/ Serves /\ Run!Next
  \/ Feeds /\ Cast!Next

\* The fairness each component's own specification assumes.
MCFairness ==
  /\ WF_all(Passes /\ Pass!Deadline) /\ WF_all(Passes /\ Pass!DrainStep)
  /\ WF_all(Passes /\ Pass!Mark(drainer))
  /\ \A t \in {b1, i1} : WF_all(Passes /\ Pass!Cleanup(t))
  /\ WF_all(Serves /\ Run!Main) /\ WF_all(Serves /\ Run!ShutdownStep)
  /\ WF_all(Serves /\ Run!Deadline) /\ WF_all(Serves /\ Run!armTeardownWatchdog)
  /\ \A g \in 1..2 : WF_all(Feeds /\ Cast!PumpStep(g))
  /\ \A s \in Subs : WF_all(Feeds /\ Cast!ReplayStep(s))
  /\ \A p \in Procs : WF_all(Schedules /\ Beat(p))
MCSpec == MCInit /\ [][MCNext]_all /\ MCFairness

-----------------------------------------------------------------------------
\* With a boot-resumed turn and a request on the same session, neither of which
\* has to finish, every drain still ends.
BootDrainEnds == []<>(focus = "boot" => Pass!NoDrain)

\* A daemon told to stop, or whose surface died, stops serving whatever its turns
\* do, and once it has drained the process ends, even when a teardown step hangs.
LeavesWhenTold == []<>(focus = "serve" => ~Run!Lingers)

\* Whatever pump and replay race to send, a subscriber's channel carries entries
\* past its cursor, in order, once each, and nothing after it was closed: every
\* step of Broadcaster is a step of EventFeed or changes nothing there.
ImplementsFeed ==
  (focus = "feed" => Cast!FeedInit) /\ [][focus = "feed" => Cast!FeedStep]_all

\* A subscriber gets what was logged past its cursor or is hung up: a pump that
\* dies, even late, strands nobody.  With somebody attached the agent holds the
\* emitter, and once Close has returned no goroutine reads the event log.
NobodyStranded ==
  /\ [](focus = "feed" => Cast!AudienceIsWired /\ Cast!QuietAfterClose)
  /\ []<>(focus = "feed" => Cast!NobodyWaits)

\* A booting process gives up only against one that wrote the row after it
\* started asking, and a process robbed of its lease stops driving scheduled work.
LeaseSettles == PassiveMeansLiveRival /\ RobbedStops

\* survivors() and the drain-expiry warning are as honest when a boot pass and a
\* request share a session: what counts as marked carries its marker on disk.
BootSurvivorsMarked == focus = "boot" => Pass!SurvivorsMarkedOnDisk
=============================================================================
