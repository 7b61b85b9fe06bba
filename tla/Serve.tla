------------------------------- MODULE Serve -------------------------------
(***************************************************************************)
(* One life of the daemon process (internal/cli/serve.go): the eleven      *)
(* phases that build it, the teardown steps they register, the surfaces    *)
(* that serve, the shutdown goroutine that drains and the unwinding that   *)
(* ends in an exit code.                                                   *)
(*                                                                         *)
(* A phase opens resources one after another and registers each one's      *)
(* close right behind it, or returns an error after some of them; why it   *)
(* refused is left out.  Turns are one per source (a surface or a          *)
(* background loop): launched, then begun in the tracker, then over.  How  *)
(* the tracker writes its markers is TurnTracker's subject; here a marker  *)
(* lands when the store is open.                                           *)
(***************************************************************************)
EXTENDS Integers, Sequences

CONSTANTS
  Configs,  \* [surfaces, db, auto, trigger]: what the flags and bundle ask for
  None

VARIABLES
  cfg,
  at,        \* the phase to run next, "serving", "unwinding" or "gone"
  stack,     \* daemon.teardown
  open,      \* what has been opened and not closed
  work,      \* goroutines and listeners that may launch turns
  stopped,   \* the signal context is done
  drain,     \* where the shutdown goroutine is
  deadline,  \* its context has expired
  turn,      \* per source: "none", "accepted" or "begun"
  marked,    \* sources whose session carries the interruption marker on disk
  armed,     \* the teardown watchdog is armed
  wedged,    \* a teardown step does not return
  code       \* what serve() returned, or what the watchdog exits with

vars == <<cfg, at, stack, open, work, stopped, drain, deadline, turn, marked,
          armed, wedged, code>>
boot == <<cfg, at, stack, open>>
shutdown == <<stopped, drain, deadline>>
ending == <<armed, wedged, code>>

Surfaces == {"attach", "a2a", "agui"}
Loops == {"timers", "resume", "trigger"}
Sources == Surfaces \cup Loops \cup {"inject"}
DrainSteps == {"off", "parked", "handlers", "boot", "trigger", "wait",
               "cancelled", "clean", "expired"}
Draining == drain \notin {"off", "parked"}
Frozen == drain \in {"cancelled", "expired"}
exitOK == 0
exitFailure == 1
exitDrainExpired == 3
teardownHangExitCode == 4

phases == <<"checkIngress", "startLifetimes", "buildModel", "openSessions",
            "buildRoot", "buildGovernance", "buildMetering",
            "buildOperatorSurfaces", "buildRequestHandlers", "startScheduling",
            "buildInjectServer">>
Places == {phases[i] : i \in DOMAIN phases} \cup {"serving", "unwinding", "gone"}
After(p) == LET i == CHOOSE n \in DOMAIN phases : phases[n] = p
            IN  IF i = Len(phases) THEN "serving" ELSE phases[i + 1]

TypeOK ==
  /\ cfg \in Configs /\ at \in Places
  /\ \A i \in DOMAIN stack : stack[i] \in open
  /\ work \subseteq Sources /\ drain \in DrainSteps
  /\ turn \in [Sources -> {"none", "accepted", "begun"}]
  /\ marked \subseteq Sources
  /\ code \in {None, exitOK, exitFailure, exitDrainExpired, teardownHangExitCode}

Init ==
  /\ cfg \in Configs
  /\ at = phases[1] /\ stack = <<>> /\ open = {} /\ work = {}
  /\ stopped = FALSE /\ drain = "off" /\ deadline = FALSE
  /\ turn = [s \in Sources |-> "none"] /\ marked = {}
  /\ armed = FALSE /\ wedged = FALSE /\ code = None

-----------------------------------------------------------------------------
\* Building the daemon.

\* onTeardown, right behind each open.
onTeardown(rs) == stack' = stack \o rs

\* Phase p opens opens, in order, and starts starts; or it refuses once it has
\* opened k of them, k in refuses.  serve() then returns the error and unwinds.
Phase(p, opens, starts, refuses) ==
  /\ at = p
  /\ \/ /\ onTeardown(opens)
        /\ open' = open \cup {opens[i] : i \in DOMAIN opens}
        /\ work' = work \cup starts
        /\ at' = After(p)
        /\ UNCHANGED code
     \/ \E k \in refuses :
          /\ onTeardown(SubSeq(opens, 1, k))
          /\ open' = open \cup {opens[i] : i \in 1..k}
          /\ work' = IF k = Len(opens) THEN work \cup (starts \ {"trigger"}) ELSE work
          /\ at' = "unwinding" /\ code' = exitFailure
  /\ UNCHANGED <<cfg, shutdown, turn, marked, armed, wedged>>

\* The bind policy, the users table and the chat ingress are each refusals.
checkIngress == Phase("checkIngress", <<>>, {}, {0})

\* Only the exporter can fail, with both contexts already registered.
startLifetimes == Phase("startLifetimes", <<"ctx", "turnCtx", "otel">>, {}, {2})

\* A workload that does not load, a ceiling nobody can price, no model.
buildModel == Phase("buildModel", <<>>, {}, {0})

\* Only the event log an attach surface needs is closed by the teardown.
openSessions ==
  Phase("openSessions", IF "attach" \in cfg.surfaces THEN <<"db">> ELSE <<>>, {}, {0})

\* The root agent, and notices that have no ingress to go to.
buildRoot == Phase("buildRoot", <<>>, {}, {0})

\* A name collision, the outbox, the posture, the gate, the guard, the runner.
buildGovernance == Phase("buildGovernance", <<>>, {}, {0})

\* The durable stores and the park announcements.
buildMetering == Phase("buildMetering", <<>>, {}, {0})

\* Each listener asked for is bound here and served later.
buildOperatorSurfaces ==
  LET asked == SelectSeq(<<"attach", "a2a", "agui">>, LAMBDA s : s \in cfg.surfaces)
  IN  Phase("buildOperatorSurfaces", asked, {}, 0..(Len(asked) - 1))

buildRequestHandlers == Phase("buildRequestHandlers", <<>>, {}, {})

\* The lease never refuses; it says whether this process drives the scheduled
\* work.  The loops start before the notifier may still refuse the boot.
startScheduling ==
  \E drives \in BOOLEAN :
    LET resuming == IF cfg.auto /\ cfg.db THEN {"resume"} ELSE {}
        firing == IF cfg.trigger THEN {"trigger"} ELSE {}
    IN  Phase("startScheduling", <<"lease", "schedCtx">>,
              IF drives THEN {"timers"} \cup resuming \cup firing ELSE {},
              IF drives /\ cfg.trigger THEN {2} ELSE {})

buildInjectServer == Phase("buildInjectServer", <<>>, {}, {0})

Build ==
  \/ checkIngress \/ startLifetimes \/ buildModel \/ openSessions \/ buildRoot
  \/ buildGovernance \/ buildMetering \/ buildOperatorSurfaces
  \/ buildRequestHandlers \/ startScheduling \/ buildInjectServer

-----------------------------------------------------------------------------
\* Serving.

\* The shutdown goroutine parks and every bound surface starts to serve.
serveUntilShutdown ==
  /\ at = "serving" /\ drain = "off"
  /\ drain' = "parked"
  /\ work' = work \cup cfg.surfaces \cup {"inject"}
  /\ UNCHANGED <<boot, stopped, deadline, turn, marked, ending>>

\* SIGTERM or the stop handler.
Stop ==
  /\ "ctx" \in open /\ ~stopped /\ at # "gone"
  /\ stopped' = TRUE
  /\ UNCHANGED <<boot, work, drain, deadline, turn, marked, ending>>

\* Serve returns a hard failure: the daemon is told to stop.
SurfaceDies(s) ==
  /\ at = "serving" /\ s \in Surfaces \cap work
  /\ work' = work \ {s}
  /\ stopped' = TRUE
  /\ UNCHANGED <<boot, drain, deadline, turn, marked, ending>>

\* ListenAndServe fails: serve() returns without waiting for a drain.
InjectDies ==
  /\ at = "serving" /\ drain = "parked"
  /\ at' = "unwinding" /\ code' = exitFailure
  /\ work' = work \ {"inject"}
  /\ UNCHANGED <<cfg, stack, open, shutdown, turn, marked, armed, wedged>>

\* Whether a store is there to read a session from and to mark it in.
Storable == cfg.db /\ ("attach" \in cfg.surfaces => "db" \in open)

\* Every launcher asks isDraining first.
Accept(s) ==
  /\ at # "gone" /\ s \in work /\ ~Draining /\ turn[s] = "none"
  /\ turn' = [turn EXCEPT ![s] = "accepted"]
  /\ UNCHANGED <<boot, work, shutdown, marked, ending>>

\* tracker.begin, behind the turn lock and the admission reads: a turn that
\* finds the daemon draining marks its own session.  Without its store the
\* turn goes no further.
Begin(s) ==
  /\ at # "gone" /\ turn[s] = "accepted"
  /\ LET runs == cfg.db => Storable
     IN  /\ turn' = [turn EXCEPT ![s] = IF runs THEN "begun" ELSE "none"]
         /\ marked' = IF Draining /\ ~Frozen /\ Storable THEN marked \cup {s} ELSE marked
  /\ UNCHANGED <<boot, work, shutdown, ending>>

\* tracker.end: a turn that finishes while draining takes its marker back.
End(s) ==
  /\ at # "gone" /\ turn[s] = "begun"
  /\ turn' = [turn EXCEPT ![s] = "none"]
  /\ marked' = IF Draining /\ ~Frozen /\ Storable THEN marked \ {s} ELSE marked
  /\ UNCHANGED <<boot, work, shutdown, ending>>

\* The auto-resume pass is over, or stops at a drain; the other loops end with
\* their context, the trigger also when it is told to.
LoopEnds(l) ==
  /\ at # "gone" /\ l \in work \cap Loops /\ turn[l] = "none"
  /\ l # "resume" => \/ "schedCtx" \notin open
                     \/ l = "trigger" /\ drain \in {"trigger", "wait", "cancelled"}
  /\ work' = work \ {l}
  /\ UNCHANGED <<boot, shutdown, turn, marked, ending>>

-----------------------------------------------------------------------------
\* The shutdown goroutine.

\* srv.Shutdown closes the inject listener while beginDrain marks every turn.
BeginDrain ==
  /\ at = "serving" /\ drain = "parked" /\ stopped
  /\ drain' = "handlers"
  /\ work' = work \ {"inject"}
  /\ marked' = IF Storable THEN marked \cup {s \in Sources : turn[s] = "begun"} ELSE marked
  /\ UNCHANGED <<boot, stopped, deadline, turn, ending>>

Deadline ==
  /\ at = "serving" /\ Draining /\ ~deadline
  /\ deadline' = TRUE
  /\ UNCHANGED <<boot, work, stopped, drain, turn, marked, ending>>

\* The waits before the sample, each under the one deadline.
DrainWaits ==
  /\ at = "serving"
  /\ \/ /\ drain = "handlers" /\ (deadline \/ turn["inject"] = "none")
        /\ drain' = "boot"
     \/ /\ drain = "boot" /\ (deadline \/ "resume" \notin work)
        /\ drain' = "trigger"
     \/ /\ drain = "trigger" /\ (deadline \/ "trigger" \notin work)
        /\ drain' = "wait"
  /\ UNCHANGED <<boot, work, stopped, deadline, turn, marked, ending>>

Idle == \A s \in Sources : turn[s] # "begun"

\* tracker.wait: nothing in flight, or the window is over.  Survivors are
\* frozen, cancelled and given a moment to unwind.
Wait ==
  /\ at = "serving"
  /\ \/ drain = "wait" /\ Idle /\ drain' = "clean"
     \/ drain = "wait" /\ ~Idle /\ deadline /\ drain' = "cancelled"
     \/ drain = "cancelled" /\ drain' = "expired"
  /\ UNCHANGED <<boot, work, stopped, deadline, turn, marked, ending>>

\* Mutant: the watchdog is armed for an expired drain only.
ShutdownDoneUnwatched ==
  /\ at = "serving" /\ drain \in {"clean", "expired"}
  /\ armed' = (drain = "expired")
  /\ code' = IF drain = "expired" THEN exitDrainExpired ELSE exitOK
  /\ at' = "unwinding"
  /\ UNCHANGED <<cfg, stack, open, work, shutdown, turn, marked, wedged>>

\* shutdownDone: the poller stops, the watchdog is armed, serve() returns.
ShutdownDone ==
  /\ at = "serving" /\ drain \in {"clean", "expired"}
  /\ armed' = TRUE
  /\ code' = IF drain = "expired" THEN exitDrainExpired ELSE exitOK
  /\ at' = "unwinding"
  /\ UNCHANGED <<cfg, stack, open, work, shutdown, turn, marked, wedged>>

-----------------------------------------------------------------------------
\* runTeardown.

\* Mutant: the steps run in the order they were registered.
unwindFirst ==
  /\ at = "unwinding" /\ stack # <<>> /\ ~wedged
  /\ open' = open \ {stack[1]}
  /\ work' = work \ {stack[1]}
  /\ stack' = Tail(stack)
  /\ UNCHANGED <<cfg, at, shutdown, turn, marked, ending>>

\* The step registered last runs; a panic in it does not skip the others.
unwind ==
  /\ at = "unwinding" /\ stack # <<>> /\ ~wedged
  /\ open' = open \ {stack[Len(stack)]}
  /\ work' = work \ {stack[Len(stack)]}
  /\ stack' = SubSeq(stack, 1, Len(stack) - 1)
  /\ UNCHANGED <<cfg, at, shutdown, turn, marked, ending>>

\* A Close that never returns.
Wedge ==
  /\ at = "unwinding" /\ stack # <<>> /\ ~wedged
  /\ wedged' = TRUE
  /\ UNCHANGED <<boot, work, shutdown, turn, marked, armed, code>>

\* The watchdog dumps the stacks and exits.
armTeardownWatchdog ==
  /\ at = "unwinding" /\ armed /\ wedged
  /\ code' = teardownHangExitCode /\ at' = "gone"
  /\ UNCHANGED <<cfg, stack, open, work, shutdown, turn, marked, armed, wedged>>

\* Every step has returned: the watchdog is disarmed and the process exits.
Exit ==
  /\ at = "unwinding" /\ stack = <<>>
  /\ armed' = FALSE /\ at' = "gone"
  /\ UNCHANGED <<cfg, stack, open, work, shutdown, turn, marked, wedged, code>>

Next ==
  \/ Build \/ serveUntilShutdown \/ Stop \/ InjectDies
  \/ \E s \in Sources : SurfaceDies(s) \/ Accept(s) \/ Begin(s) \/ End(s) \/ LoopEnds(s)
  \/ BeginDrain \/ Deadline \/ DrainWaits \/ Wait \/ ShutdownDone
  \/ unwind \/ Wedge \/ armTeardownWatchdog \/ Exit

Main == serveUntilShutdown \/ unwind \/ Exit
ShutdownStep == BeginDrain \/ DrainWaits \/ Wait \/ ShutdownDone

\* The process's own goroutines run; nothing is asked of turns or operators.
Fairness ==
  WF_vars(Main) /\ WF_vars(ShutdownStep) /\ WF_vars(Deadline) /\ WF_vars(armTeardownWatchdog)

Spec == Init /\ [][Next]_vars /\ Fairness

-----------------------------------------------------------------------------
\* What a resource stands on: the surfaces tail the event log, the scheduled
\* work runs under the lease, and everything lives on the turn context.
Ground(r) ==
  CASE r = "schedCtx" -> {"lease", "turnCtx"}
    [] r = "lease" -> {"turnCtx"}
    [] r = "attach" -> {"db", "turnCtx"}
    [] r \in {"a2a", "agui", "db", "otel"} -> {"turnCtx"}
    [] r = "turnCtx" -> {"ctx"}
    [] OTHER -> {}

\* Whatever phase refuses, whatever surface was asked for and however the
\* process comes to an end, nothing is closed under something that still
\* stands on it: the teardown order the phases register is the order of use
\* ("the attach server closes before the eventlog it tails"), and a process
\* that has gone without being cut off has closed everything it opened.
GroundHolds ==
  /\ \A r \in open : Ground(r) \subseteq open
  /\ at = "gone" /\ code # teardownHangExitCode => open = {}

\* Told to stop, or with a surface gone, and still serving; or drained and still there.
Lingers ==
  \/ at = "serving" /\ (stopped \/ (drain # "off" /\ ~(cfg.surfaces \subseteq work)))
  \/ drain \in {"clean", "expired"} /\ at # "gone"

\* A daemon that has been told to stop, or one of whose surfaces has died
\* ("a half-alive daemon whose operator surface silently died is worse than a
\* restart"), stops serving whatever its turns do; and once it has drained the
\* process ends, even when a teardown step never returns.  (Neither state is ever
\* left but by getting there, so "not for ever" is "eventually".)
LeavesWhenTold == []<>~Lingers
=============================================================================
