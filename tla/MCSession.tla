------------------------------ MODULE MCSession ------------------------------
(***************************************************************************)
(* One session's history, for TLC: the calls that stop and restart it      *)
(* (SessionOps, on its own variables), its effect outbox under the planner *)
(* and under the coordinator, and a call it makes of a remote agent.  A    *)
(* behaviour is one of one component, which `focus` names and never        *)
(* changes; all components but SessionOps take turns at x1 .. x27, so      *)
(* their state spaces add up and do not multiply.                          *)
(***************************************************************************)
EXTENDS SessionOps, TLC

CONSTANTS inj, pau, hard, abt, rsm, ans, ext1, ro, mu, ga, sp, su

VARIABLES focus, x1, x2, x3, x4, x5, x6, x7, x8, x9, x10, x11, x12, x13, x14,
          x15, x16, x17, x18, x19, x20, x21, x22, x23, x24, x25, x26, x27

\* What each call is; a configuration's Ops takes the ones it needs.
KindOf(o) ==
  CASE o = inj -> "inject" [] o = pau -> "pause" [] o = hard -> "hardpause" [] o = abt -> "abort"
    [] o = rsm -> "resume" [] o = ans -> "answer" [] o = ext1 -> "extend"
CallKind == [o \in Ops |-> KindOf(o)]

\* A mutating call and a spawning one whose sub-run mutates.
Plan == INSTANCE EffectOutbox WITH
  Calls <- {mu, sp, su}, Gated <- {},
  Class <- mu :> "mutating" @@ sp :> "spawning" @@ su :> "mutating",
  Parent <- mu :> None @@ sp :> None @@ su :> sp,
  Dispatch <- "planner", MaxTurns <- 3, MaxExits <- 1, MaxAttempts <- 1,
  intent <- x1, resp <- x2, confirm <- x3, lastUser <- x4, tail <- x5, events <- x6,
  lastCall <- x7, ext <- x8, ack <- x9, attempts <- x10, recent <- x11, marker <- x12,
  turn <- x13, stage <- x14, dangling <- x15, completions <- x16, boot <- x17, cand <- x18,
  clock <- x19, effects <- x20, made <- x21, settled <- x22, began <- x23, turns <- x24,
  exits <- x25, seen <- x26, autoRuns <- x27

\* A read-only call and a gated mutation, so that a boot pass has something to revive.
Auto == INSTANCE EffectOutbox WITH
  Calls <- {ro, ga}, Gated <- {ga}, Class <- ro :> "readonly" @@ ga :> "mutating",
  Parent <- ro :> None @@ ga :> None,
  Dispatch <- "coordinator", MaxTurns <- 3, MaxExits <- 2, MaxAttempts <- 1,
  intent <- x1, resp <- x2, confirm <- x3, lastUser <- x4, tail <- x5, events <- x6,
  lastCall <- x7, ext <- x8, ack <- x9, attempts <- x10, recent <- x11, marker <- x12,
  turn <- x13, stage <- x14, dangling <- x15, completions <- x16, boot <- x17, cand <- x18,
  clock <- x19, effects <- x20, made <- x21, settled <- x22, began <- x23, turns <- x24,
  exits <- x25, seen <- x26, autoRuns <- x27

Remote == INSTANCE A2AClient WITH
  HasCard <- TRUE, HasSkill <- TRUE,
  pc <- x1, ctx <- x2, remote <- x3, known <- x4, cancels <- x5, outcome <- x6

\* What the smaller components leave alone.
from7 == <<x7, x8, x9, x10, x11, x12, x13, x14, x15, x16, x17, x18, x19, x20, x21, x22, x23,
           x24, x25, x26, x27>>
pool == <<x1, x2, x3, x4, x5, x6, from7>>
all == <<focus, vars, pool>>

ZeroFrom7 == x7 = 0 /\ x8 = 0 /\ x9 = 0 /\ x10 = 0 /\ x11 = 0 /\ x12 = 0 /\ x13 = 0 /\ x14 = 0
  /\ x15 = 0 /\ x16 = 0 /\ x17 = 0 /\ x18 = 0 /\ x19 = 0 /\ x20 = 0 /\ x21 = 0 /\ x22 = 0
  /\ x23 = 0 /\ x24 = 0 /\ x25 = 0 /\ x26 = 0 /\ x27 = 0

CallInit ==
  /\ Init /\ focus = "session" /\ ZeroFrom7
  /\ x1 = 0 /\ x2 = 0 /\ x3 = 0 /\ x4 = 0 /\ x5 = 0 /\ x6 = 0
MCInit ==
  \/ CallInit
  \/ Init /\ focus = "plan" /\ Plan!Init
  \/ Init /\ focus = "auto" /\ Auto!Init
  \/ Init /\ focus = "remote" /\ Remote!Init /\ ZeroFrom7

In(component, frame) == focus = component /\ UNCHANGED <<focus, frame>>
\* A call of a remote agent ends.
Ends == focus = "remote" /\ UNCHANGED all
MCNext ==
  \/ In("session", pool) /\ Next
  \/ In("plan", vars) /\ Plan!Next
  \/ In("auto", vars) /\ Auto!Next
  \/ In("remote", <<vars, from7>>) /\ Remote!Next
  \/ Ends
MCSpec == MCInit /\ [][MCNext]_all

\* The calls of SessionOps alone, and the steps of theirs that are left when the
\* calls are timed pauses and turns.
CallSpec == CallInit /\ [][In("session", pool) /\ Next]_all
TimedNext ==
  /\ In("session", pool)
  /\ \/ \E a \in Actors : TurnStep(a) \/ StoreFault(a)
     \/ \E o \in Ops :
          \/ InjectStart(o) \/ InjectRun(o) \/ Mint(o)
          \/ PauseCheck(o) \/ PauseRead(o) \/ PauseWrite(o) \/ Push(o) \/ TimerPop(o)
     \/ TimerFetch \/ Rescan \/ Tick \/ Restart
TimedSpec == CallInit /\ [][TimedNext]_all /\ Fairness

-----------------------------------------------------------------------------
\* Between turns every mutation that ran has a recorded outcome or dangles, and a
\* mutation runs only if an operator acknowledged every mutating or spawning call
\* an earlier turn left without an outcome (the effect outbox).
AmbiguityBlocks ==
  /\ [](focus = "plan" => Plan!MutationAccounted)
  /\ [][focus = "plan" => Plan!BlockedByAmbiguity]_all

\* Auto-resume starts a turn only on a session where nothing mutating dangles, and
\* the attempts stamped within one window drive at most one turn each before one
\* succeeds, whatever crashes (the boot pass).
AutoResumeIsSafe ==
  /\ [](focus = "auto" => Auto!AutoBounded)
  /\ [][focus = "auto" => Auto!AutoStartsClean]_all

\* A mutation whose completion is recorded never runs again.
CompletedNeverReruns == [][focus = "auto" => Auto!RunsUnlessDone]_all

\* A remote task known to be open is cancelled before the tool call gives up on it.
OpenTaskIsCancelled == focus = "remote" => Remote!OpenTaskIsCancelled

\* autoresume.go: "auto-resume never double-fires a mutation", a call the operator
\* approved before the crash included.
ApprovedFiresOnce == focus = "auto" => Auto!NeverDoubleFires
==============================================================================
