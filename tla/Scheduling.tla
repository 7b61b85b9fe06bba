------------------------------ MODULE Scheduling ------------------------------
(***************************************************************************)
(* Work nobody asked for: the instance lease of internal/eventlog/lock.go, *)
(* the daemon's use of it at boot (internal/cli/schedlease.go, serve.go)   *)
(* and the scheduled trigger it governs (internal/cli/schedtrigger.go).    *)
(*                                                                         *)
(* A member of Procs is one process lifetime, which has one holder ID; a   *)
(* restart is another member.  A step is one statement against the store   *)
(* with the local computation that follows it.  A process may take as long *)
(* as it likes over any step while Tick advances the clock, so a late      *)
(* heartbeat, a stalled boot and an overrunning turn need no action.       *)
(***************************************************************************)
EXTENDS Integers

CONSTANTS
  Procs,       \* process lifetimes
  Interval,    \* the cadence
  Jitter,      \* a fire is delayed by less than this
  StaleAfter,  \* InstanceLeaseStaleAfter
  RetryFor,    \* schedLeaseRetryFor
  MaxNow,      \* bound on the clock
  MaxFaults,   \* bound on store calls that fail
  None

\* EffectiveInterval and EffectiveJitter refuse a cadence without an interval and
\* a delay that reaches the next tick; schedLeaseRetryFor outlasts
\* InstanceLeaseStaleAfter.
ASSUME CadenceAssumption ==
  /\ Interval \in Nat \ {0} /\ Jitter \in 0..Interval
  /\ RetryFor \in Nat /\ StaleAfter \in 0..RetryFor
  /\ MaxNow \in Nat /\ MaxFaults \in Nat
ASSUME NoneAssumption ==
  \A p \in Procs, t \in 0..MaxNow :
    [holder |-> p, beat |-> t] # None /\ [holder |-> p, at |-> t] # None

VARIABLES
  now,
  row,      \* agent_run_lock: None or [holder, beat]
  rec,      \* the ops row's schedule record: None or [anchor, last]
  faults,
  st,       \* where a process is in its life
  bootAt,   \* when it began to ask for the lease; 0 once it stopped asking
  prey,     \* the stale holder acquireLock read, and its own `now`
  leased,   \* it holds a SessionLock value that was not reported lost
  ended,    \* schedCtx is cancelled
  draining, \* the tracker is draining and the trigger was told to stop
  trig,     \* where the cadence loop is
  anchor, last, tick, fireAt,   \* scheduledTrigger's fields and current plan
  ran,      \* history: the ticks a process ran
  lapsed,   \* history: processes robbed of the lease while alive
  open      \* history: processes that drive without a lease

lease == <<row, bootAt, prey, leased, lapsed, open>>
plan == <<anchor, last, tick, fireAt>>
vars == <<now, faults, st, ended, draining, lease, rec, trig, plan, ran>>

Alive(p) == st[p] \notin {"down", "exited"}
Drives(p) == st[p] = "driving" /\ ~ended[p]
Instants == 0..(MaxNow + Interval + Jitter)

TypeOK ==
  /\ now \in 0..MaxNow /\ faults \in 0..MaxFaults
  /\ row \in {None} \cup [holder : Procs, beat : 0..MaxNow]
  /\ rec \in {None} \cup [anchor : Instants, last : Instants]
  /\ st \in [Procs -> {"down", "booting", "stealing", "won", "driving", "passive", "exited"}]
  /\ bootAt \in [Procs -> 0..MaxNow]
  /\ prey \in [Procs -> {None} \cup [holder : Procs, at : 0..MaxNow]]
  /\ \A f \in {leased, ended, draining} : f \in [Procs -> BOOLEAN]
  /\ trig \in [Procs -> {"off", "anchoring", "wait", "running"}]
  /\ \A f \in {anchor, last, tick, fireAt} : f \in [Procs -> Instants]
  /\ ran \in [Procs -> SUBSET Instants]
  /\ lapsed \subseteq Procs /\ open \subseteq Procs

Init ==
  /\ now = 0 /\ row = None /\ rec = None /\ faults = 0
  /\ st = [p \in Procs |-> "down"] /\ trig = [p \in Procs |-> "off"]
  /\ prey = [p \in Procs |-> None] /\ ran = [p \in Procs |-> {}]
  /\ leased = [p \in Procs |-> FALSE] /\ ended = leased /\ draining = leased
  /\ bootAt = [p \in Procs |-> 0] /\ anchor = bootAt /\ last = bootAt /\ tick = bootAt /\ fireAt = bootAt
  /\ lapsed = {} /\ open = {}

Tick ==
  /\ now < MaxNow /\ now' = now + 1
  /\ UNCHANGED <<faults, st, ended, draining, lease, rec, trig, plan, ran>>

-----------------------------------------------------------------------------
\* The lease.

Fresh(r) == now - r.beat <= StaleAfter
Holds(p) == row # None /\ row.holder = p

Boot(p) ==
  /\ st[p] = "down"
  /\ st' = [st EXCEPT ![p] = "booting"] /\ bootAt' = [bootAt EXCEPT ![p] = now]
  /\ UNCHANGED <<now, faults, ended, draining, rec, trig, plan, ran, row, prey, leased, lapsed, open>>

Hold(p, t) ==
  /\ row' = [holder |-> p, beat |-> t]
  /\ leased' = [leased EXCEPT ![p] = TRUE] /\ st' = [st EXCEPT ![p] = "won"]
  /\ bootAt' = [bootAt EXCEPT ![p] = 0]

\* acquireLock: the insert lands.
Insert(p) ==
  /\ st[p] = "booting" /\ row = None
  /\ Hold(p, now)
  /\ UNCHANGED <<now, faults, ended, draining, rec, trig, plan, ran, prey, lapsed, open>>

\* Mutant: a refusal is final.
AfterRefusalGivesUp(p) == "passive"

\* ErrSessionLocked: asked again until the deadline, passive for life after it.
AfterRefusal(p) == IF now < bootAt[p] + RetryFor THEN "booting" ELSE "passive"

\* acquireLock: the row is there and its heartbeat is fresh.
Refused(p) ==
  /\ st[p] = "booting" /\ row # None /\ Fresh(row)
  /\ st' = [st EXCEPT ![p] = AfterRefusal(p)]
  /\ UNCHANGED <<now, faults, ended, draining, lease, rec, trig, plan, ran>>

\* acquireLock: the row is stale; the holder just read is what the steal names.
FindStale(p) ==
  /\ st[p] = "booting" /\ row # None /\ ~Fresh(row)
  /\ st' = [st EXCEPT ![p] = "stealing"]
  /\ prey' = [prey EXCEPT ![p] = [holder |-> row.holder, at |-> now]]
  /\ UNCHANGED <<now, faults, ended, draining, rec, trig, plan, ran, row, bootAt, leased, lapsed, open>>

\* The conditional UPDATE: one row, or none because the holder changed.
Steal(p) ==
  /\ st[p] = "stealing"
  /\ \/ /\ Holds(prey[p].holder)
        /\ Hold(p, prey[p].at)
        /\ lapsed' = lapsed \cup {q \in {prey[p].holder} : Alive(q)}
     \/ /\ ~Holds(prey[p].holder)
        /\ st' = [st EXCEPT ![p] = AfterRefusal(p)]
        /\ UNCHANGED <<row, leased, lapsed, bootAt>>
  /\ prey' = [prey EXCEPT ![p] = None]
  /\ UNCHANGED <<now, faults, ended, draining, rec, trig, plan, ran, open>>

\* The store could not answer: active, with nothing held.
FailOpen(p) ==
  /\ st[p] \in {"booting", "stealing"} /\ faults < MaxFaults
  /\ faults' = faults + 1 /\ open' = open \cup {p}
  /\ st' = [st EXCEPT ![p] = "won"] /\ prey' = [prey EXCEPT ![p] = None]
  /\ bootAt' = [bootAt EXCEPT ![p] = 0]
  /\ UNCHANGED <<now, ended, draining, rec, trig, plan, ran, row, leased, lapsed>>

\* Mutant: a beat that matches no row is taken for a store hiccup.
BeatForgives(p) ==
  /\ Alive(p) /\ leased[p] /\ Holds(p)
  /\ row' = [row EXCEPT !.beat = now]
  /\ UNCHANGED <<now, faults, st, ended, draining, rec, trig, plan, ran, bootAt, prey, leased, lapsed, open>>

\* heartbeatLoop: beat refreshes the row, or finds it gone; then the lost channel
\* closes, the loop ends and startScheduling's watcher cancels schedCtx.
Beat(p) ==
  /\ Alive(p) /\ leased[p]
  /\ \/ /\ Holds(p)
        /\ row' = [row EXCEPT !.beat = now]
        /\ UNCHANGED <<leased, ended>>
     \/ /\ ~Holds(p)
        /\ leased' = [leased EXCEPT ![p] = FALSE] /\ ended' = [ended EXCEPT ![p] = TRUE]
        /\ UNCHANGED row
  /\ UNCHANGED <<now, faults, st, draining, rec, trig, plan, ran, bootAt, prey, lapsed, open>>

-----------------------------------------------------------------------------
\* The cadence.

\* Mutant: a tick that falls on this very instant still counts as ahead.
NextTickInclusive(a, t) ==
  IF t < a THEN a ELSE a + ((t - a + Interval - 1) \div Interval) * Interval

\* The first cadence point strictly after t.
nextTick(a, t) ==
  IF t < a THEN a ELSE a + ((t - a) \div Interval + 1) * Interval

\* How many cadence points lie in (l, t]; l is itself one.
ticksSkipped(l, t) == IF t <= l THEN 0 ELSE (t - l) \div Interval

\* Mutant: a tick the record does not show as accounted for is caught up.
PlanCatchesUp(p, a, l) ==
  /\ anchor' = [anchor EXCEPT ![p] = a] /\ last' = [last EXCEPT ![p] = l]
  /\ tick' = [tick EXCEPT ![p] = l + Interval] /\ fireAt' = [fireAt EXCEPT ![p] = l + Interval]
  /\ trig' = [trig EXCEPT ![p] = "wait"]

\* plan, at the top of the loop: coalesce what came due with nobody to run it,
\* then aim at the next tick with a fresh jitter.
Plan(p, a, l) ==
  /\ anchor' = [anchor EXCEPT ![p] = a]
  /\ last' = [last EXCEPT ![p] = l + ticksSkipped(l, now) * Interval]
  /\ tick' = [tick EXCEPT ![p] = nextTick(a, now)]
  /\ \E j \in 0..(IF Jitter = 0 THEN 0 ELSE Jitter - 1) :
       fireAt' = [fireAt EXCEPT ![p] = nextTick(a, now) + j]
  /\ trig' = [trig EXCEPT ![p] = "wait"]

\* seed: resume the record, or anchor a new cadence at this instant.  A record
\* that cannot be read is no record.
Seed(p) ==
  /\ st[p] = "won"
  /\ st' = [st EXCEPT ![p] = "driving"]
  /\ \/ /\ rec # None
        /\ Plan(p, rec.anchor, rec.last)
        /\ UNCHANGED faults
     \/ /\ rec = None \/ faults < MaxFaults
        /\ faults' = IF rec = None THEN faults ELSE faults + 1
        /\ anchor' = [anchor EXCEPT ![p] = now] /\ last' = [last EXCEPT ![p] = now]
        /\ trig' = [trig EXCEPT ![p] = "anchoring"]
        /\ UNCHANGED <<tick, fireAt>>
  /\ UNCHANGED <<now, ended, draining, lease, rec, ran>>

\* persist, after the anchor is chosen and when a run returns, failed or not.
\* The write may fail and is then only logged.
Persist(p) ==
  /\ st[p] = "driving" /\ trig[p] \in {"anchoring", "running"}
  /\ \/ rec' = [anchor |-> anchor[p], last |-> last[p]] /\ UNCHANGED faults
     \/ faults < MaxFaults /\ faults' = faults + 1 /\ UNCHANGED rec
  /\ Plan(p, anchor[p], last[p])
  /\ UNCHANGED <<now, st, ended, draining, lease, ran>>

\* fireDue: the tick is spent; it runs unless the context ended or a drain began.
FireDue(p) ==
  /\ st[p] = "driving" /\ trig[p] = "wait" /\ now >= fireAt[p]
  /\ \/ /\ ~ended[p] /\ ~draining[p]
        /\ last' = [last EXCEPT ![p] = tick[p]]
        /\ ran' = [ran EXCEPT ![p] = @ \cup {tick[p]}]
        /\ trig' = [trig EXCEPT ![p] = "running"]
        /\ UNCHANGED <<anchor, tick, fireAt>>
     \/ /\ ended[p] \/ draining[p]
        /\ Plan(p, anchor[p], tick[p])
        /\ UNCHANGED ran
  /\ UNCHANGED <<now, faults, st, ended, draining, lease, rec>>

ForgetPlan(p) ==
  /\ trig' = [trig EXCEPT ![p] = "off"]
  /\ anchor' = [anchor EXCEPT ![p] = 0] /\ last' = [last EXCEPT ![p] = 0]
  /\ tick' = [tick EXCEPT ![p] = 0] /\ fireAt' = [fireAt EXCEPT ![p] = 0]

\* run's select sees the context or the stop channel.
LoopExits(p) ==
  /\ st[p] = "driving" /\ trig[p] = "wait" /\ (ended[p] \/ draining[p])
  /\ ForgetPlan(p)
  /\ UNCHANGED <<now, faults, st, ended, draining, lease, rec, ran>>

-----------------------------------------------------------------------------
\* Ends of a process.

BeginDrain(p) ==
  /\ st[p] = "driving" /\ ~draining[p]
  /\ draining' = [draining EXCEPT ![p] = TRUE]
  /\ UNCHANGED <<now, faults, st, ended, lease, rec, trig, plan, ran>>

\* What dies with a process.
Dies(p) ==
  /\ st' = [st EXCEPT ![p] = "exited"]
  /\ leased' = [leased EXCEPT ![p] = FALSE] /\ prey' = [prey EXCEPT ![p] = None]
  /\ ended' = [ended EXCEPT ![p] = FALSE] /\ draining' = [draining EXCEPT ![p] = FALSE]
  /\ bootAt' = [bootAt EXCEPT ![p] = 0] /\ ForgetPlan(p)
  /\ UNCHANGED <<now, faults, lapsed, open, rec, ran>>

\* Teardown, once the loop stopped or the drain window ran out: Release deletes
\* the row if it is still ours.
Exit(p) ==
  /\ draining[p] /\ Dies(p)
  /\ row' = IF leased[p] /\ Holds(p) THEN None ELSE row

\* The process is killed and the row stays.  (The death of one that holds and
\* drives nothing changes nothing and is left out.)
Crash(p) == st[p] \in {"won", "driving"} /\ Dies(p) /\ UNCHANGED row

Asks(p) == Insert(p) \/ Refused(p) \/ FindStale(p) \/ Steal(p)
Cadence(p) == Seed(p) \/ Persist(p) \/ FireDue(p) \/ LoopExits(p)
Next ==
  \/ Tick
  \/ \E p \in Procs :
       \/ Boot(p) \/ Asks(p) \/ FailOpen(p) \/ Beat(p) \/ Cadence(p)
       \/ BeginDrain(p) \/ Exit(p) \/ Crash(p)

\* The heartbeat goroutine ticks on and its store answers in the end.
Fairness == \A p \in Procs : WF_vars(Beat(p))
Spec == Init /\ [][Next]_vars
FairSpec == Spec /\ Fairness

-----------------------------------------------------------------------------
\* A tick runs twice only in a split: one of the two processes drives without a
\* lease because the store failed at boot, or was robbed of it while alive.  A
\* clean handover, a crash between fire and persist (fireDue), a restart inside
\* the jitter and a passive replica never repeat a tick.
DuplicateNeedsSplit ==
  \A p, q \in Procs : p # q /\ ran[p] \cap ran[q] # {} => {p, q} \cap (lapsed \cup open) # {}

\* acquireSchedulingLeaseWithin gives up only against a process that wrote the
\* row after it started asking, or that beat it to the steal: the replacement of
\* a killed leader never ends up passive.
GivesUpToRival ==
  \A p \in Procs : st[p] = "booting" /\ st'[p] = "passive" => row.beat >= bootAt[p]
PassiveMeansLiveRival == [][GivesUpToRival]_vars

\* What is planned is the cadence point right after the last one accounted for:
\* ticksSkipped, which counts from `last`, and nextTick, which counts from the
\* anchor, agree across restarts, so no tick is lost and none counted twice.
PlanIsContiguous ==
  \A p \in Procs : trig[p] = "wait" => tick[p] = last[p] + Interval

\* Every tick is run at most once and none is lost, but for a split.
TicksAreKept == DuplicateNeedsSplit /\ PlanIsContiguous

\* A process robbed of its lease stops driving scheduled work: the heartbeat
\* finds its row gone and the watcher cancels the loops.
RobbedAreIdle == \A p \in lapsed : ~Drives(p)
RobbedStops == []<>RobbedAreIdle
=============================================================================
