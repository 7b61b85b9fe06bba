------------------------------- MODULE Guardrails -------------------------------
(***************************************************************************)
(* The two backstops of one session and their durable halves: the budget   *)
(* meter (pkg/budget) with its spend ledger, the watchdog's halt           *)
(* (internal/watchdog) with its guardrail log, the pools that restore both *)
(* in a fresh process (meterpool.go, watchdogpool.go), the turn's admission*)
(* (admitTurn) and the operator's poll and reset (guardrails.go).          *)
(*                                                                         *)
(* One dimension of spend stands for turns, tokens and dollars: they are   *)
(* compared alike, a turn being a call of size 1.  The session's ceiling   *)
(* is the only one here; a specialist's own is Meter's, with how the two   *)
(* meet.  Fold reads the guardrail log left to right, so the log is kept   *)
(* folded: halted and granted.                                             *)
(***************************************************************************)
EXTENDS Naturals

CONSTANTS
  Cap,         \* the session's declared ceiling
  Sizes,       \* what one model call may cost
  Branches,    \* model calls a fan-out turn can have in flight
  Operators,   \* operator requests in flight at once
  Grants,      \* what a reset may add; 0 adds nothing
  SigAt,       \* tool calls that complete the watchdog's signal
  FinalReport, \* budget.final_report
  MaxCrashes, MaxFaults, MaxSpend, MaxRequests   \* bounds

Turn == "turn"
Actors == {Turn} \cup Operators

VARIABLES
  ledger, halted, granted,               \* durable: spend rows, the folded guardrail log
  used, limit, mRestored, taken, mLatch, \* this process's meter, and the pool's latch
  wLatch, tripped, sig, enforce,         \* the watchdog pool's latch, the enforcer, the signal
  pc, snap, req,                         \* where each actor is, what it read, what it asks
  calling,                               \* model calls admitted and not yet folded
  crashes, faults, requests,             \* what happened so far, for the bounds
  before, own,                           \* history: the ledger at boot, what this process folded
  carried,                               \* history: a halt was on disk at boot, and no reset yet
  peak, reports                          \* history: the highest ceiling, final reports bought

durable == <<ledger, halted, granted>>
meter == <<used, limit, mRestored, taken, mLatch>>
dog == <<wLatch, tripped, sig, enforce>>
bounds == <<crashes, faults, requests>>
history == <<before, own, carried, peak, reports>>
vars == <<durable, meter, dog, pc, snap, req, calling, bounds, history>>

Steps == {"idle", "wLook", "wRead", "wAdopt", "wCheck", "mLook", "mRead", "mApply", "mReplay",
          "mCheck", "run", "trip", "judge", "clear", "grant", "record"}
Requests == {[kind |-> k, add |-> 0] : k \in {"poll", "watchdog"}}
            \cup [kind : {"cost_ceiling", "all"}, add : Grants \cup {0}]
Nothing == [halted |-> FALSE, ledger |-> 0, granted |-> 0]
NoRequest == [kind |-> "poll", add |-> 0]

TypeOK ==
  /\ {halted, mRestored, taken, mLatch, wLatch, tripped, enforce, carried} \subseteq BOOLEAN
  /\ ledger \in 0..MaxSpend /\ {granted, used, limit, before, own, peak, reports} \subseteq Nat
  /\ sig \in 0..SigAt /\ pc \in [Actors -> Steps] /\ req \in [Actors -> Requests]
  /\ snap \in [Actors -> [halted : BOOLEAN, ledger : 0..MaxSpend, granted : Nat]]
  /\ calling \in 0..Branches /\ crashes \in 0..MaxCrashes
  /\ faults \in 0..MaxFaults /\ requests \in 0..MaxRequests

Init ==
  /\ ledger = 0 /\ halted = FALSE /\ granted = 0
  /\ used = 0 /\ limit = Cap /\ mRestored = FALSE /\ taken = FALSE /\ mLatch = FALSE
  /\ wLatch = FALSE /\ tripped = FALSE /\ sig = 0 /\ enforce \in BOOLEAN
  /\ pc = [x \in Actors |-> "idle"] /\ snap = [x \in Actors |-> Nothing]
  /\ req = [x \in Actors |-> NoRequest] /\ calling = 0
  /\ crashes = 0 /\ faults = 0 /\ requests = 0
  /\ before = 0 /\ own = 0 /\ carried = FALSE /\ peak = Cap /\ reports = 0

\* The process dies and another starts, maybe in another posture.
Restart ==
  /\ crashes < MaxCrashes /\ crashes' = crashes + 1
  /\ used' = 0 /\ limit' = Cap /\ mRestored' = FALSE /\ taken' = FALSE /\ mLatch' = FALSE
  /\ wLatch' = FALSE /\ tripped' = FALSE /\ sig' = 0 /\ enforce' \in BOOLEAN
  /\ pc' = [x \in Actors |-> "idle"] /\ snap' = [x \in Actors |-> Nothing]
  /\ req' = [x \in Actors |-> NoRequest] /\ calling' = 0
  /\ before' = ledger /\ own' = 0 /\ carried' = halted
  /\ UNCHANGED <<durable, faults, requests, peak, reports>>

Goto(x, step) == pc' = [pc EXCEPT ![x] = step]
\* A durable read or write fails.
Fault == faults < MaxFaults /\ faults' = faults + 1

-----------------------------------------------------------------------------
\* Restoring, for a turn and for an operator's request.

TurnAsked ==
  /\ pc[Turn] = "idle" /\ Goto(Turn, "wLook")
  /\ UNCHANGED <<durable, meter, dog, snap, req, calling, bounds, history>>

RequestArrives(o) ==
  /\ pc[o] = "idle" /\ requests < MaxRequests /\ requests' = requests + 1
  /\ Goto(o, "wLook") /\ \E r \in Requests : req' = [req EXCEPT ![o] = r]
  /\ UNCHANGED <<durable, meter, dog, snap, calling, crashes, faults, history>>

\* watchdogPool.restore: one fold per process and session ...
LookHalt(x) ==
  /\ pc[x] = "wLook" /\ Goto(x, IF wLatch THEN "wCheck" ELSE "wRead")
  /\ UNCHANGED <<durable, meter, dog, snap, req, calling, bounds, history>>
\* ... a failed read is retried next time; a good one latches, and only then ...
FoldHalt(x) ==
  /\ pc[x] = "wRead"
  /\ \/ Fault /\ Goto(x, "wCheck") /\ UNCHANGED <<wLatch, snap>>
     \/ /\ wLatch' = TRUE /\ Goto(x, "wAdopt") /\ UNCHANGED faults
        /\ snap' = [snap EXCEPT ![x].halted = halted]
  /\ UNCHANGED <<durable, meter, tripped, sig, enforce, req, calling, crashes, requests, history>>
\* ... is the halt adopted, under enforce.
Adopt(x) ==
  /\ pc[x] = "wAdopt" /\ Goto(x, "wCheck")
  /\ tripped' = (tripped \/ (snap[x].halted /\ enforce))
  /\ snap' = [snap EXCEPT ![x].halted = FALSE]
  /\ UNCHANGED <<durable, meter, wLatch, sig, enforce, req, calling, bounds, history>>

\* watchdogPool.preflight refuses a turn; a request goes on.
PreflightHalt(x) ==
  /\ pc[x] = "wCheck" /\ Goto(x, IF x = Turn /\ tripped THEN "idle" ELSE "mLook")
  /\ UNCHANGED <<durable, meter, dog, snap, req, calling, bounds, history>>

AfterRestore(x) ==
  CASE x = Turn -> "mCheck" [] req[x].kind = "poll" -> "idle"
    [] req[x].kind = "watchdog" -> "clear" [] OTHER -> "judge"

\* meterPool.restore: the same latch; spend and grants are read, both or neither.
LookSpend(x) ==
  /\ pc[x] = "mLook" /\ Goto(x, IF mLatch THEN AfterRestore(x) ELSE "mRead")
  /\ UNCHANGED <<durable, meter, dog, snap, req, calling, bounds, history>>
FoldSpend(x) ==
  /\ pc[x] = "mRead"
  /\ \/ Fault /\ Goto(x, AfterRestore(x)) /\ UNCHANGED snap
     \/ /\ Goto(x, "mApply") /\ UNCHANGED faults
        /\ snap' = [snap EXCEPT ![x].ledger = ledger, ![x].granted = granted]
  /\ UNCHANGED <<durable, meter, dog, req, calling, crashes, requests, history>>

\* Mutant: the meter takes every fold it is given.
RestoreAlways(x) ==
  /\ pc[x] = "mApply" /\ mLatch' = TRUE /\ used' = used + snap[x].ledger
  /\ mRestored' = (mRestored \/ snap[x].ledger > 0) /\ Goto(x, "mReplay")
  /\ UNCHANGED <<durable, limit, taken, dog, snap, req, calling, bounds, history>>
\* Mutant: a restart forgets what was spent.
RestoreNothing(x) ==
  /\ pc[x] = "mApply" /\ mLatch' = TRUE /\ Goto(x, "mReplay")
  /\ UNCHANGED <<durable, used, mRestored, limit, taken, dog, snap, req, calling, bounds, history>>

\* Meter.Restore and markRestored: a second fold of a prior is refused (ErrRestored),
\* and whoever lost that race returns without the grants.
Restore(x) ==
  /\ pc[x] = "mApply" /\ mLatch' = TRUE
  /\ IF snap[x].ledger > 0 /\ mRestored
     THEN Goto(x, AfterRestore(x)) /\ UNCHANGED <<used, mRestored>>
     ELSE /\ used' = used + snap[x].ledger /\ Goto(x, "mReplay")
          /\ mRestored' = (mRestored \/ snap[x].ledger > 0)
  /\ UNCHANGED <<durable, limit, taken, dog, snap, req, calling, bounds, history>>

Raise(l) == limit' = l /\ peak' = (IF l > peak THEN l ELSE peak)

\* The grants are replayed over the ceiling.
ReplayGrants(x) ==
  /\ pc[x] = "mReplay" /\ Raise(limit + snap[x].granted)
  /\ snap' = [snap EXCEPT ![x] = Nothing] /\ Goto(x, AfterRestore(x))
  /\ UNCHANGED <<durable, used, mRestored, taken, mLatch, dog, req, calling, bounds, before, own, carried, reports>>

-----------------------------------------------------------------------------
\* The turn.

\* precluded: no further call can stay under the ceiling.
precluded(u, l) == u >= l
crossed(u, l) == u > l

\* meterPool.preflight.
PreflightBudget ==
  /\ pc[Turn] = "mCheck" /\ Goto(Turn, IF precluded(used, limit) THEN "idle" ELSE "run")
  /\ UNCHANGED <<durable, meter, dog, snap, req, calling, bounds, history>>

\* The turn is over or cancelled; calls in flight are never folded.
Over == Goto(Turn, "idle") /\ calling' = 0

\* RefuseOnGate and Allow: a call is made, or bought once past the ceiling for a
\* final report, or refused; the workload's refusal ends the turn.
Ask ==
  /\ pc[Turn] = "run"
  /\ IF ~precluded(used, limit)
     THEN calling < Branches /\ calling' = calling + 1 /\ UNCHANGED <<taken, reports, pc>>
     ELSE \/ /\ FinalReport /\ ~taken /\ used > 0 /\ calling < Branches
             /\ taken' = TRUE /\ reports' = reports + 1 /\ calling' = calling + 1 /\ UNCHANGED pc
          \/ Over /\ UNCHANGED <<taken, reports>>
  /\ UNCHANGED <<durable, used, limit, mRestored, mLatch, dog, snap, req, bounds, before, own, carried, peak>>

\* Observe: fold, then the row of the ledger; a crossing cancels the turn.
Observe ==
  /\ pc[Turn] = "run" /\ calling > 0
  /\ \E c \in Sizes :
       /\ used' = used + c /\ own' = own + c
       /\ \/ ledger + c <= MaxSpend /\ ledger' = ledger + c /\ UNCHANGED faults
          \/ Fault /\ UNCHANGED ledger
       /\ IF crossed(used', limit) THEN Over ELSE calling' = calling - 1 /\ UNCHANGED pc
  /\ UNCHANGED <<halted, granted, limit, mRestored, taken, mLatch, dog, snap, req, crashes, requests, before, carried, peak, reports>>

\* A tool call feeds the signal; the completed one trips the session under enforce.
ToolCall ==
  /\ pc[Turn] = "run" /\ sig < SigAt /\ sig' = sig + 1
  /\ IF sig' = SigAt /\ enforce /\ ~tripped
     THEN tripped' = TRUE /\ Goto(Turn, "trip") ELSE UNCHANGED <<tripped, pc>>
  /\ UNCHANGED <<durable, meter, wLatch, enforce, snap, req, calling, bounds, history>>

\* forgetToolRun: the write gate turned the repetition away.
ForgetToolRun ==
  /\ pc[Turn] = "run" /\ sig > 0 /\ sig' = 0
  /\ UNCHANGED <<durable, meter, wLatch, tripped, enforce, pc, snap, req, calling, bounds, history>>

\* recordTrip, then cancel.
RecordTrip ==
  /\ pc[Turn] = "trip" /\ Over
  /\ \/ halted' = TRUE /\ UNCHANGED faults
     \/ Fault /\ UNCHANGED halted
  /\ UNCHANGED <<ledger, granted, meter, dog, snap, req, crashes, requests, history>>

TurnEnds ==
  /\ pc[Turn] = "run" /\ Over
  /\ UNCHANGED <<durable, meter, dog, snap, req, bounds, history>>

-----------------------------------------------------------------------------
\* The operator's reset.

Done(o) == Goto(o, "idle") /\ req' = [req EXCEPT ![o] = NoRequest]

\* A grant that would leave the ceiling precluding is refused before anything moves.
Judge(o) ==
  /\ pc[o] = "judge"
  /\ IF precluded(used, limit + req[o].add) THEN Done(o)
     ELSE Goto(o, IF req[o].kind = "all" THEN "clear" ELSE "grant") /\ UNCHANGED req
  /\ UNCHANGED <<durable, meter, dog, snap, calling, bounds, history>>

\* watchdogPool.reset: the signal, the halt and the alerts together.
ClearHalt(o) ==
  /\ pc[o] = "clear" /\ Goto(o, "grant") /\ sig' = 0 /\ tripped' = FALSE /\ carried' = FALSE
  /\ UNCHANGED <<durable, meter, wLatch, enforce, snap, req, calling, bounds, before, own, peak, reports>>

\* Meter.Grant.
Grant(o) ==
  /\ pc[o] = "grant" /\ Goto(o, "record") /\ Raise(limit + req[o].add)
  /\ UNCHANGED <<durable, used, mRestored, taken, mLatch, dog, snap, req, calling, bounds, before, own, carried, reports>>

\* recordReset: one row clears the halt and holds the grant.
RecordReset(o) ==
  /\ pc[o] = "record" /\ Done(o)
  /\ \/ /\ halted' = (halted /\ req[o].kind = "cost_ceiling")
        /\ granted' = granted + req[o].add /\ UNCHANGED faults
     \/ Fault /\ UNCHANGED <<halted, granted>>
  /\ UNCHANGED <<ledger, meter, dog, snap, calling, crashes, requests, history>>

Next ==
  \/ Restart \/ TurnAsked \/ PreflightBudget \/ Ask \/ Observe \/ ToolCall \/ ForgetToolRun
  \/ RecordTrip \/ TurnEnds
  \/ \E x \in Actors : \/ LookHalt(x) \/ FoldHalt(x) \/ Adopt(x) \/ PreflightHalt(x)
                       \/ LookSpend(x) \/ FoldSpend(x) \/ Restore(x) \/ ReplayGrants(x)
  \/ \E o \in Operators : RequestArrives(o) \/ Judge(o) \/ ClearHalt(o) \/ Grant(o) \/ RecordReset(o)
Spec == Init /\ [][Next]_vars

-----------------------------------------------------------------------------
\* What earlier processes spent is counted exactly once in this one, however a
\* turn's restore and an operator's race, as long as no durable call failed
\* (Restore's latch, ErrRestored).
RestoredSpendCountsOnce ==
  faults = 0 /\ mRestored /\ before > 0 => used = before + own

\* A ceiling bounds what the session spends over all its processes, not per
\* process: the ledger passes the highest ceiling in force only by the calls a
\* fan-out had in flight and the final reports bought (restore, Allow).
CeilingOutlivesProcess ==
  LET big == CHOOSE s \in Sizes : \A z \in Sizes : z <= s
  IN  faults = 0 => ledger <= peak - 1 + big * (Branches + reports)

\* durable.go promises that what a crash loses is always an undercount, never a
\* phantom charge, and meterpool.go that a retry after a failed read cannot
\* double-count: the meter never exceeds what was really folded for the session.
NoPhantomCharge == used <= before + own

\* admitTurn adopts a halt a previous process recorded before the preflight that
\* has to honour it: no turn runs on it before an operator's reset.
HaltSurvivesRestart == carried /\ enforce /\ faults = 0 => pc[Turn] # "run"
=============================================================================
