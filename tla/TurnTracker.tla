----------------------------- MODULE TurnTracker -----------------------------
(***************************************************************************)
(* The shutdown bookkeeping of one daemon lifetime (internal/cli):         *)
(* turnTracker and sessionTurnLocks (shutdown.go), the bracket runTurnPre  *)
(* puts around a turn (turn.go), the drain goroutine (serve.go) and the    *)
(* boot-time auto-resume pass (autoresume.go) as far as they touch the     *)
(* interruption markers.                                                   *)
(*                                                                         *)
(* A step is one critical section of turnTracker.mu or one write to the    *)
(* session store, so the windows between deciding, writing and recording   *)
(* are all there.  writeMu is a variable of its own.  Disk state (marker,  *)
(* gate, row) outlives the process; everything else dies with it.          *)
(***************************************************************************)
EXTENDS Naturals

CONSTANTS
  Sessions,   \* session IDs
  Turns,      \* turn attempts the daemon's surfaces may launch
  SessionOf,  \* the session a turn runs on
  Kind,       \* "inject" (HTTP handler), "attach" (outside one), "boot"
  Known,      \* sessions whose row a previous process created
  Leftover,   \* sessions a previous process left marked interrupted
  Drainer,    \* the drain goroutine, as an actor
  Nobody      \* no actor

Actors == Turns \cup {Drainer}
Kinds == {"inject", "attach", "boot"}

ASSUME ActorAssumption ==
  /\ Drainer \notin Turns
  /\ Nobody \notin Actors
  /\ SessionOf \in [Turns -> Sessions]
  /\ Kind \in [Turns -> Kinds]
  /\ Leftover \subseteq Known /\ Known \subseteq Sessions

VARIABLES
  phase,        \* where the drain goroutine is; an exit code ends the process
  deadline,     \* the drain window has elapsed
  draining, frozen, cancelled, pauseOnDrain,
  toMark, cur,  \* beginDrain's snapshot, and the session it is marking
  active,       \* turnTracker.active
  marked,       \* turnTracker.marked
  writeMu,      \* holder of turnTracker.writeMu
  mk,           \* where an actor is inside mark()
  pc,           \* where a turn is
  ok,           \* a boot turn returned without an error
  lock,         \* sessionTurnLocks: the turn holding the session's slot
  candidates,   \* what the boot scan found interrupted
  marker,       \* on disk: the interruption marker is set
  gate,         \* on disk: an active gate pause
  row,          \* on disk: the primary session row exists
  failed        \* history: sessions some marker or pause write failed for

tracker == <<draining, frozen, cancelled, pauseOnDrain, toMark, cur, active, marked>>
disk == <<marker, gate, row, failed>>
drain == <<phase, deadline>>
turn == <<pc, ok, lock>>
vars == <<drain, tracker, writeMu, mk, turn, candidates, disk>>

Phases == {"serving", "premark", "handlers", "wait", "freeze", "cancel",
           "grace", "exit0", "exit3"}
Up == phase \notin {"exit0", "exit3"}
MarkSteps == {"idle", "want", "write", "pause", "flip"}
\* Program points of runTurnPre and, for a boot turn, of resumeOne around it.
TurnSteps == {"new", "decide", "queued", "locked", "starting", "running",
              "clear", "clearwrite", "clearflip", "unlock", "bootclear", "done"}
BootTurns == {t \in Turns : Kind[t] = "boot"}
InFlight(t) == pc[t] \notin {"new", "done"}
\* Between tracker.begin and the decrement in tracker.end.
Bracketed(t) == pc[t] \in {"starting", "running"}

TypeOK ==
  /\ phase \in Phases
  /\ deadline \in BOOLEAN
  /\ draining \in BOOLEAN /\ frozen \in BOOLEAN
  /\ cancelled \in BOOLEAN /\ pauseOnDrain \in BOOLEAN
  /\ toMark \subseteq Sessions /\ cur \in Sessions \cup {Nobody}
  /\ active \in [Sessions -> Nat]
  /\ marked \in [Sessions -> BOOLEAN]
  /\ writeMu \in Actors \cup {Nobody}
  /\ mk \in [Actors -> MarkSteps]
  /\ pc \in [Turns -> TurnSteps]
  /\ ok \in [Turns -> BOOLEAN]
  /\ lock \in [Sessions -> Turns \cup {Nobody}]
  /\ candidates \subseteq Sessions
  /\ marker \in [Sessions -> BOOLEAN]
  /\ gate \in [Sessions -> BOOLEAN]
  /\ row \in [Sessions -> BOOLEAN]
  /\ failed \subseteq Sessions

\* A process starts over whatever a previous one left on disk; its boot scan
\* finds the sessions marked interrupted and not gate-paused.
Init ==
  /\ phase = "serving" /\ deadline = FALSE
  /\ draining = FALSE /\ frozen = FALSE /\ cancelled = FALSE /\ pauseOnDrain = FALSE
  /\ toMark = {} /\ cur = Nobody
  /\ active = [s \in Sessions |-> 0]
  /\ marked = [s \in Sessions |-> FALSE]
  /\ writeMu = Nobody
  /\ mk = [a \in Actors |-> "idle"]
  /\ pc = [t \in Turns |-> "new"]
  /\ ok = [t \in Turns |-> FALSE]
  /\ lock = [s \in Sessions |-> Nobody]
  /\ row = [s \in Sessions |-> s \in Known]
  /\ gate = [s \in Sessions |-> FALSE]
  /\ marker = [s \in Sessions |-> s \in Leftover]
  /\ candidates = Leftover
  /\ failed = {}

-----------------------------------------------------------------------------
\* mark(): called by begin for a turn starting mid-drain and by beginDrain.

Target(a) == IF a = Drainer THEN cur ELSE SessionOf[a]

\* Take writeMu and re-check the decision under mu.
MarkEnter(a) ==
  /\ Up /\ mk[a] = "want" /\ writeMu = Nobody
  /\ LET s == Target(a)
         skip == frozen \/ marked[s] \/ active[s] = 0
     IN  /\ mk' = [mk EXCEPT ![a] = IF skip THEN "idle" ELSE "write"]
         /\ writeMu' = IF skip THEN Nobody ELSE a
  /\ UNCHANGED <<drain, tracker, turn, candidates, disk>>

\* Mutant: the flip no longer depends on the write having landed.
MarkWriteIgnoresError(a) ==
  /\ Up /\ mk[a] = "write"
  /\ \/ marker' = [marker EXCEPT ![Target(a)] = TRUE] /\ UNCHANGED failed
     \/ failed' = failed \cup {Target(a)} /\ UNCHANGED marker
  /\ mk' = [mk EXCEPT ![a] = IF pauseOnDrain THEN "pause" ELSE "flip"]
  /\ UNCHANGED <<drain, tracker, writeMu, turn, candidates, gate, row>>

\* Mutant: the pause is beginDrain's one-shot sweep, so a late turn misses it.
MarkWriteSweepPauses(a) ==
  /\ Up /\ mk[a] = "write"
  /\ marker' = [marker EXCEPT ![Target(a)] = TRUE]
  /\ mk' = [mk EXCEPT ![a] = IF pauseOnDrain /\ a = Drainer THEN "pause" ELSE "flip"]
  /\ UNCHANGED <<drain, tracker, writeMu, turn, candidates, gate, row, failed>>

\* store.MarkInterrupted lands, or fails and mark() returns.
MarkWrite(a) ==
  /\ Up /\ mk[a] = "write"
  /\ \/ /\ marker' = [marker EXCEPT ![Target(a)] = TRUE]
        /\ mk' = [mk EXCEPT ![a] = IF pauseOnDrain THEN "pause" ELSE "flip"]
        /\ UNCHANGED <<writeMu, failed>>
     \/ /\ mk' = [mk EXCEPT ![a] = "idle"]
        /\ writeMu' = Nobody
        /\ failed' = failed \cup {Target(a)}
        /\ UNCHANGED marker
  /\ UNCHANGED <<drain, tracker, turn, candidates, gate, row>>

\* store.PauseGate refuses a session whose primary row does not exist yet;
\* a failure is logged and the mark stands.
MarkPause(a) ==
  /\ Up /\ mk[a] = "pause"
  /\ \/ /\ row[Target(a)]
        /\ gate' = [gate EXCEPT ![Target(a)] = TRUE]
        /\ UNCHANGED failed
     \/ /\ ~row[Target(a)]
        /\ UNCHANGED <<gate, failed>>
     \/ /\ failed' = failed \cup {Target(a)}
        /\ UNCHANGED gate
  /\ mk' = [mk EXCEPT ![a] = "flip"]
  /\ UNCHANGED <<drain, tracker, writeMu, turn, candidates, marker, row>>

MarkFlip(a) ==
  /\ Up /\ mk[a] = "flip"
  /\ marked' = [marked EXCEPT ![Target(a)] = TRUE]
  /\ mk' = [mk EXCEPT ![a] = "idle"]
  /\ writeMu' = Nobody
  /\ UNCHANGED <<drain, draining, frozen, cancelled, pauseOnDrain, toMark, cur,
                 active, turn, candidates, disk>>

Mark(a) == MarkEnter(a) \/ MarkWrite(a) \/ MarkPause(a) \/ MarkFlip(a)

-----------------------------------------------------------------------------
\* A turn.

Goto(t, p) == pc' = [pc EXCEPT ![t] = p]

\* Every launcher refuses once the tracker is draining.  The boot pass is one
\* goroutine over the scanned candidates.
Accept(t) ==
  /\ Up /\ pc[t] = "new" /\ ~draining
  /\ \/ /\ Kind[t] # "boot"
        /\ Goto(t, "queued")
     \/ /\ Kind[t] = "boot" /\ SessionOf[t] \in candidates
        /\ \A u \in BootTurns : ~InFlight(u)
        /\ candidates' = candidates \ {SessionOf[t]}
        /\ Goto(t, "decide")
  /\ Kind[t] # "boot" => UNCHANGED candidates
  /\ UNCHANGED <<drain, tracker, writeMu, mk, ok, lock, disk>>

\* resumeOne before the turn: skip the session, or clear a marker left on a
\* session whose log already ends on a model turn, or drive a turn.
BootDecide(t) ==
  /\ Up /\ pc[t] = "decide"
  /\ \/ Goto(t, "queued") /\ UNCHANGED marker
     \/ Goto(t, "done") /\ UNCHANGED marker
     \/ Goto(t, "done") /\ marker' = [marker EXCEPT ![SessionOf[t]] = FALSE]
  /\ UNCHANGED <<drain, tracker, writeMu, mk, ok, lock, candidates, gate, row, failed>>

\* Mutant: same-session turns are not serialised.
LockShared(t) ==
  /\ Up /\ pc[t] = "queued"
  /\ lock' = [lock EXCEPT ![SessionOf[t]] = t]
  /\ Goto(t, "locked")
  /\ UNCHANGED <<drain, tracker, writeMu, mk, ok, candidates, disk>>

\* sessionTurnLocks.lock: take the slot, or give up when the context ends.
Lock(t) ==
  /\ Up /\ pc[t] = "queued"
  /\ \/ /\ lock[SessionOf[t]] = Nobody
        /\ lock' = [lock EXCEPT ![SessionOf[t]] = t]
        /\ Goto(t, "locked")
     \/ /\ cancelled
        /\ Goto(t, "done")
        /\ UNCHANGED lock
  /\ UNCHANGED <<drain, tracker, writeMu, mk, ok, candidates, disk>>

\* Mutant: the deferred end() also runs for a turn that never began.
RefuseEnds(t) ==
  /\ Up /\ pc[t] = "locked"
  /\ lock' = [lock EXCEPT ![SessionOf[t]] = Nobody]
  /\ active' = [active EXCEPT ![SessionOf[t]] = @ - 1]
  /\ Goto(t, "done")
  /\ UNCHANGED <<drain, draining, frozen, cancelled, pauseOnDrain, toMark, cur,
                 marked, writeMu, mk, ok, candidates, disk>>

\* admitTurn or preTurn refuses: the slot is released, nothing was begun.
Refuse(t) ==
  /\ Up /\ pc[t] = "locked"
  /\ lock' = [lock EXCEPT ![SessionOf[t]] = Nobody]
  /\ Goto(t, "done")
  /\ UNCHANGED <<drain, tracker, writeMu, mk, ok, candidates, disk>>

\* Mutant: a turn that starts during the drain is not marked.
BeginUnmarked(t) ==
  /\ Up /\ pc[t] = "locked"
  /\ Kind[t] = "boot" => marker[SessionOf[t]] /\ ~gate[SessionOf[t]]
  /\ active' = [active EXCEPT ![SessionOf[t]] = @ + 1]
  /\ Goto(t, "starting")
  /\ UNCHANGED <<drain, draining, frozen, cancelled, pauseOnDrain, toMark, cur,
                 marked, writeMu, mk, ok, lock, candidates, disk>>

\* Admitted.  A boot turn re-checks that its session is still interrupted and
\* not paused.  The chokepoint's own read fails open, so for the others the
\* pause is no guard here (SessionOps models that check).
Begin(t) ==
  /\ Up /\ pc[t] = "locked"
  /\ Kind[t] = "boot" => marker[SessionOf[t]] /\ ~gate[SessionOf[t]]
  /\ active' = [active EXCEPT ![SessionOf[t]] = @ + 1]
  /\ mk' = [mk EXCEPT ![t] = IF draining /\ ~frozen /\ ~marked[SessionOf[t]]
                             THEN "want" ELSE "idle"]
  /\ Goto(t, "starting")
  /\ UNCHANGED <<drain, draining, frozen, cancelled, pauseOnDrain, toMark, cur,
                 marked, writeMu, ok, lock, candidates, disk>>

\* begin() has returned; the runner creates the session row on first use.
Run(t) ==
  /\ Up /\ pc[t] = "starting" /\ mk[t] = "idle"
  /\ row' = [row EXCEPT ![SessionOf[t]] = TRUE]
  /\ Goto(t, "running")
  /\ UNCHANGED <<drain, tracker, writeMu, mk, ok, lock, candidates, marker, gate, failed>>

\* Mutant (#60): the clear is attempted only when marked is already set.
EndIfMarked(t) ==
  /\ Up /\ pc[t] = "running"
  /\ active' = [active EXCEPT ![SessionOf[t]] = @ - 1]
  /\ Goto(t, IF draining /\ ~frozen /\ marked[SessionOf[t]] THEN "clear" ELSE "unlock")
  /\ UNCHANGED <<drain, draining, frozen, cancelled, pauseOnDrain, toMark, cur,
                 marked, writeMu, mk, ok, lock, candidates, disk>>

\* The stream ends and tracker.end takes the turn out of the bracket.
End(t) ==
  /\ Up /\ pc[t] = "running"
  /\ active' = [active EXCEPT ![SessionOf[t]] = @ - 1]
  /\ ok' \in {ok} \cup {[ok EXCEPT ![u] = TRUE] : u \in {t} \cap BootTurns}
  /\ Goto(t, IF draining /\ ~frozen /\ active'[SessionOf[t]] = 0
             THEN "clear" ELSE "unlock")
  /\ UNCHANGED <<drain, draining, frozen, cancelled, pauseOnDrain, toMark, cur,
                 marked, writeMu, mk, lock, candidates, disk>>

\* clear(): queue behind writeMu, re-check under mu.
ClearEnter(t) ==
  /\ Up /\ pc[t] = "clear" /\ writeMu = Nobody
  /\ LET s == SessionOf[t]
         skip == ~marked[s] \/ frozen \/ active[s] > 0
     IN  /\ Goto(t, IF skip THEN "unlock" ELSE "clearwrite")
         /\ writeMu' = IF skip THEN Nobody ELSE t
  /\ UNCHANGED <<drain, tracker, mk, ok, lock, candidates, disk>>

ClearWrite(t) ==
  /\ Up /\ pc[t] = "clearwrite"
  /\ \/ /\ marker' = [marker EXCEPT ![SessionOf[t]] = FALSE]
        /\ Goto(t, "clearflip")
        /\ UNCHANGED <<writeMu, failed>>
     \/ /\ failed' = failed \cup {SessionOf[t]}
        /\ writeMu' = Nobody
        /\ Goto(t, "unlock")
        /\ UNCHANGED marker
  /\ UNCHANGED <<drain, tracker, mk, ok, lock, candidates, gate, row>>

ClearFlip(t) ==
  /\ Up /\ pc[t] = "clearflip"
  /\ marked' = [marked EXCEPT ![SessionOf[t]] = FALSE]
  /\ writeMu' = Nobody
  /\ Goto(t, "unlock")
  /\ UNCHANGED <<drain, draining, frozen, cancelled, pauseOnDrain, toMark, cur,
                 active, mk, ok, lock, candidates, disk>>

Unlock(t) ==
  /\ Up /\ pc[t] = "unlock"
  /\ lock' = [lock EXCEPT ![SessionOf[t]] = Nobody]
  /\ Goto(t, IF Kind[t] = "boot" /\ ok[t] THEN "bootclear" ELSE "done")
  /\ UNCHANGED <<drain, tracker, writeMu, mk, ok, candidates, disk>>

\* resumeOne after runTurnPre returned nil: the slot is already released.
BootClear(t) ==
  /\ Up /\ pc[t] = "bootclear"
  /\ \/ marker' = [marker EXCEPT ![SessionOf[t]] = FALSE] /\ UNCHANGED failed
     \/ failed' = failed \cup {SessionOf[t]} /\ UNCHANGED marker
  /\ Goto(t, "done")
  /\ UNCHANGED <<drain, tracker, writeMu, mk, ok, lock, candidates, gate, row>>

Turn(t) ==
  \/ Accept(t) \/ BootDecide(t) \/ Lock(t) \/ Refuse(t) \/ Begin(t) \/ Run(t)
  \/ End(t) \/ ClearEnter(t) \/ ClearWrite(t) \/ ClearFlip(t) \/ Unlock(t)
  \/ BootClear(t)

-----------------------------------------------------------------------------
\* The drain goroutine.

\* The signal context ends, by SIGTERM or by planStop and stop; beginDrain
\* flips the tracker and snapshots the sessions with a turn in flight.
BeginDrain ==
  /\ phase = "serving"
  /\ pauseOnDrain' \in BOOLEAN
  /\ draining' = TRUE
  /\ toMark' = {s \in Sessions : active[s] > 0}
  /\ phase' = "premark"
  /\ UNCHANGED <<deadline, frozen, cancelled, cur, active, marked, writeMu, mk,
                 turn, candidates, disk>>

\* The drain context expires.
Deadline ==
  /\ Up /\ draining /\ ~deadline
  /\ deadline' = TRUE
  /\ UNCHANGED <<phase, tracker, writeMu, mk, turn, candidates, disk>>

PremarkNext ==
  /\ phase = "premark" /\ mk[Drainer] = "idle" /\ ~deadline
  /\ \E s \in toMark :
       /\ toMark' = toMark \ {s}
       /\ cur' = s
  /\ mk' = [mk EXCEPT ![Drainer] = "want"]
  /\ UNCHANGED <<drain, draining, frozen, cancelled, pauseOnDrain, active, marked,
                 writeMu, turn, candidates, disk>>

PremarkDone ==
  /\ phase = "premark" /\ mk[Drainer] = "idle"
  /\ toMark = {} \/ deadline
  /\ phase' = "handlers"
  /\ UNCHANGED <<deadline, tracker, writeMu, mk, turn, candidates, disk>>

\* Mutant: the wait for the handlers and the boot pass ignores the window.
HandlersDoneUnbounded ==
  /\ phase = "handlers"
  /\ \A t \in Turns : Kind[t] # "attach" => ~InFlight(t)
  /\ phase' = "wait"
  /\ UNCHANGED <<deadline, tracker, writeMu, mk, turn, candidates, disk>>

\* srv.Shutdown waits for the inject handlers, then bootDone is awaited.
HandlersDone ==
  /\ phase = "handlers"
  /\ deadline \/ \A t \in Turns : Kind[t] # "attach" => ~InFlight(t)
  /\ phase' = "wait"
  /\ UNCHANGED <<deadline, tracker, writeMu, mk, turn, candidates, disk>>

Quiet == \A s \in Sessions : active[s] = 0

\* tracker.wait samples no active session: a clean drain, exit 0.
WaitClean ==
  /\ phase = "wait" /\ Quiet
  /\ phase' = "exit0"
  /\ UNCHANGED <<deadline, tracker, writeMu, mk, turn, candidates, disk>>

WaitExpired ==
  /\ phase = "wait" /\ deadline /\ ~Quiet
  /\ phase' = "freeze"
  /\ UNCHANGED <<deadline, tracker, writeMu, mk, turn, candidates, disk>>

Freeze ==
  /\ phase = "freeze"
  /\ frozen' = TRUE
  /\ phase' = "cancel"
  /\ UNCHANGED <<deadline, draining, cancelled, pauseOnDrain, toMark, cur, active,
                 marked, writeMu, mk, turn, candidates, disk>>

CancelTurns ==
  /\ phase = "cancel"
  /\ cancelled' = TRUE
  /\ phase' = "grace"
  /\ UNCHANGED <<deadline, draining, frozen, pauseOnDrain, toMark, cur, active,
                 marked, writeMu, mk, turn, candidates, disk>>

\* The grace wait ends, early or by its own timeout; exit 3.
GraceOver ==
  /\ phase = "grace"
  /\ phase' = "exit3"
  /\ UNCHANGED <<deadline, tracker, writeMu, mk, turn, candidates, disk>>

Drain ==
  \/ BeginDrain \/ PremarkNext \/ PremarkDone \/ HandlersDone \/ WaitClean
  \/ WaitExpired \/ Freeze \/ CancelTurns \/ GraceOver

Next ==
  \/ Drain \/ Deadline
  \/ \E a \in Actors : Mark(a)
  \/ \E t \in Turns : Turn(t)

\* The daemon's goroutines keep running and the drain context does expire; a
\* turn owes no progress while it runs (End) and nobody has to stop the daemon.
DrainStep ==
  PremarkNext \/ PremarkDone \/ HandlersDone \/ WaitClean \/ WaitExpired
    \/ Freeze \/ CancelTurns \/ GraceOver
Cleanup(t) == Mark(t) \/ ClearWrite(t) \/ ClearFlip(t)
Fairness ==
  /\ WF_vars(Deadline) /\ WF_vars(DrainStep) /\ WF_vars(Mark(Drainer))
  /\ \A t \in Turns : WF_vars(Cleanup(t))

Spec == Init /\ [][Next]_vars
FairSpec == Spec /\ Fairness

-----------------------------------------------------------------------------
\* Properties.

\* survivors() and the drain-expiry warning: a session with a turn in flight
\* that the tracker counts as marked does carry the marker on disk.
SurvivorsMarkedOnDisk ==
  \A s \in Sessions : active[s] > 0 /\ marked[s] => marker[s]

\* The pre-mark contract: once the pass over the in-flight sessions is through
\* and the window is still open, every turn past begin() has its marker on
\* disk, whether it started before the drain or during it, unless a store
\* write for that session failed.  A SIGKILL from here on loses nothing.
RunningIsMarkedOnDisk ==
  \A t \in Turns :
    (phase \in {"handlers", "wait"} /\ ~deadline /\ pc[t] = "running"
       /\ SessionOf[t] \notin failed) => marker[SessionOf[t]]

\* No write ever takes the marker away from a session with a turn in flight:
\* clear() belongs to the turn that just ended, never to the one after it.
NoClearUnderATurn ==
  [][\A s \in Sessions : marker[s] /\ ~marker'[s] => active[s] = 0]_vars

\* Exit 0 means "drain complete; all in-flight turns finished": no session is
\* left marked by this process unless a store write for it failed.
CleanExitLeavesNoMark ==
  phase = "exit0" /\ ~deadline =>
    \A s \in Sessions : marker[s] => s \in Leftover \cup failed

PausedWithMark(S) ==
  \A s \in S : draining /\ pauseOnDrain /\ marked[s] => gate[s] \/ s \in failed

\* A planned stop with pause-sessions: every session with a row that the drain
\* marked is also gate-paused, late starters included, unless the store failed.
KnownPausedWithMark == PausedWithMark(Known)

\* While a drain goes on every running turn is marked on disk, a clean exit leaves
\* no mark behind, and a planned stop pauses what it marked.
MarksTellTheTruth == RunningIsMarkedOnDisk /\ CleanExitLeavesNoMark /\ KnownPausedWithMark

\* A drain ends: no interleaving of marks, clears and waits wedges it, even
\* though a turn in flight may never finish.
NoDrain == draining => ~Up
DrainEnds == []<>NoDrain

=============================================================================
