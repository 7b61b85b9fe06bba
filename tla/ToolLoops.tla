------------------------------ MODULE ToolLoops ------------------------------
(***************************************************************************)
(* What notices a model that goes round in circles: the session's watchdog *)
(* (internal/watchdog), fed from the event stream across turns, and the    *)
(* in-turn ledger TurnLoop behind the loop guard plugin                    *)
(* (internal/compose/loopguard.go), which puts a note on a repeated call's *)
(* result and ends the turn when the model goes on.  A response may hold   *)
(* several calls; the runner makes them on goroutines of their own.        *)
(***************************************************************************)
EXTENDS Naturals, Sequences, FiniteSets

CONSTANTS
  Calls,       \* what a call can be, up to equivalence of its arguments
  Results,     \* digests of results
  Threshold,   \* DefaultRepeatThreshold
  StopAfter,   \* DefaultStopAfterNote
  MaxPeriod, Cycles, Streak, \* the other two signals
  MaxPending,  \* MaxPendingFeedback
  MaxModelCalls, \* budget.max_model_calls_per_turn
  Width,       \* calls of one response (bound)
  MaxCalls,    \* calls of a behaviour (bound)
  Modes,       \* watchdog postures
  None

VARIABLES
  mode,
  turn,        \* "idle", "on", "stopped", "capped" or "halted"
  calls,       \* model calls of this turn
  batch,       \* the response's calls: a sequence of [call, pc, note]
  loop,        \* TurnLoop's entry of the turn: [last, result, length]
  told,        \* the model has read a note about the run it is in
  seen,        \* results of the run so far, "error" for a call that failed
  hist,        \* every call observed
  repeat,      \* RepeatedToolCallSignal: [last, run, tripped]
  cycle,       \* AlternatingCycleSignal: [history, tripped]
  failure,     \* ToolFailureStreakSignal: [streak, tripped]
  fired,       \* per observed call the loop signals that alerted
  pending      \* Feedback's queue

vars == <<mode, turn, calls, batch, loop, told, seen, hist, repeat, cycle, failure, fired, pending>>

Feeds == mode \in {"feedback", "enforce"}
NoRun == [last |-> None, result |-> None, length |-> 0]
CheckedPCs == {"new", "running", "refused", "done", "failed"}

TypeOK ==
  /\ mode \in Modes /\ turn \in {"idle", "on", "stopped", "capped", "halted"} /\ calls \in 0 .. MaxModelCalls
  /\ \A i \in 1 .. Len(batch) : batch[i].call \in Calls /\ batch[i].pc \in CheckedPCs /\ batch[i].note \in BOOLEAN
  /\ loop.length \in Nat /\ told \in BOOLEAN /\ seen \subseteq Results \cup {"error"}
  /\ Len(hist) <= MaxCalls /\ Len(fired) = Len(hist) /\ Len(pending) <= MaxPending

-----------------------------------------------------------------------------
(* The signals: each takes one call and gives its new state and whether it alerts. *)

Last(s, n) == SubSeq(s, Len(s) - n + 1, Len(s))
Capped(s, n) == IF Len(s) > n THEN Last(s, n) ELSE s
\* Mutant: a broken run keeps its alert.
ObserveRepeatKeeping(s, c) ==
  LET same == s.run > 0 /\ s.last = c
      run == IF same THEN s.run + 1 ELSE 1
  IN [last |-> c, run |-> run, tripped |-> s.tripped \/ run >= Threshold]

\* One alert per run.
ObserveRepeat(s, c) ==
  LET same == s.run > 0 /\ s.last = c
      run == IF same THEN s.run + 1 ELSE 1
  IN [last |-> c, run |-> run, tripped |-> (same /\ s.tripped) \/ run >= Threshold]
RepeatAlerts(s, t) == t.tripped /\ ~s.tripped

blockRepeats(tail, p) == \A i \in p + 1 .. Len(tail) : tail[i] = tail[i - p]
uniform(block) == \A i \in 1 .. Len(block) : block[i] = block[1]

\* The shortest period, 0 for none.
detectCycle(h) ==
  LET fits == {p \in 2 .. MaxPeriod : Len(h) >= p * Cycles /\ blockRepeats(Last(h, p * Cycles), p)
                                      /\ ~uniform(Last(h, p))}
  IN IF fits = {} THEN 0 ELSE CHOOSE p \in fits : \A q \in fits : p <= q

\* All rotations of the repeated block: what stays the same from lap to lap.
canonicalRotation(block) ==
  {SubSeq(block, i, Len(block)) \o SubSeq(block, 1, i - 1) : i \in 1 .. Len(block)}

ObserveCycle(s, c) ==
  LET h == Capped(Append(s.history, c), MaxPeriod * Cycles)
      p == detectCycle(h)
  IN [history |-> h, tripped |-> IF p = 0 THEN None ELSE canonicalRotation(Last(h, p))]
CycleAlerts(s, t) == t.tripped # None /\ t.tripped # s.tripped

ObserveFailure(s, failed) ==
  IF ~failed THEN [streak |-> 0, tripped |-> FALSE]
  ELSE [streak |-> s.streak + 1, tripped |-> s.tripped \/ s.streak + 1 >= Streak]

\* Queue: feedback keeps the newest.
Queued(alerts) == IF Feeds THEN Capped(pending \o alerts, MaxPending) ELSE pending

\* The calls of one event, one after the other: the signals' states and what each raised.
Observed[cs \in UNION {[1 .. n -> Calls] : n \in 0 .. Width}] ==
  IF cs = <<>> THEN [repeat |-> repeat, cycle |-> cycle, fired |-> <<>>]
  ELSE LET before == Observed[SubSeq(cs, 1, Len(cs) - 1)]
           r == ObserveRepeat(before.repeat, cs[Len(cs)])
           c == ObserveCycle(before.cycle, cs[Len(cs)])
       IN [repeat |-> r, cycle |-> c,
           fired |-> Append(before.fired,
                       (IF RepeatAlerts(before.repeat, r) THEN {"repeat"} ELSE {})
                       \cup (IF CycleAlerts(before.cycle, c) THEN {"cycle"} ELSE {}))]
Alerts(raised) == LET some == SelectSeq(raised, LAMBDA x : x # {}) IN some

-----------------------------------------------------------------------------
(* A turn. *)

\* prependFeedback drains what earlier turns left.
StartTurn ==
  /\ turn \in {"idle", "stopped", "capped"} /\ Len(hist) < MaxCalls
  /\ turn' = "on" /\ pending' = <<>> /\ calls' = 0 /\ batch' = <<>> /\ loop' = NoRun /\ told' = FALSE /\ seen' = {}
  /\ UNCHANGED <<mode, hist, repeat, cycle, failure, fired>>

\* The model is called unless the turn has had its calls, and answers with some
\* tool calls; their event passes the watchdog before the tools run.  Under enforce
\* an alert of a loop signal halts the session.
Respond ==
  /\ turn = "on" /\ batch = <<>>
  /\ IF calls >= MaxModelCalls
     THEN turn' = "capped" /\ UNCHANGED <<calls, batch, hist, repeat, cycle, fired, pending>>
     ELSE \E n \in 1 .. Width : \E cs \in [1 .. n -> Calls] :
            LET o == Observed[cs] IN
            /\ Len(hist) + n <= MaxCalls /\ calls' = calls + 1
            /\ hist' = hist \o cs /\ repeat' = o.repeat /\ cycle' = o.cycle /\ fired' = fired \o o.fired
            /\ pending' = Queued(Alerts(o.fired))
            /\ batch' = [i \in 1 .. n |-> [call |-> cs[i], pc |-> "new", note |-> FALSE]]
            /\ turn' = IF mode = "enforce" /\ Alerts(o.fired) # <<>> THEN "halted" ELSE turn
  /\ UNCHANGED <<mode, loop, told, seen, failure>>

\* Mutant: the turn ends one call early, where the last note is due.
BeforeHasty(c) ==
  LET run == IF loop.length > 0 /\ loop.last = c THEN [loop EXCEPT !.length = @ + 1]
             ELSE [last |-> c, result |-> None, length |-> 1]
  IN [run |-> run, stop |-> run.length >= Threshold + StopAfter - 1, note |-> run.length >= Threshold]

\* TurnLoop.Before.
Before(c) ==
  LET run == IF loop.length > 0 /\ loop.last = c THEN [loop EXCEPT !.length = @ + 1]
             ELSE [last |-> c, result |-> None, length |-> 1]
  IN [run |-> run, stop |-> run.length >= Threshold + StopAfter, note |-> run.length >= Threshold]

\* The guard's before-tool callback; without a feeding posture it is not there.
beforeTool(i) ==
  /\ turn \in {"on", "stopped"} /\ batch[i].pc = "new"
  /\ IF ~Feeds THEN batch' = [batch EXCEPT ![i].pc = "running"] /\ UNCHANGED <<turn, loop, told, seen>>
     ELSE LET b == Before(batch[i].call) IN
          /\ loop' = b.run
          /\ batch' = [batch EXCEPT ![i].pc = IF b.stop THEN "refused" ELSE "running", ![i].note = b.note /\ ~b.stop]
          /\ turn' = IF b.stop THEN "stopped" ELSE turn
          /\ told' = (told /\ b.run.length > 1) /\ seen' = (IF b.run.length > 1 THEN seen ELSE {})
  /\ UNCHANGED <<mode, calls, hist, repeat, cycle, failure, fired, pending>>

\* Mutant: a result that changed is not looked at.
AfterBlind(r) == [run |-> [loop EXCEPT !.result = r], keep |-> TRUE]

\* TurnLoop.After: a result that differs starts a new run and loses the note.
After(r) ==
  IF loop.result = None THEN [run |-> [loop EXCEPT !.result = r], keep |-> TRUE]
  ELSE IF loop.result # r THEN [run |-> [loop EXCEPT !.result = r, !.length = 1], keep |-> FALSE]
  ELSE [run |-> loop, keep |-> TRUE]

\* The tool answers: an error passes the guard by, and carries no note.
afterTool(i) ==
  /\ batch[i].pc = "running"
  /\ \/ batch' = [batch EXCEPT ![i].pc = "failed", ![i].note = FALSE]
        /\ seen' = seen \cup {"error"} /\ UNCHANGED <<loop, told>>
     \/ \E r \in Results :
          IF ~Feeds THEN batch' = [batch EXCEPT ![i].pc = "done"] /\ UNCHANGED <<loop, told, seen>>
          ELSE LET a == After(r) IN
               /\ loop' = a.run /\ batch' = [batch EXCEPT ![i].pc = "done", ![i].note = @ /\ a.keep]
               /\ told' = (told /\ a.keep)
               /\ seen' = IF a.keep THEN seen \cup {r} ELSE {r}
  /\ UNCHANGED <<mode, turn, calls, hist, repeat, cycle, failure, fired, pending>>

FailureAfter[n \in 0 .. Width] ==
  IF n = 0 THEN failure ELSE ObserveFailure(FailureAfter[n - 1], batch[n].pc = "failed")

\* The results' event passes the watchdog, and a turn that goes on reads the notes.
Gather ==
  /\ batch # <<>> /\ \A i \in 1 .. Len(batch) : batch[i].pc \notin {"new", "running"}
  /\ LET f == FailureAfter[Len(batch)]
         alert == f.tripped /\ ~failure.tripped
     IN failure' = f /\ pending' = IF alert THEN Queued(<<{"failure"}>>) ELSE pending
  /\ told' = (told \/ \E i \in 1 .. Len(batch) : batch[i].note /\ batch[i].call = loop.last)
  /\ batch' = <<>>
  /\ UNCHANGED <<mode, turn, calls, loop, seen, hist, repeat, cycle, fired>>

\* The model has finished; AfterRun forgets the ledger.
FinishTurn ==
  /\ turn = "on" /\ batch = <<>> /\ calls > 0 /\ turn' = "idle"
  /\ loop' = NoRun /\ told' = FALSE /\ seen' = {}
  /\ UNCHANGED <<mode, calls, batch, hist, repeat, cycle, failure, fired, pending>>

Init ==
  /\ mode \in Modes /\ turn = "idle" /\ calls = 0 /\ batch = <<>> /\ loop = NoRun /\ told = FALSE /\ seen = {}
  /\ hist = <<>> /\ fired = <<>> /\ pending = <<>>
  /\ repeat = [last |-> None, run |-> 0, tripped |-> FALSE]
  /\ cycle = [history |-> <<>>, tripped |-> None] /\ failure = [streak |-> 0, tripped |-> FALSE]

Next ==
  \/ StartTurn \/ Respond \/ Gather \/ FinishTurn
  \/ \E i \in 1 .. Len(batch) : beforeTool(i) \/ afterTool(i)

Spec == Init /\ [][Next]_vars

-----------------------------------------------------------------------------
Stretch(i, j, p) == \A k \in i + p .. j : hist[k] = hist[k - p]
Alerted(kind, i, j) == Cardinality({k \in i .. j : kind \in fired[k]})

\* A stretch of one call as long as the threshold was alerted exactly once, at the
\* call that reached it, and so was one that laps through two calls or more:
\* whatever turns, batches and other calls came before (ObserveToolCall of the two
\* loop signals).
LoopAlertedOnce ==
  \A i, j \in 1 .. Len(hist) : i <= j =>
    /\ Stretch(i, j, 1) /\ (i > 1 => hist[i - 1] # hist[i]) /\ j - i + 1 >= Threshold
       => Alerted("repeat", i, j) = 1
    /\ \A p \in 2 .. MaxPeriod :
         /\ Stretch(i, j, p) /\ j - i + 1 >= p * Cycles
         /\ ~uniform(SubSeq(hist, i, i + p - 1))
         /\ i > 1 => hist[i - 1] # hist[i + p - 1]
         => Alerted("cycle", i, j) = 1

\* A turn is ended for a loop only when the model had read a note on this very run
\* before it asked again, unless no note could reach it: a call that failed carries
\* none, and a response of more than StopAfter calls was all asked for at once.
\* And every result of the run was the same: a poll whose answers change does not
\* end a turn (Before, After).
StopEarned ==
  turn = "on" /\ turn' = "stopped" =>
    /\ told \/ "error" \in seen \/ Len(batch) > StopAfter
    /\ Cardinality(seen \ {"error"}) <= 1
==============================================================================
