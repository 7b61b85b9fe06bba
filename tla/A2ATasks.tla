------------------------------- MODULE A2ATasks -------------------------------
(***************************************************************************)
(* The A2A server (internal/a2a/server.go, internal/cli/a2a.go) on one     *)
(* task: message/send, message/stream, tasks/get and tasks/cancel over the *)
(* in-process task registry, the session's turn lock and its durable       *)
(* state, in a daemon that drains and restarts.                            *)
(*                                                                         *)
(* A step is one critical section of taskRegistry.mu, one call of the      *)
(* session store, or one wait for the turn.                                *)
(***************************************************************************)
EXTENDS Naturals

CONSTANTS
  Calls,     \* JSON-RPC calls that name the task
  MaxBoots,  \* bound on the processes
  None

VARIABLES
  task,      \* taskRegistry.byID for the task
  session,   \* the session's durable state
  holder,    \* the call whose turn holds the session's lock
  closing,   \* tracker.isDraining
  boots,
  call,      \* the calls
  canceled   \* history: this process answered a tasks/cancel "canceled"

a2aVars == <<task, session, holder, closing, boots, call, canceled>>
process == <<holder, closing, boots>>

Terminal == {"completed", "failed", "canceled"}
States == Terminal \cup {"working", "input-required"}
\* A call: its verb ("send" for both message verbs), its step, what runTurnPre came to (or what was classified),
\* and its answer: a state, or a JSON-RPC error.
Fresh == [verb |-> "send", pc |-> "idle", got |-> "none", told |-> "nothing"]
InFlight(c) == call[c].verb = "send" /\ call[c].pc \notin {"idle", "done"}

TypeOK ==
  /\ task \in States \cup {None}
  /\ session \in [row : BOOLEAN, aborted : BOOLEAN, pending : BOOLEAN]
  /\ holder \in Calls \cup {None} /\ closing \in BOOLEAN
  /\ boots \in 1..MaxBoots /\ canceled \in BOOLEAN
  /\ call \in [Calls -> [verb : {"send", "cancel"},
                         pc : {"idle", "lock", "turn", "classify", "settle", "reply", "abort", "report", "done"},
                         got : {"none", "ok", "pause", "conflict", "unavailable", "error"} \cup States,
                         told : States \cup {"nothing", "error"}]]

Init ==
  /\ task = None /\ holder = None /\ closing = FALSE
  /\ boots = 1 /\ canceled = FALSE
  /\ session = [row |-> FALSE, aborted |-> FALSE, pending |-> FALSE]
  /\ call = [c \in Calls |-> Fresh]

Step(c, pc, got) == call' = [call EXCEPT ![c].pc = pc, ![c].got = got]
Tell(c, what) == call' = [call EXCEPT ![c] = [Fresh EXCEPT !.pc = "done", !.told = what]]

----------------------------------------------------------------------------
\* taskRegistry: the last write wins, except that nothing replaces "canceled".
recordLast(state) == task' = state
record(state) == task' = IF task = "canceled" /\ state # "canceled" THEN task ELSE state

\* Only a marker of work in flight is dropped.
clearInFlightLazily == task' = task
clearInFlight == task' = IF task \in Terminal THEN task ELSE None

\* mapTranscriptState: the event log never proves a task completed.
mapTranscriptState ==
  IF session.aborted THEN "canceled" ELSE IF session.pending THEN "input-required" ELSE "working"

\* GetTask: the registry, then the transcript.
GetTask == IF task # None THEN task ELSE IF session.row THEN mapTranscriptState ELSE "not found"

\* handleTasksGet, the scope refusal and the store's failure included.
handleTasksGet(c) ==
  /\ call[c].pc = "idle"
  /\ \E what \in {GetTask, "error"} :
       Tell(c, IF what = "not found" THEN "error" ELSE what)
  /\ UNCHANGED <<task, session, process, canceled>>

\* handleMessageSend and handleMessageStream up to runTurnPre.  The first message
\* mints the task, a later one must find it (resolveSendWorkload); the drain gate
\* refuses; otherwise the task is marked as working.
runTask(c) ==
  /\ call[c].pc = "idle"
  /\ \/ /\ GetTask = "not found" => \A d \in Calls : ~InFlight(d)
        /\ ~closing /\ record("working") /\ Step(c, "lock", "none")
     \/ Tell(c, "error") /\ UNCHANGED task
  /\ UNCHANGED <<session, process, canceled>>

\* runTurnPre: the wait for the turn lock ends with the lock, with the drain, or
\* with the caller's context; under the lock the chokepoint may refuse (aborted,
\* gate-paused, over budget) or, on a failed read, not; the runner creates a
\* missing row.
runTurnPre(c) ==
  /\ call[c].pc = "lock"
  /\ \/ /\ holder = None
        /\ \/ /\ holder' = c /\ Step(c, "turn", "none")
              /\ session' = [session EXCEPT !.row = TRUE, !.pending = FALSE]
           \/ Step(c, "classify", "conflict") /\ UNCHANGED <<session, holder>>
     \/ closing /\ Step(c, "classify", "unavailable") /\ UNCHANGED <<session, holder>>
     \/ Step(c, "classify", "error") /\ UNCHANGED <<session, holder>>
  /\ UNCHANGED <<task, closing, boots, canceled>>

\* The turn answers, parks on an interrupt, or fails; a sweep, a stream whose write
\* failed and the wallclock ceiling all end it with an error, and a sweep may still
\* come after the answer.
turnEnds(c) ==
  /\ call[c].pc = "turn" /\ holder' = None
  /\ \/ Step(c, "classify", "ok") /\ UNCHANGED session
     \/ Step(c, "classify", "pause") /\ session' = [session EXCEPT !.pending = TRUE]
     \/ Step(c, "classify", "error") /\ UNCHANGED session
  /\ UNCHANGED <<task, closing, boots, canceled>>

\* drainErr and classifyTurn.
classifyTurn(c) ==
  /\ call[c].pc = "classify"
  /\ \E readable \in BOOLEAN :
       Step(c, "settle",
            CASE call[c].got = "unavailable" -> "unavailable"
              [] call[c].got = "ok" -> "completed"
              [] call[c].got = "pause" -> "input-required"
              [] call[c].got = "conflict" /\ readable -> mapTranscriptState
              [] OTHER -> "failed")
  /\ UNCHANGED <<task, session, process, canceled>>

\* The registry's write: a drain refusal and a non-terminal state drop the marker.
settle(c) ==
  /\ call[c].pc = "settle"
  /\ IF call[c].got \in Terminal THEN record(call[c].got) ELSE clearInFlight
  /\ IF call[c].got = "unavailable" THEN Tell(c, "error") ELSE Step(c, "reply", call[c].got)
  /\ UNCHANGED <<session, process, canceled>>

\* The registry's view if it has one; the local snapshot otherwise.
reply(c) ==
  /\ call[c].pc = "reply"
  /\ Tell(c, IF task # None THEN task ELSE call[c].got)
  /\ UNCHANGED <<task, session, process, canceled>>

----------------------------------------------------------------------------
\* handleTasksCancel's lookup and scope check.
handleTasksCancel(c) ==
  /\ call[c].pc = "idle"
  /\ \/ GetTask # "not found" /\ call' = [call EXCEPT ![c].verb = "cancel", ![c].pc = "abort"]
     \/ Tell(c, "error")
  /\ UNCHANGED <<task, session, process, canceled>>

\* CancelTask: recordAbort, the durable truth, and the sweep of the turn in flight
\* (which turnEnds may then end with an error); or its failure, which a session
\* without a row yet is too.
recordAbort(c) ==
  /\ call[c].pc = "abort"
  /\ \/ session.row /\ session' = [session EXCEPT !.aborted = TRUE] /\
          Step(c, "report", "none")
     \/ Tell(c, "error") /\ UNCHANGED session
  /\ UNCHANGED <<task, process, canceled>>

\* The state re-read (canceled when the read fails), recorded and answered.
CancelTask(c) ==
  /\ call[c].pc = "report"
  /\ \E state \in {mapTranscriptState, "canceled"} :
       record(state) /\ Tell(c, state) /\ canceled' = (canceled \/ state = "canceled")
  /\ UNCHANGED <<session, process>>

----------------------------------------------------------------------------
\* An operator at another door answers the interrupt.
Operator ==
  /\ session.pending /\ holder = None /\ session' = [session EXCEPT !.pending = FALSE]
  /\ UNCHANGED <<task, process, call, canceled>>

BeginDrain == ~closing /\ closing' = TRUE /\ UNCHANGED <<task, session, holder, boots, call, canceled>>

\* The process ends: the registry, the turns and the calls die with it.
Restart ==
  /\ boots < MaxBoots /\ boots' = boots + 1
  /\ task' = None /\ holder' = None /\ closing' = FALSE /\ canceled' = FALSE
  /\ call' = [c \in Calls |-> Fresh]
  /\ UNCHANGED session

Next ==
  \/ \E c \in Calls :
       \/ handleTasksGet(c) \/ runTask(c) \/ runTurnPre(c) \/ turnEnds(c) \/ classifyTurn(c)
       \/ settle(c) \/ reply(c) \/ handleTasksCancel(c) \/ recordAbort(c)
       \/ CancelTask(c)
  \/ Operator \/ BeginDrain \/ Restart

Spec == Init /\ [][Next]_a2aVars

----------------------------------------------------------------------------
\* Cancel wins: once a tasks/cancel has been answered "canceled", every later answer
\* of the same process that names a state of the task says "canceled", whatever turn
\* was finishing or was started afterwards (record, GetTask, runTask).  A restart
\* forgets the registry: a message to the aborted task then marks it working again
\* until the chokepoint has refused it.
SaysCanceled ==
  canceled => \A c \in Calls :
    (call[c].told # call'[c].told /\ call'[c].told \in States) => call'[c].told = "canceled"
CancelWins == [][SaysCanceled]_a2aVars

\* The registry reports "working" only while a message of the task is in flight: a
\* refusal by the drain, a pause or an abort leaves no marker that would shadow the
\* transcript for good (clearInFlight).
NoPhantomWork == task = "working" => \E c \in Calls : InFlight(c)

\* A message whose turn completed is answered "completed", or "canceled" when a
\* cancel won: "On the normal terminal path the registry holds exactly what we just
\* wrote" (runTask).  The code does not keep this: a message accepted between the
\* write and the reply puts the task back to "working".
ReplyIsOwnOutcome ==
  [][\A c \in Calls : (call[c].pc = "reply" /\ call[c].got = "completed" /\ call'[c].pc = "done")
                        => call'[c].told \in {"completed", "canceled"}]_a2aVars
===============================================================================
