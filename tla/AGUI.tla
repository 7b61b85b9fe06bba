--------------------------------- MODULE AGUI ---------------------------------
(***************************************************************************)
(* The AG-UI surface (internal/agui, internal/cli/agui.go) on one thread:  *)
(* the HTTP handler, the bounded run queue, the resume that answers open   *)
(* interrupts, the translation of a turn's events into frames and the      *)
(* terminal frame.                                                         *)
(*                                                                         *)
(* A step is one critical section of aguiRunQueue.mu, one read of the      *)
(* session store, one event of the turn or one wait for the turn lock.     *)
(* Whatever another door does to the session (abort, pause, resume) is a   *)
(* step of its own.                                                        *)
(***************************************************************************)
EXTENDS Naturals, FiniteSets

CONSTANTS
  Runs,        \* POSTs to the thread's endpoint
  Depth,       \* agui.run_queue.depth
  Interrupts,  \* interrupt ids a turn may park on
  Authors,     \* agents whose events a turn carries
  None

VARIABLES
  queued,   \* aguiRunQueue.n for the session
  turn,     \* the run holding the session's turn lock
  refusing, \* tracker.isDraining
  thread,   \* the session's durable state
  run       \* the runs

aguiVars == <<queued, turn, refusing, thread, run>>

\* A run: its step, the interrupt it answers, its stream, the open step bracket,
\* em.interrupted, what runTurnPre returned and what the client was told.  A
\* refusal is an HTTP status, an ending the terminal frame of a stream.
Fresh == [pc |-> "idle", ans |-> None, stream |-> "none", step |-> None,
          parked |-> FALSE, err |-> "none", told |-> "nothing"]
Endings == {"success", "interrupt", "aborted", "internal"}

TypeOK ==
  /\ queued \in Nat /\ turn \in Runs \cup {None} /\ refusing \in BOOLEAN
  /\ thread \in [aborted : BOOLEAN, gate : BOOLEAN, open : SUBSET Interrupts]
  /\ run \in [Runs -> [pc : {"idle", "resume", "open", "lock", "turn", "classify", "done"},
                       ans : Interrupts \cup {None}, stream : {"none", "open", "retired"},
                       step : Authors \cup {None},
                       parked : BOOLEAN, err : {"none", "ok", "conflict", "other"},
                       told : Endings \cup {"nothing", "refused"}]]

Init ==
  /\ queued = 0 /\ turn = None /\ refusing = FALSE
  /\ thread \in [aborted : {FALSE}, gate : {FALSE}, open : {o \in SUBSET Interrupts : Cardinality(o) <= 1}]
  /\ run = [r \in Runs |-> Fresh]

Set(r, fields) == run' = [run EXCEPT ![r] = fields]
Refuse(r) == Set(r, [run[r] EXCEPT !.pc = "done", !.ans = None, !.told = "refused"])

runQueueLimit == Depth + 1
Holding(r) == run[r].pc \in {"resume", "open", "lock", "turn", "classify"}

release == queued' = IF queued <= 1 THEN 0 ELSE queued - 1
\* A slot that is only given back when the turn ran.
releaseAfterTurn == queued' = queued

\* emit writes one frame; a failed write retires the stream and not the turn.
emit(s) == IF s = "retired" THEN {"retired"} ELSE {"open", "retired"}

----------------------------------------------------------------------------
\* handleRun up to the call of RunAgent: authenticate, the decode, authorize and
\* rateLimit each answer with a status before anything else happens.
handleRunRefuses(r) ==
  /\ run[r].pc = "idle" /\ Refuse(r)
  /\ UNCHANGED <<queued, turn, refusing, thread>>

\* RunAgent up to the resume's store read: the drain gate, then admit.
admit(r) ==
  /\ run[r].pc = "idle"
  /\ IF refusing \/ queued >= runQueueLimit
     THEN Refuse(r) /\ UNCHANGED queued
     ELSE /\ queued' = queued + 1
          /\ \E a \in Interrupts \cup {None} :
               Set(r, [run[r] EXCEPT !.pc = IF a = None THEN "open" ELSE "resume", !.ans = a])
  /\ UNCHANGED <<turn, refusing, thread>>

\* The resume's pre-validation, outside the turn lock: a failed read, or an entry
\* that names no open interrupt, refuses the run and gives the slot back.
buildResumeMessageLeaks(r) ==
  /\ run[r].pc = "resume"
  /\ \/ Refuse(r) /\ releaseAfterTurn
     \/ run[r].ans \in thread.open /\ Set(r, [run[r] EXCEPT !.pc = "open"]) /\ UNCHANGED queued
  /\ UNCHANGED <<turn, refusing, thread>>

buildResumeMessage(r) ==
  /\ run[r].pc = "resume"
  /\ \/ Refuse(r) /\ release
     \/ run[r].ans \in thread.open /\ Set(r, [run[r] EXCEPT !.pc = "open"]) /\ UNCHANGED queued
  /\ UNCHANGED <<turn, refusing, thread>>

\* RunStarted and StateSnapshot open the stream.
RunStarted(r) ==
  /\ run[r].pc = "open"
  /\ \E s \in emit(run[r].stream) : Set(r, [run[r] EXCEPT !.pc = "lock", !.stream = s])
  /\ UNCHANGED <<queued, turn, refusing, thread>>

\* runTurnPre: the wait for the turn lock ends with the lock, or with the drain or
\* the wallclock ceiling; under the lock the chokepoint refuses an aborted or
\* gate-paused session (a session over its budget or halted likewise).
runTurnPre(r) ==
  /\ run[r].pc = "lock"
  /\ \/ /\ turn = None /\ ~refusing
        /\ \/ \* A failed read skips the check.
              /\ turn' = r /\ Set(r, [run[r] EXCEPT !.pc = "turn"])
              \* The answered interrupt is closed by the FunctionResponse the turn starts with.
              /\ thread' = [thread EXCEPT !.open = @ \ {run[r].ans}]
           \/ /\ Set(r, [run[r] EXCEPT !.pc = "classify", !.err = "conflict"])
              /\ UNCHANGED <<turn, thread>>
     \/ /\ Set(r, [run[r] EXCEPT !.pc = "classify", !.err = "other"])
        /\ UNCHANGED <<turn, thread>>
  /\ UNCHANGED <<queued, refusing>>

\* aguiEmitter.onEvent for a model event of one author: openStep closes the bracket
\* of another author and opens its own before the event's frames go out.
onEvent(r) ==
  /\ run[r].pc = "turn"
  /\ \E author \in Authors, s \in emit(run[r].stream) :
       Set(r, [run[r] EXCEPT !.step = author, !.stream = s])
  /\ UNCHANGED <<queued, turn, refusing, thread>>

\* A bracket the turn's end leaves open.
closeStepKeeps(open) == open
closeStep(open) == None

\* The turn returns and gives the lock up: it finished, parked on an interrupt,
\* failed, was cut by its budget or its clock, or was swept by an abort.
turnEnds(r) ==
  /\ run[r].pc = "turn" /\ turn' = None
  /\ \/ /\ Set(r, [run[r] EXCEPT !.pc = "classify", !.err = "ok", !.step = closeStep(@)])
        /\ UNCHANGED thread
     \/ /\ Set(r, [run[r] EXCEPT !.pc = "classify", !.err = "ok", !.step = closeStep(@), !.parked = TRUE])
        /\ \E i \in Interrupts \ thread.open : thread' = [thread EXCEPT !.open = @ \cup {i}]
     \/ /\ Set(r, [run[r] EXCEPT !.pc = "classify", !.err = "other", !.step = closeStep(@)])
        /\ UNCHANGED thread
  /\ UNCHANGED <<queued, refusing>>

\* dispositionFromStore: a refused turn projects the session's durable state.
dispositionFromStore ==
  IF thread.aborted THEN "aborted" ELSE IF thread.open # {} THEN "interrupt" ELSE "aborted"

\* classifyRun on a readable store, and on one whose read failed.
classifyRunHopeful(r, readable) ==
  CASE run[r].err = "ok" -> IF readable /\ thread.open # {} /\ ~thread.aborted
                            THEN "interrupt" ELSE "success"
    [] run[r].err = "conflict" -> IF readable THEN dispositionFromStore ELSE "aborted"
    [] OTHER -> IF readable /\ thread.aborted THEN "aborted" ELSE "internal"

classifyRun(r, readable) ==
  CASE run[r].err = "ok" -> IF readable /\ thread.open # {} /\ ~thread.aborted THEN "interrupt"
                            ELSE IF run[r].parked THEN "internal" ELSE "success"
    [] run[r].err = "conflict" -> IF readable THEN dispositionFromStore ELSE "aborted"
    [] OTHER -> IF readable /\ thread.aborted THEN "aborted" ELSE "internal"

\* The read behind classifyRun, the deferred release and the terminal frame.
RunAgentReturns(r) ==
  /\ run[r].pc = "classify" /\ release
  /\ \E readable \in BOOLEAN, s \in emit(run[r].stream) :
       Set(r, [Fresh EXCEPT !.pc = "done", !.stream = s, !.step = run[r].step,
                            !.told = classifyRun(r, readable)])
  /\ UNCHANGED <<turn, refusing, thread>>

----------------------------------------------------------------------------
\* The other doors of the session (external to this surface).
Abort == ~thread.aborted /\ thread' = [thread EXCEPT !.aborted = TRUE]
Gate == \E g \in BOOLEAN : thread' = [thread EXCEPT !.gate = g]
Answered == turn = None /\ \E i \in thread.open : thread' = [thread EXCEPT !.open = @ \ {i}]
OtherDoors == (Abort \/ Gate \/ Answered) /\ UNCHANGED <<queued, turn, refusing, run>>
Drain == ~refusing /\ refusing' = TRUE /\ UNCHANGED <<queued, turn, thread, run>>

Next ==
  \/ \E r \in Runs :
       \/ handleRunRefuses(r) \/ admit(r) \/ buildResumeMessage(r) \/ RunStarted(r)
       \/ runTurnPre(r) \/ onEvent(r) \/ turnEnds(r) \/ RunAgentReturns(r)
  \/ OtherDoors \/ Drain

Spec == Init /\ [][Next]_aguiVars

----------------------------------------------------------------------------
\* Every run between admit and its return holds one slot of the thread's queue, the
\* queue counts exactly those, and never more than the depth and the one running:
\* no refusal or failure on the way (RunAgent's early returns) leaks a slot or
\* gives one back twice.
SlotsAccounted ==
  queued = Cardinality({r \in Runs : Holding(r)}) /\ queued <= runQueueLimit

\* A client told that its run succeeded had a turn that ran to its end and did not
\* park: neither a store that could not be read nor an abort, a pause or a drain
\* that raced the turn is reported as a success (classifyRun's "never fabricate a
\* success").
EarnsSuccess ==
  \A r \in Runs : (run[r].told # "success" /\ run'[r].told = "success")
                     => run[r].err = "ok" /\ ~run[r].parked
SuccessIsEarned == [][EarnsSuccess]_aguiVars

\* A client sees a status or an ordered stream, never a truncated one: a refusal
\* comes before the SSE upgrade, a terminal frame after it and after the open step
\* bracket was closed (handleRun, closeStep).
OrderedEnd ==
  \A r \in Runs :
    /\ run[r].told = "refused" => run[r].stream = "none"
    /\ run[r].told \in Endings => run[r].stream # "none" /\ run[r].step = None

\* A resume reaches the runtime only while the interrupt it answers is open: the
\* comment on buildResumeMessage says it "answers only entries that name a
\* genuinely-open interrupt", since a response to a closed one is ignored or forks
\* a fresh turn.  The code does not keep this: the check precedes the session's
\* slot, and the interrupt may be closed by then.
ResumeAnswersOpen ==
  [][\A r \in Runs : (run[r].ans # None /\ run[r].pc = "lock" /\ run'[r].pc = "turn")
                       => run[r].ans \in thread.open]_aguiVars
===============================================================================
