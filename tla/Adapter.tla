------------------------------- MODULE Adapter -------------------------------
(***************************************************************************)
(* The adapter between the attach server and one session of the daemon:    *)
(* operators inject messages and interrupt turns over HTTP, one goroutine  *)
(* (`drain`) runs the queued messages a turn at a time, and other doors of *)
(* the daemon (inject listener, scheduler, resume) run turns on the same   *)
(* session, serialised only by the session's turn lock.  The adapter's     *)
(* mutex makes each of its critical sections one step.                     *)
(*                                                                         *)
(* An error is [cause, words, code]: what stopped the turn, and what a     *)
(* scan of its text finds.  Words and code come from outside: tool names,  *)
(* arguments and provider messages end up in the text.                     *)
(***************************************************************************)
EXTENDS Naturals, Sequences, FiniteSets, SequencesExt

CONSTANTS
  Messages,   \* messages operators inject, each at most once
  Others,     \* turns the daemon's other doors run on this session
  Operators,  \* callers of POST interrupt
  Words,      \* what texts may hold, of "not_found" "denied" "rate" "unavailable" "invalid"
  Codes,      \* HTTP status numbers texts may hold, 0 for none
  MaxFaults,  \* bound: failures of the session service under the audit
  None

VARIABLES
  accepted,     \* messages injected, in order
  queue,        \* ad.queue
  draining,     \* ad.draining
  drain,        \* per drain goroutine: where it is, its message, the turn's error, its audit flag
  ran,          \* messages whose turn was started, in order
  cancelTurn,   \* ad.cancelTurn: the message whose turn it cancels, or None
  auditPending, \* ad.auditPending
  seen,         \* per operator: the cancel function AttachInterrupt holds outside the mutex
  captured,     \* messages whose turn some AttachInterrupt answered true for
  cancelled,    \* messages whose run context is cancelled
  audits,       \* per message: audit rows of its turn in the event log
  dropped,      \* messages whose audit append failed
  lock,         \* holder of the session's turn lock
  stale,        \* turns whose session handle another writer invalidated
  parked,       \* what the stored transcript awaits
  told,         \* the frames that ended the last turn, with its cause, until the next one starts
  faults

vars == <<accepted, queue, draining, drain, ran, cancelTurn, auditPending, seen, captured,
          cancelled, audits, dropped, lock, stale, parked, told, faults>>

Goroutines == {1, 2}
Off == [at |-> "off", msg |-> None, err |-> None, audit |-> FALSE]

-----------------------------------------------------------------------------
(* ClassifyTurnError.                                                      *)

Declared == {"watchdog_halt", "refusal_loop", "loop_stop"}
Causes == Declared \cup {"deadline", "canceled", "header", "budget", "provider"}
Errors == [cause : Causes, words : SUBSET Words, code : Codes]
Frame(kind, retry) == [kind |-> kind, retryable |-> retry]

classifyDeclaredKind(kind) == Frame(kind, FALSE)

\* The scan of the text, in the order of the switch.
classifyText(e) ==
  IF "not_found" \in e.words \/ e.code = 404 THEN Frame("model_not_found", FALSE)
  ELSE IF "denied" \in e.words \/ e.code \in {401, 403} THEN Frame("auth_error", FALSE)
  ELSE IF "rate" \in e.words \/ e.code = 429 THEN Frame("rate_limited", TRUE)
  ELSE IF "unavailable" \in e.words \/ e.code \in {502, 503, 504} THEN Frame("transient_network", TRUE)
  ELSE IF "invalid" \in e.words \/ e.code = 400 THEN Frame("config_error", FALSE)
  ELSE Frame("unknown", FALSE)

ClassifyTurnErrorByText(e) ==
  IF e.cause = "deadline" THEN Frame("transient_network", TRUE) ELSE classifyText(e)
ClassifyTurnError(e) ==
  IF e.cause \in Declared THEN classifyDeclaredKind(e.cause)
  ELSE IF e.cause = "deadline" THEN Frame("transient_network", TRUE)
  ELSE IF e.cause = "canceled" THEN Frame("canceled", FALSE)
  ELSE IF e.cause = "header" THEN Frame("transient_network", TRUE)
  ELSE IF e.cause = "budget" THEN Frame("cost_ceiling", FALSE)
  ELSE classifyText(e)

-----------------------------------------------------------------------------
(* Queue and drain.                                                        *)

Init ==
  /\ accepted = <<>> /\ queue = <<>> /\ draining = FALSE /\ ran = <<>>
  /\ drain = [g \in Goroutines |-> Off]
  /\ cancelTurn = None /\ auditPending = FALSE
  /\ seen = [o \in Operators |-> None] /\ captured = {} /\ cancelled = {}
  /\ audits = [m \in Messages |-> 0] /\ dropped = {}
  /\ lock = None /\ stale = {} /\ parked = "" /\ told = None /\ faults = 0

\* Launch the drain goroutine for queue q unless one runs.
startDrainAgain(q) ==
  IF q = <<>> \/ ~\E g \in Goroutines : drain[g].at = "off"
  THEN UNCHANGED <<draining, drain>>
  ELSE /\ draining' = TRUE
       /\ drain' = [drain EXCEPT ![CHOOSE g \in Goroutines : drain[g].at = "off"].at = "top"]
startDrainLocked(q) ==
  IF draining \/ q = <<>>
  THEN UNCHANGED <<draining, drain>>
  ELSE /\ draining' = TRUE
       /\ drain' = [drain EXCEPT ![CHOOSE g \in Goroutines : drain[g].at = "off"].at = "top"]

InjectAs(m) ==
  /\ m \notin ToSet(accepted)
  /\ accepted' = Append(accepted, m)
  /\ queue' = Append(queue, m)
  /\ startDrainLocked(queue')
  /\ UNCHANGED <<ran, cancelTurn, auditPending, seen, captured, cancelled, audits, dropped,
                 lock, stale, parked, told, faults>>

RequestWake ==
  /\ startDrainLocked(queue)
  /\ UNCHANGED <<accepted, queue, ran, cancelTurn, auditPending, seen, captured, cancelled, audits,
                 dropped, lock, stale, parked, told, faults>>

\* A body that does not parse, is empty or names a wake target is answered with an
\* error and changes nothing.
doInject(m) == InjectAs(m)
\* The wake after a prompt finds the goroutine the prompt started.
doWake(prompt) == IF prompt = None THEN RequestWake ELSE InjectAs(prompt)

Goto(g, at) == drain' = [drain EXCEPT ![g].at = at]

\* The top of the loop: stop with nothing queued, or take the head and arm its cancel.
PopLeaving(g) ==
  /\ drain[g].at = "top"
  /\ IF queue = <<>>
     THEN /\ drain' = [drain EXCEPT ![g] = Off]
          /\ UNCHANGED <<queue, draining, cancelTurn, ran, told>>
     ELSE /\ queue' = Tail(queue) /\ ran' = Append(ran, Head(queue))
          /\ cancelTurn' = Head(queue) /\ told' = None
          /\ drain' = [drain EXCEPT ![g].at = "wait", ![g].msg = Head(queue)]
          /\ UNCHANGED draining
  /\ UNCHANGED <<accepted, auditPending, seen, captured, cancelled, audits, dropped, lock, stale,
                 parked, faults>>
Pop(g) ==
  /\ drain[g].at = "top"
  /\ IF queue = <<>>
     THEN /\ draining' = FALSE /\ drain' = [drain EXCEPT ![g] = Off]
          /\ UNCHANGED <<queue, cancelTurn, ran, told>>
     ELSE /\ queue' = Tail(queue) /\ ran' = Append(ran, Head(queue))
          /\ cancelTurn' = Head(queue) /\ told' = None
          /\ drain' = [drain EXCEPT ![g].at = "wait", ![g].msg = Head(queue)]
          /\ UNCHANGED draining
  /\ UNCHANGED <<accepted, auditPending, seen, captured, cancelled, audits, dropped, lock, stale,
                 parked, faults>>

\* RunTurn queues for the session's turn lock; a cancelled wait ends the turn there.
LockTurn(g) ==
  /\ drain[g].at = "wait"
  /\ \/ /\ lock = None /\ lock' = drain[g].msg
        /\ Goto(g, "run")
     \/ /\ drain[g].msg \in cancelled
        /\ drain' = [drain EXCEPT ![g].at = "back",
                       ![g].err = [cause |-> "canceled", words |-> {}, code |-> 0]]
        /\ UNCHANGED lock
  /\ UNCHANGED <<accepted, queue, draining, ran, cancelTurn, auditPending, seen, captured, cancelled,
                 audits, dropped, stale, parked, told, faults>>

\* The turn returns, well (perhaps parked on a question) or with an error, and the
\* deferred unlock runs.
RunTurn(g) ==
  /\ drain[g].at = "run"
  /\ \/ /\ drain[g].msg \notin stale
        /\ drain' = [drain EXCEPT ![g].at = "back", ![g].err = None]
        /\ parked' \in {"", "awaiting_permission", "awaiting_elicit"}
     \/ \E e \in Errors :
          /\ e.cause = "canceled" => drain[g].msg \in cancelled
          /\ drain' = [drain EXCEPT ![g].at = "back", ![g].err = e]
          /\ UNCHANGED parked
  /\ lock' = None
  /\ UNCHANGED <<accepted, queue, draining, ran, cancelTurn, auditPending, seen, captured, cancelled,
                 audits, dropped, stale, told, faults>>

\* Back from RunTurn, under the mutex: disarm the cancel, take the audit flag.
SettleKeeping(g) ==
  /\ drain[g].at = "back"
  /\ cancelTurn' = None
  /\ drain' = [drain EXCEPT ![g].at = IF auditPending THEN "audit" ELSE "report",
                            ![g].audit = auditPending]
  /\ UNCHANGED <<accepted, queue, draining, ran, auditPending, seen, captured, cancelled, audits,
                 dropped, lock, stale, parked, told, faults>>
Settle(g) ==
  /\ drain[g].at = "back"
  /\ cancelTurn' = None /\ auditPending' = FALSE
  /\ drain' = [drain EXCEPT ![g].at = IF auditPending THEN "audit" ELSE "report",
                            ![g].audit = auditPending]
  /\ UNCHANGED <<accepted, queue, draining, ran, seen, captured, cancelled, audits, dropped, lock,
                 stale, parked, told, faults>>

\* Get the session and append the audit row.  The append makes every other handle
\* on the row stale, that of a turn another door has started included.
appendInterruptAudit(g) ==
  /\ drain[g].at = "audit"
  /\ \/ /\ audits' = [audits EXCEPT ![drain[g].msg] = @ + 1]
        /\ stale' = IF lock = None THEN stale ELSE stale \cup {lock}
        /\ UNCHANGED <<dropped, faults>>
     \/ /\ faults < MaxFaults /\ faults' = faults + 1
        /\ dropped' = dropped \cup {drain[g].msg}
        /\ UNCHANGED <<audits, stale>>
  /\ Goto(g, "report")
  /\ UNCHANGED <<accepted, queue, draining, ran, cancelTurn, auditPending, seen, captured, cancelled,
                 lock, parked, told>>

\* What the status route and the status frames say.
turnState == parked
AttachTurnState == IF cancelTurn # None THEN "streaming" ELSE IF turnState # "" THEN turnState ELSE "idle"

\* The terminal frame, and the status frame after it.
Report(g) ==
  /\ drain[g].at = "report"
  /\ told' = [state |-> AttachTurnState] @@
             IF drain[g].err = None THEN [cause |-> "none"] @@ Frame("complete", FALSE)
             ELSE [cause |-> drain[g].err.cause] @@ ClassifyTurnError(drain[g].err)
  /\ drain' = [drain EXCEPT ![g] = [Off EXCEPT !.at = "top"]]
  /\ UNCHANGED <<accepted, queue, draining, ran, cancelTurn, auditPending, seen, captured, cancelled,
                 audits, dropped, lock, stale, parked, faults>>

-----------------------------------------------------------------------------
(* The operators, and the daemon's other doors.                            *)

\* POST interrupt: read the cancel function and flag the audit under the mutex...
AttachInterrupt(o) ==
  /\ seen[o] = None /\ cancelTurn # None
  /\ seen' = [seen EXCEPT ![o] = cancelTurn]
  /\ captured' = captured \cup {cancelTurn}
  /\ auditPending' = TRUE
  /\ UNCHANGED <<accepted, queue, draining, drain, ran, cancelTurn, cancelled, audits, dropped, lock,
                 stale, parked, told, faults>>
\* The adapter audits by itself, so the handler appends nothing.
doInterrupt(o) == AttachInterrupt(o)
\* ... and call it outside, when the turn may be over.
CancelSeen(o) ==
  /\ seen[o] # None
  /\ seen' = [seen EXCEPT ![o] = None]
  /\ cancelled' = cancelled \cup {seen[o]}
  /\ UNCHANGED <<accepted, queue, draining, drain, ran, cancelTurn, auditPending, captured, audits,
                 dropped, lock, stale, parked, told, faults>>

OtherBegin(t) ==
  /\ lock = None /\ t \notin stale
  /\ lock' = t
  /\ UNCHANGED <<accepted, queue, draining, drain, ran, cancelTurn, auditPending, seen, captured,
                 cancelled, audits, dropped, stale, parked, told, faults>>
OtherEnd(t) ==
  /\ lock = t /\ lock' = None
  /\ parked' \in {"", "awaiting_permission"}
  /\ UNCHANGED <<accepted, queue, draining, drain, ran, cancelTurn, auditPending, seen, captured,
                 cancelled, audits, dropped, stale, told, faults>>

Next ==
  \/ \E m \in Messages : doInject(m)
  \/ \E p \in Messages \cup {None} : doWake(p)
  \/ \E g \in Goroutines :
       Pop(g) \/ LockTurn(g) \/ RunTurn(g) \/ Settle(g) \/ appendInterruptAudit(g) \/ Report(g)
  \/ \E o \in Operators : doInterrupt(o) \/ CancelSeen(o)
  \/ \E t \in Others : OtherBegin(t) \/ OtherEnd(t)

Spec == Init /\ [][Next]_vars

-----------------------------------------------------------------------------
TypeOK ==
  /\ accepted \in Seq(Messages) /\ queue \in Seq(Messages) /\ ran \in Seq(Messages)
  /\ draining \in BOOLEAN /\ auditPending \in BOOLEAN
  /\ \A g \in Goroutines : drain[g].at \in {"off", "top", "wait", "run", "back", "audit", "report"}
  /\ cancelTurn \in Messages \cup {None} /\ lock \in Messages \cup Others \cup {None}
  /\ captured \subseteq Messages /\ cancelled \subseteq Messages /\ dropped \subseteq Messages
  /\ stale \subseteq Messages \cup Others

\* An injected message becomes exactly one turn, in the order the messages came,
\* one at a time, and none waits in the queue without a goroutine that will take it.
MessagesKept ==
  /\ ran \o queue = accepted
  /\ queue # <<>> => draining
  /\ draining <=> \E g \in Goroutines : drain[g].at # "off"
  /\ Cardinality({g \in Goroutines : drain[g].at # "off"}) <= 1

Finished(m) == m \in ToSet(ran) /\ \A g \in Goroutines : drain[g].msg # m

\* An interrupt cancels the turn it saw and no later one, and each turn that was
\* interrupted leaves one audit row in the event log, the others none, unless the
\* append itself failed.
InterruptsAccounted ==
  /\ cancelled \subseteq captured
  /\ \A m \in Messages :
       /\ audits[m] <= 1
       /\ audits[m] = 1 => m \in captured
       /\ Finished(m) /\ m \in captured => audits[m] = 1 \/ m \in dropped

\* A client is never told to retry a turn that was stopped on purpose (a halt, a
\* refusal, a budget, an operator's cancel), whatever words the error carries, and
\* the status frame that ends a turn never leaves the client at "streaming".
FramesAreTrue ==
  told # None =>
    /\ told.cause \in Declared \cup {"canceled", "budget"} => ~told.retryable
    /\ told.state # "streaming"
=============================================================================
