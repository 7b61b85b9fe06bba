------------------------------ MODULE SessionOps ------------------------------
(***************************************************************************)
(* One session under concurrent operator calls: gate pause (soft and       *)
(* hard), abort, resume by token, extend-token, turns that park, and the   *)
(* timed-pause scheduler (internal/transcript/{transcript,pause}.go,       *)
(* internal/cli/{serve,handlers,turn,pausesched}.go).                      *)
(*                                                                         *)
(* The store serialises its writes (opsMu), not a read with the write that *)
(* follows it, so every operation is a read step and a later write step.   *)
(* A resume token is named after the operation that minted it; the pause   *)
(* record of a parked turn is keyed by that turn, the gate record by Gate. *)
(* Times are naturals and 0 is Go's zero time.                             *)
(***************************************************************************)
EXTENDS Naturals

CONSTANTS
  Ops,          \* calls the operators and triggers make
  Kind,         \* what each call is
  ResumeTimes,  \* resume_at values a pause may carry; 0 is none
  AbortReasons, \* reasons /abort may carry; "" is an omitted one
  TTL,          \* token lifetime
  MaxNow,       \* bound on the clock
  MaxRestarts,  \* bound on process restarts
  Gate, Timer, None

Kinds == {"inject", "pause", "hardpause", "abort", "resume", "answer", "extend"}
Actors == Ops \cup {Timer}
Keys == Ops \cup {Gate}

ASSUME OpsAssumption ==
  /\ Kind \in [Ops -> Kinds]
  /\ ResumeTimes \subseteq Nat /\ AbortReasons \subseteq {"", "given"}
  /\ TTL \in Nat /\ MaxNow \in Nat \ {0} /\ MaxRestarts \in Nat
  /\ Gate \notin Ops /\ Timer \notin Ops /\ None \notin Actors

VARIABLES
  now,       \* wall clock
  aborted,   \* ops row: the abort marker
  rec,       \* ops row: the pause records
  pending,   \* event log: interrupts raised and not answered
  answered,  \* event log: interrupts whose answer was appended
  slot,      \* the session's turn slot
  reg,       \* turnTracker.cancels for the session
  cut,       \* turns whose context was cancelled
  armed,     \* pauseScheduler.entries: token -> fire time, 0 when absent
  pc, tok, snap, purge, res,  \* a call's program point and locals
  spent,     \* history: tokens some call consumed
  replaced,  \* history: tokens whose gate record another write took the place of
  restarts

disk == <<aborted, rec, pending, answered>>
proc == <<slot, reg, cut>>
locals == <<tok, snap, purge>>
history == <<spent, replaced>>
vars == <<now, disk, proc, armed, pc, locals, res, history, restarts>>

Records == [token : Ops \cup {None}, expires : Nat, resumeAt : Nat, consumed : BOOLEAN]
Blank == [token |-> None, expires |-> 0, resumeAt |-> 0, consumed |-> FALSE]
Active(r) == r.token # None /\ ~r.consumed

Points == {"new", "queued", "check", "running", "mint", "leave", "resume", "postcheck",
           "find", "write", "read", "writegate", "sweep", "push", "writeabort", "fetch", "done"}

TypeOK ==
  /\ now \in 1..MaxNow /\ aborted \in BOOLEAN /\ rec \in [Keys -> Records]
  /\ pending \subseteq Ops /\ answered \subseteq Ops
  /\ slot \in Actors \cup {None} /\ reg \in Actors \cup {None} /\ cut \subseteq Actors
  /\ armed \in [Ops -> Nat]
  /\ pc \in [Actors -> Points] /\ tok \in [Actors -> Ops \cup {None}]
  /\ snap \in [Actors -> Records] /\ purge \in [Ops -> SUBSET Keys]
  /\ res \in [Actors -> {"ok", "err", "lost"}]
  /\ spent \subseteq Ops /\ replaced \subseteq Ops /\ restarts \in 0..MaxRestarts

Init ==
  /\ now = 1 /\ aborted = FALSE /\ rec = [k \in Keys |-> Blank]
  /\ pending = {} /\ answered = {}
  /\ slot = None /\ reg = None /\ cut = {}
  /\ armed = [o \in Ops |-> 0]
  /\ pc = [a \in Actors |-> "new"] /\ tok = [a \in Actors |-> None]
  /\ snap = [a \in Actors |-> Blank] /\ purge = [o \in Ops |-> {}]
  /\ res = [a \in Actors |-> "ok"]
  /\ spent = {} /\ replaced = {} /\ restarts = 0

-----------------------------------------------------------------------------
Goto(a, p) == pc' = [pc EXCEPT ![a] = p]
Report(a, r) == res' = [res EXCEPT ![a] = r]
\* What a write to the records does to the history of the gate record.
Replace == replaced' = replaced \cup ({rec[Gate].token} \ {rec'[Gate].token, None})

\* Where the record of a token is stored, and whether it is still there.
KeyOf(tk) == IF Kind[tk] = "inject" THEN tk ELSE Gate
Resolves(tk) == rec[KeyOf(tk)].token = tk
Expired(r) == now > r.expires
Minted(o, at) == [token |-> o, expires |-> now + TTL, resumeAt |-> at, consumed |-> FALSE]

\* schedRequeueDelay, clipped to the clock's bound.
Later == IF now < MaxNow THEN now + 1 ELSE MaxNow

\* A call returns; the scheduler re-queues a fire that failed.
Return(a, r) ==
  /\ Report(a, r)
  /\ Goto(a, IF a = Timer THEN "new" ELSE "done")
  /\ armed' = IF a = Timer /\ r = "err" THEN [armed EXCEPT ![tok[a]] = Later] ELSE armed

\* What follows a turn: the callers that hold a token go on to consume it.
Is(a, k) == a # Timer /\ Kind[a] = k
AfterTurn(a) == IF Is(a, "inject") \/ Is(a, "answer") THEN "done" ELSE "postcheck"

-----------------------------------------------------------------------------
\* A turn: an inject, or the turn a resume call or the scheduler drives.

\* Mutant: the cancel handle is not registered before the marker is read.
TurnLockUnregistered(a) ==
  /\ pc[a] = "queued" /\ slot = None
  /\ slot' = a /\ cut' = cut \ {a} /\ Goto(a, "check")
  /\ UNCHANGED <<now, disk, reg, armed, locals, res, history, restarts>>

\* sessionTurnLocks.lock, then registerCancel; or the caller's context ends.
TurnLock(a) ==
  /\ pc[a] = "queued"
  /\ \/ /\ slot = None
        /\ slot' = a /\ reg' = a /\ cut' = cut \ {a}
        /\ Goto(a, "check") /\ UNCHANGED res
     \/ /\ Goto(a, AfterTurn(a))
        /\ Report(a, "err") /\ UNCHANGED proc
  /\ UNCHANGED <<now, disk, armed, locals, history, restarts>>

\* Mutant: the chokepoint forgets the gate pause.
TurnCheckAbortOnly(a) ==
  /\ pc[a] = "check"
  /\ IF aborted THEN Goto(a, "leave") /\ Report(a, "err")
                ELSE Goto(a, "running") /\ Report(a, "ok")
  /\ UNCHANGED <<now, disk, proc, armed, locals, history, restarts>>

\* admitTurn: an aborted or gate-paused session refuses every turn.
TurnCheck(a) ==
  /\ pc[a] = "check"
  /\ IF aborted \/ Active(rec[Gate])
     THEN Goto(a, "leave") /\ Report(a, "err")
     ELSE Goto(a, "running") /\ Report(a, "ok")
  /\ UNCHANGED <<now, disk, proc, armed, locals, history, restarts>>

\* An inject finishes, or its model calls pause_session: the park event is
\* appended before the tool body mints the record.
InjectRun(o) ==
  /\ pc[o] = "running" /\ Kind[o] = "inject"
  /\ \/ Goto(o, "leave") /\ UNCHANGED pending
     \/ Goto(o, "mint") /\ pending' = pending \cup {o}
  /\ UNCHANGED <<now, aborted, rec, answered, proc, armed, locals, res, history, restarts>>

\* PauseInterrupt, pushed to the scheduler where one runs in this process.  A
\* failed write closes the interrupt with an error result, unless the turn was
\* cut before that result was appended.
Mint(o) ==
  /\ pc[o] = "mint"
  /\ \/ \E at \in ResumeTimes :
          /\ rec' = [rec EXCEPT ![o] = Minted(o, at)]
          /\ armed' \in {armed, [armed EXCEPT ![o] = at]}
          /\ UNCHANGED pending
     \/ pending' \in {pending, pending \ {o}} /\ UNCHANGED <<rec, armed>>
  /\ Goto(o, "leave")
  /\ UNCHANGED <<now, aborted, answered, proc, locals, res, history, restarts>>

\* A resume turn fails before its answer is appended, or appends it and goes on
\* to succeed or fail, or finds nothing to resume.
AnswerRun(a) ==
  /\ pc[a] = "running" /\ ~Is(a, "inject")
  /\ \/ Report(a, "err") /\ UNCHANGED <<pending, answered>>
     \/ /\ tok[a] \in pending
        /\ pending' = pending \ {tok[a]}
        /\ answered' = answered \cup {tok[a]}
        /\ \E r \in {"ok", "err"} : Report(a, r)
  /\ Goto(a, "leave")
  /\ UNCHANGED <<now, aborted, rec, proc, armed, locals, history, restarts>>

\* unregisterCancel, then the slot.
TurnLeave(a) ==
  /\ pc[a] = "leave"
  /\ slot' = None /\ reg' = None
  /\ Goto(a, AfterTurn(a))
  /\ UNCHANGED <<now, disk, cut, armed, locals, res, history, restarts>>

InjectStart(o) ==
  /\ pc[o] = "new" /\ Kind[o] = "inject"
  /\ Goto(o, "queued")
  /\ UNCHANGED <<now, disk, proc, armed, locals, res, history, restarts>>

-----------------------------------------------------------------------------
\* Resume by token, extend-token, and the consume they end in.

\* newResumeByToken: the first lookup picks the path.
ResumeStart(o) ==
  /\ pc[o] = "new" /\ Kind[o] = "resume"
  /\ \E tk \in Ops :
       /\ Resolves(tk)
       /\ tok' = [tok EXCEPT ![o] = tk]
       /\ LET r == rec[KeyOf(tk)]
          IN  Goto(o, IF r.consumed \/ Expired(r) THEN "done"
                      ELSE IF KeyOf(tk) = Gate THEN "find" ELSE "resume")
  /\ UNCHANGED <<now, disk, proc, armed, snap, purge, res, history, restarts>>

\* A resume keyed by interrupt ID carries no token and consumes none.
AnswerStart(o) ==
  /\ pc[o] = "new" /\ Kind[o] = "answer"
  /\ \E i \in pending \cup answered : tok' = [tok EXCEPT ![o] = i]
  /\ Goto(o, "resume")
  /\ UNCHANGED <<now, disk, proc, armed, snap, purge, res, history, restarts>>

\* resumeByInterrupt: an aborted session is refused before queueing.
ResumeInterrupt(a) ==
  /\ pc[a] = "resume"
  /\ IF aborted THEN Goto(a, AfterTurn(a)) /\ Report(a, "err")
                ELSE Goto(a, "queued") /\ UNCHANGED res
  /\ UNCHANGED <<now, disk, proc, armed, locals, history, restarts>>

\* Mutant: the token is consumed on turn completion, answered or not.
PostCheckAlways(a) ==
  /\ pc[a] = "postcheck"
  /\ Goto(a, "find")
  /\ UNCHANGED <<now, disk, proc, armed, locals, res, history, restarts>>

\* consumeIfAnswered: a still-pending interrupt keeps its token.
PostCheck(a) ==
  /\ pc[a] = "postcheck"
  /\ IF tok[a] \in pending /\ ~aborted
     THEN Return(a, res[a])
     ELSE Goto(a, "find") /\ UNCHANGED <<res, armed>>
  /\ UNCHANGED <<now, disk, proc, locals, history, restarts>>

ExtendStart(o) ==
  /\ pc[o] = "new" /\ Kind[o] = "extend"
  /\ \E tk \in Ops : Resolves(tk) /\ tok' = [tok EXCEPT ![o] = tk]
  /\ Goto(o, "find")
  /\ UNCHANGED <<now, disk, proc, armed, snap, purge, res, history, restarts>>

\* What a call reports when its consume finds nothing to do or fails.  After a
\* resume turn the consume is bookkeeping: the turn's own result stands.
ConsumeFailed(a) == IF KeyOf(tok[a]) = Gate \/ Is(a, "extend") THEN "err" ELSE res[a]

\* Mutant: the scheduled consume enforces the token's lifetime too.
FindEnforcing(a) ==
  /\ pc[a] = "find"
  /\ LET r == rec[KeyOf(tok[a])]
     IN  IF ~Resolves(tok[a]) \/ r.consumed \/ Expired(r)
         THEN Return(a, ConsumeFailed(a)) /\ UNCHANGED snap
         ELSE /\ snap' = [snap EXCEPT ![a] = [r EXCEPT !.consumed = TRUE]]
              /\ Goto(a, "write") /\ UNCHANGED <<res, armed>>
  /\ UNCHANGED <<now, disk, proc, tok, purge, history, restarts>>

\* consumeToken and ExtendToken read the record and prepare the new one.  Only
\* the operator's resume of a gate pause is held to the token's lifetime.
Find(a) ==
  /\ pc[a] = "find"
  /\ LET r == rec[KeyOf(tok[a])]
         already == Resolves(tok[a]) /\ r.consumed
         enforceExpiry == Is(a, "resume") /\ KeyOf(tok[a]) = Gate
     IN  \/ /\ already
            /\ Return(a, IF Is(a, "extend") THEN "err" ELSE res[a]) /\ UNCHANGED snap
         \/ /\ ~already
            /\ ~Resolves(tok[a]) \/ (enforceExpiry /\ Expired(r))
            /\ Return(a, ConsumeFailed(a)) /\ UNCHANGED snap
         \/ /\ ~already /\ Resolves(tok[a]) /\ ~(enforceExpiry /\ Expired(r))
            /\ snap' = [snap EXCEPT ![a] = IF Is(a, "extend")
                                           THEN [r EXCEPT !.expires = now + TTL]
                                           ELSE [r EXCEPT !.consumed = TRUE]]
            /\ Goto(a, "write") /\ UNCHANGED <<res, armed>>
  /\ UNCHANGED <<now, disk, proc, tok, purge, history, restarts>>

WriteRecord(a) ==
  /\ pc[a] = "write"
  /\ rec' = [rec EXCEPT ![KeyOf(tok[a])] = snap[a]]
  /\ spent' = IF snap[a].consumed THEN spent \cup {tok[a]} ELSE spent
  /\ Replace /\ Return(a, res[a])
  /\ UNCHANGED <<now, aborted, pending, answered, proc, locals, restarts>>

-----------------------------------------------------------------------------
\* Gate pause and abort.

IsPause(o) == Kind[o] \in {"pause", "hardpause"}

\* PauseGate's first read: aborted is terminal.
PauseCheck(o) ==
  /\ pc[o] = "new" /\ IsPause(o)
  /\ IF aborted THEN Return(o, "err") ELSE Goto(o, "read") /\ UNCHANGED <<res, armed>>
  /\ UNCHANGED <<now, disk, proc, locals, history, restarts>>

\* Its second read: refresh an active gate pause in place, or mint a new one.
PauseRead(o) ==
  /\ pc[o] = "read"
  /\ \E at \in ResumeTimes :
       snap' = [snap EXCEPT ![o] = IF Active(rec[Gate])
                                   THEN [rec[Gate] EXCEPT !.resumeAt = at]
                                   ELSE Minted(o, at)]
  /\ Goto(o, "writegate")
  /\ UNCHANGED <<now, disk, proc, armed, tok, purge, res, history, restarts>>

PauseWrite(o) ==
  /\ pc[o] = "writegate"
  /\ rec' = [rec EXCEPT ![Gate] = snap[o]] /\ Replace
  /\ tok' = [tok EXCEPT ![o] = snap[o].token]
  /\ Goto(o, IF Kind[o] = "hardpause" THEN "sweep" ELSE "push")
  /\ UNCHANGED <<now, aborted, pending, answered, proc, armed, snap, purge, res, spent, restarts>>

\* cancelSession, after the marker is durable.
Sweep(o) ==
  /\ pc[o] = "sweep"
  /\ cut' = cut \cup ({reg} \ {None})
  /\ Goto(o, IF Kind[o] = "abort" THEN "done" ELSE "push")
  /\ UNCHANGED <<now, disk, slot, reg, armed, locals, res, history, restarts>>

\* The handler arms the timer where a scheduler runs in this process.
Push(o) ==
  /\ pc[o] = "push"
  /\ LET at == snap[o].resumeAt
     IN  armed' \in {armed, IF at = 0 THEN armed ELSE [armed EXCEPT ![tok[o]] = at]}
  /\ Goto(o, "done")
  /\ UNCHANGED <<now, disk, proc, locals, res, history, restarts>>

\* Abort reads the markers and the records it will purge ...
AbortRead(o) ==
  /\ pc[o] = "new" /\ Kind[o] = "abort"
  /\ IF aborted
     THEN Return(o, "err") /\ UNCHANGED purge
     ELSE /\ purge' = [purge EXCEPT ![o] = {k \in Keys : Active(rec[k])}]
          /\ Goto(o, "writeabort") /\ UNCHANGED <<res, armed>>
  /\ UNCHANGED <<now, disk, proc, tok, snap, history, restarts>>

\* ... and writes marker and purge in one event.  The marker is the reason, and
\* project and Abort read an empty reason as no marker.
AbortWrite(o) ==
  /\ pc[o] = "writeabort"
  /\ \E reason \in AbortReasons : aborted' = (reason # "")
  /\ rec' = [k \in Keys |-> IF k \in purge[o] THEN Blank ELSE rec[k]] /\ Replace
  /\ Goto(o, "sweep")
  /\ UNCHANGED <<now, pending, answered, proc, armed, locals, res, spent, restarts>>

-----------------------------------------------------------------------------
\* The timed-pause scheduler.

\* fireDue pops the earliest entry that is due.
TimerPop(tk) ==
  /\ pc[Timer] = "new"
  /\ armed[tk] # 0 /\ armed[tk] <= now
  /\ \A o \in Ops : armed[o] # 0 => armed[tk] <= armed[o]
  /\ armed' = [armed EXCEPT ![tk] = 0]
  /\ tok' = [tok EXCEPT ![Timer] = tk]
  /\ Goto(Timer, "fetch")
  /\ UNCHANGED <<now, disk, proc, snap, purge, res, history, restarts>>

\* The record is re-fetched: drop a vanished or consumed token, re-arm on a
\* later resume_at, else fire through the operator's doors.
TimerFetch ==
  /\ pc[Timer] = "fetch"
  /\ LET tk == tok[Timer]
         r == rec[KeyOf(tk)]
     IN  \/ /\ ~Resolves(tk) \/ r.consumed
            /\ Goto(Timer, "new") /\ UNCHANGED <<armed, res>>
         \/ /\ Resolves(tk) /\ ~r.consumed /\ r.resumeAt > now
            /\ armed' = [armed EXCEPT ![tk] = r.resumeAt]
            /\ Goto(Timer, "new") /\ UNCHANGED res
         \/ /\ Resolves(tk) /\ ~r.consumed /\ r.resumeAt <= now
            /\ Report(Timer, "ok")
            /\ Goto(Timer, IF KeyOf(tk) = Gate THEN "find" ELSE "resume")
            /\ UNCHANGED armed
  /\ UNCHANGED <<now, disk, proc, locals, history, restarts>>

\* seed at boot and runRescan: arm every active record that carries a time.
Rescan ==
  /\ armed' = [tk \in Ops |->
       IF Resolves(tk) /\ Active(rec[KeyOf(tk)]) /\ rec[KeyOf(tk)].resumeAt # 0
       THEN rec[KeyOf(tk)].resumeAt ELSE armed[tk]]
  /\ UNCHANGED <<now, disk, proc, pc, locals, res, history, restarts>>

\* A store call fails and leaves nothing behind: the call reports it and the
\* scheduler re-queues.  Marker reads that fail open are not modelled.
StoreFault(a) ==
  /\ pc[a] \in {"postcheck", "find", "write", "writegate", "writeabort", "fetch"}
  /\ Return(a, CASE pc[a] = "postcheck" -> res[a]
                 [] pc[a] \in {"find", "write"} -> ConsumeFailed(a)
                 [] OTHER -> "err")
  /\ UNCHANGED <<now, disk, proc, locals, history, restarts>>

Tick ==
  /\ now < MaxNow
  /\ now' = now + 1
  /\ UNCHANGED <<disk, proc, armed, pc, locals, res, history, restarts>>

\* The process dies: calls in flight are lost, the disk stays.
Restart ==
  /\ restarts < MaxRestarts
  /\ restarts' = restarts + 1
  /\ slot' = None /\ reg' = None /\ cut' = {}
  /\ armed' = [o \in Ops |-> 0]
  /\ res' = [a \in Actors |-> IF pc[a] \in {"new", "done"} THEN res[a] ELSE "lost"]
  /\ pc' = [a \in Actors |-> IF a = Timer \/ pc[a] = "new" THEN "new" ELSE "done"]
  /\ UNCHANGED <<now, disk, locals, history>>

TurnStep(a) ==
  \/ TurnLock(a) \/ TurnCheck(a) \/ AnswerRun(a) \/ TurnLeave(a)
  \/ ResumeInterrupt(a) \/ PostCheck(a) \/ Find(a) \/ WriteRecord(a)
OpStep(o) ==
  \/ InjectStart(o) \/ InjectRun(o) \/ Mint(o) \/ ResumeStart(o) \/ AnswerStart(o) \/ ExtendStart(o)
  \/ PauseCheck(o) \/ PauseRead(o) \/ PauseWrite(o) \/ Sweep(o) \/ Push(o)
  \/ AbortRead(o) \/ AbortWrite(o)

Next ==
  \/ \E a \in Actors : TurnStep(a)
  \/ \E o \in Ops : OpStep(o) \/ TimerPop(o)
  \/ \E a \in Actors : StoreFault(a)
  \/ TimerFetch \/ Rescan \/ Tick \/ Restart

Spec == Init /\ [][Next]_vars

\* Every started call and turn goes on, the scheduler and its rescan run, time
\* passes, and a store asked again and again about a token answers in the end.
Fairness ==
  /\ WF_vars(Tick) /\ WF_vars(Rescan)
  /\ \A a \in Actors : WF_vars(TurnStep(a))
  /\ \A o \in Ops :
       /\ WF_vars(OpStep(o)) /\ SF_vars(TimerPop(o))
       /\ SF_vars(tok[Timer] = o /\ TimerFetch)
       /\ SF_vars(tok[Timer] = o /\ Find(Timer))
       /\ SF_vars(tok[Timer] = o /\ WriteRecord(Timer))

-----------------------------------------------------------------------------
\* A turn past the chokepoint's check that nobody has cancelled.
Unstopped(a) == pc[a] \in {"running", "mint"} /\ a \notin cut
Succeeded(o) == pc[o] = "done" /\ res[o] = "ok"

\* Once /abort has returned success no turn of the session runs uncancelled:
\* runTurnPre registers its cancel handle before it reads the marker, and
\* abortHandler writes the marker before it sweeps.
AbortStopsTurns ==
  (\E o \in Ops : Kind[o] = "abort" /\ Succeeded(o)) => \A a \in Actors : ~Unstopped(a)

\* The same for a hard pause, until the token it minted is spent or another
\* write replaces its record (a stale write may bring the record back later,
\* when turns already run).
HardPauseStopsTurns ==
  \A o \in Ops :
    (Kind[o] = "hardpause" /\ Succeeded(o) /\ rec[Gate].token = o
       /\ o \notin spent \cup replaced)
      => \A a \in Actors : ~Unstopped(a)

\* The token of a parked turn is consumed only once the answer is in the event
\* log, or the session was aborted: a resume turn that failed before the append
\* leaves the token usable (consumeIfAnswered).
ConsumedMeansAnswered ==
  \A o \in Ops :
    (Kind[o] = "inject" /\ rec[o].consumed) => (o \in answered \/ aborted)

\* A gate pause that carries resume_at ends (or loses its time), even when the
\* token's lifetime ended first (ConsumeScheduled).
TimedGate == Active(rec[Gate]) /\ rec[Gate].resumeAt # 0
TimedPauseEnds == []<>~TimedGate

\* An abort that reported success is terminal: the session reads as aborted.
AbortIsTerminal == (\E o \in Ops : Kind[o] = "abort" /\ Succeeded(o)) => aborted

\* transcript.Abort: an aborted session holds no resumable tokens and no timers.
AbortedHoldsNoToken == aborted => \A k \in Keys : ~Active(rec[k])
=============================================================================
