----------------------------- MODULE EffectOutbox -----------------------------
(***************************************************************************)
(* The recorded-effect outbox and boot-time auto-resume on one session     *)
(* (internal/effects/{effects,subrun}.go, internal/cli/autoresume.go, the  *)
(* ack, sub-run and attempt records of internal/transcript).               *)
(*                                                                         *)
(* The session log is a function of the call: when its FunctionCall event  *)
(* was appended, which FunctionResponse it has, how its confirmation       *)
(* stands.  Turns are serialised per session (module TurnTracker), so at   *)
(* most one runs.  A call is made by the root's model, or by a specialist  *)
(* inside the sub-run of a spawning call (Parent).  ADK, the tools and the *)
(* model are external: the model may issue any call, and a tool's effect   *)
(* is a counter.                                                           *)
(***************************************************************************)
EXTENDS Naturals, FiniteSets

CONSTANTS
  Calls,        \* function-call IDs the model may issue
  Class,        \* what each call's tool is: the mutation predicate's verdict, or
                \* "delegation" for a call named after a composed sub-agent
  Gated,        \* calls the write gate parks for a confirmation
  Parent,       \* the spawning call whose sub-run makes the call, or None
  Dispatch,     \* the daemon's dispatch mode
  MaxTurns,     \* bound on turns
  MaxExits,     \* bound on process exits
  MaxAttempts,  \* autoResumeMaxAttempts
  None

VARIABLES
  \* the session's event log
  intent,    \* time of the FunctionCall event, 0 when not issued
  resp,      \* its FunctionResponse: "none", "placeholder", "done"
  confirm,   \* its confirmation: "none", "asked", "approve", "reject"
  lastUser,  \* the call the last user message gave a verdict on, or None
  tail,      \* role of the last event with content
  events,    \* number of events
  lastCall,  \* time of the last event that carries a FunctionCall
  \* the ops row
  ext,       \* sub-run intents: time, 0 when blank
  ack,       \* effects-ack watermark, 0 when none
  attempts, recent, \* auto-resume attempt counter; stamped within the window
  marker,    \* interrupted marker
  \* the process
  turn,      \* "none", "fresh", "resume", "auto"
  stage,     \* progress of each call in this turn
  dangling, completions, \* the turn-start snapshot
  boot, cand,            \* the boot pass and the candidate it scanned
  \* clock, environment and history
  clock,     \* time: one tick per recorded event
  effects,   \* times each call's tool ran
  made, settled, \* sub-run calls made, and those whose response was observed
  began, turns,  \* when the turn began; how many did
  exits,     \* how often the process ended
  seen,      \* ambiguous calls an operator acknowledged
  autoRuns   \* auto-resume turns of the attempts stamped in the current window

log == <<intent, resp, confirm, lastUser, tail, events, lastCall>>
ops == <<ext, ack, attempts, recent, marker>>
snapshot == <<dangling, completions>>
bootvars == <<boot, cand>>
sub == <<made, settled>>
hist == <<began, turns, seen, autoRuns>>
vars == <<log, ops, turn, stage, snapshot, bootvars, clock, effects, sub, hist, exits>>

Idle == [c \in Calls |-> "idle"]
NoCandidate == [events |-> 0, mutating |-> {}, repairable |-> {}, deferred |-> {},
                spans |-> FALSE, tail |-> "user"]
Zero == [c \in Calls |-> 0]

TypeOK ==
  /\ intent \in [Calls -> Nat] /\ ext \in [Calls -> Nat] /\ effects \in [Calls -> Nat]
  /\ resp \in [Calls -> {"none", "placeholder", "done"}]
  /\ confirm \in [Calls -> {"none", "asked", "approve", "reject"}]
  /\ lastUser \in Calls \cup {None} /\ tail \in {"user", "model"}
  /\ events \in Nat /\ lastCall \in Nat /\ ack \in Nat /\ attempts \in Nat
  /\ recent \in BOOLEAN /\ marker \in BOOLEAN
  /\ turn \in {"none", "fresh", "resume", "auto"}
  /\ stage \in [Calls -> {"idle", "issued", "recorded", "executed", "stopped"}]
  /\ dangling \subseteq Calls /\ completions \subseteq Calls
  /\ boot \in {"off", "scanned", "counted", "driving", "ran", "done"}
  /\ cand \in [events : Nat, mutating : SUBSET Calls, repairable : SUBSET Calls,
               deferred : SUBSET Calls, spans : BOOLEAN, tail : {"user", "model"}]
  /\ clock \in Nat /\ began \in Nat /\ turns \in 0..MaxTurns /\ exits \in 0..MaxExits
  /\ seen \subseteq Calls /\ made \subseteq Calls /\ settled \subseteq made /\ autoRuns \in Nat

Init ==
  /\ intent = Zero /\ resp = [c \in Calls |-> "none"] /\ confirm = [c \in Calls |-> "none"]
  /\ lastUser = None /\ tail = "user" /\ events = 0 /\ lastCall = 0
  /\ ext = Zero /\ ack = 0 /\ attempts = 0 /\ recent = FALSE /\ marker = FALSE
  /\ turn = "none" /\ stage = Idle /\ dangling = {} /\ completions = {}
  /\ boot = "off" /\ cand = NoCandidate
  /\ clock = 0 /\ effects = Zero /\ made = {} /\ settled = {} /\ began = 0 /\ turns = 0 /\ exits = 0 /\ seen = {} /\ autoRuns = 0

-----------------------------------------------------------------------------
\* pairScan: any response pairs its call, a confirmation's placeholder too.
Unpaired == {c \in Calls : intent[c] # 0 /\ resp[c] = "none"}
Effectful == {c \in Calls : Class[c] \in {"mutating", "spawning"}}
\* DanglingSubRunIntents.
External == {c \in Calls : ext[c] # 0}
Open == (Unpaired \cap Effectful) \cup External
When(c) == IF ext[c] # 0 THEN ext[c] ELSE intent[c]

\* scanHistory's completions: a placeholder closes the pair and completes nothing.
Completed == {c \in Calls : Class[c] \in {"mutating", "delegation"} /\ resp[c] = "done"}

\* What beforeRun keeps: dangling intents the ack watermark does not cover.
Unacked == {c \in Open : When(c) > ack}

Paused == \E c \in Calls : confirm[c] = "asked"
Interrupted == marker /\ ~Paused

\* An event of the session log; the root's calls and every response are such.
Append(role) == events' = events + 1 /\ clock' = clock + 1 /\ tail' = role

\* beforeRun: the snapshot a turn of kind k works from.
StartTurn(k) ==
  /\ turn = "none" /\ turns < MaxTurns
  /\ turn' = k /\ turns' = turns + 1 /\ began' = clock
  /\ dangling' = Unacked /\ completions' = Completed

\* An inject: a user message is appended.
FreshTurn ==
  /\ StartTurn("fresh")
  /\ lastUser' = None /\ Append("user")
  /\ UNCHANGED <<intent, resp, confirm, lastCall, ops, stage, bootvars, effects, sub, seen,
                 autoRuns>>

\* The operator's verdict on a parked call: ADK dispatches the call again under
\* its original ID, with no new FunctionCall event.
ConfirmTurn(c, verdict) ==
  /\ confirm[c] = "asked"
  /\ StartTurn("resume")
  /\ confirm' = [confirm EXCEPT ![c] = verdict]
  /\ lastUser' = c /\ Append("user")
  /\ stage' = [stage EXCEPT ![c] = "issued"]
  /\ UNCHANGED <<intent, resp, lastCall, ops, bootvars, effects, sub, seen, autoRuns>>

\* Mutant: the watermark is written without waiting for the turn slot.
AckEffectsUnlocked ==
  /\ ack' = clock
  /\ seen' = seen \cup {c \in Open : stage[c] = "idle"}
  /\ UNCHANGED <<log, ext, attempts, recent, marker, turn, stage, snapshot, bootvars,
                 clock, effects, sub, began, turns, autoRuns>>

\* ackHandler, and resume --ack-effects before its turn: the watermark is written
\* under the turn slot.
AckEffects ==
  /\ turn = "none"
  /\ ack' = clock
  /\ seen' = seen \cup {c \in Open : stage[c] = "idle"}
  /\ UNCHANGED <<log, ext, attempts, recent, marker, turn, stage, snapshot, bootvars,
                 clock, effects, sub, began, turns, autoRuns>>

-----------------------------------------------------------------------------
\* The model's call is appended before its tool may run.  A parked call ends the
\* turn's model rounds.
Issue(c) ==
  /\ turn # "none" /\ intent[c] = 0 /\ Parent[c] = None
  /\ \A d \in Calls : confirm[d] = "asked" => intent[d] <= began
  /\ intent' = [intent EXCEPT ![c] = clock + 1]
  /\ stage' = [stage EXCEPT ![c] = "issued"]
  /\ Append("model") /\ lastCall' = clock + 1
  /\ UNCHANGED <<resp, confirm, lastUser, ops, turn, snapshot, bootvars, effects, sub, hist>>

Respond(c, r, role) ==
  /\ resp' = [resp EXCEPT ![c] = r]
  /\ stage' = [stage EXCEPT ![c] = "idle"]
  /\ Append(role)
  /\ UNCHANGED <<intent, lastUser, ops, turn, snapshot, bootvars, effects, sub, hist>>

\* Mutant: no replay.
SubstitutedRefusal(c) == Class[c] # "readonly" /\ dangling # {}

\* beforeTool answers the call itself: it replays a recorded completion, or
\* refuses the call in ambiguous-effect mode.  A delegation's name is an unknown
\* tool to the predicate, so mutating.
Substituted(c) ==
  /\ Class[c] # "readonly"
  /\ (Class[c] # "spawning" /\ c \in completions) \/ dangling # {}
BeforeToolAnswers(c) ==
  /\ stage[c] = "issued" /\ Substituted(c)
  /\ Respond(c, "done", "user") /\ UNCHANGED <<confirm, lastCall>>

\* The write gate parks a call that has no verdict: a placeholder response and
\* the confirmation request.
GateParks(c) ==
  /\ stage[c] = "issued" /\ ~Substituted(c)
  /\ c \in Gated /\ confirm[c] = "none"
  /\ confirm' = [confirm EXCEPT ![c] = "asked"]
  /\ Respond(c, "placeholder", "model") /\ lastCall' = clock + 1

\* The write gate answers a rejected call: denied_by_operator.
GateDenies(c) ==
  /\ stage[c] = "issued" /\ ~Substituted(c)
  /\ confirm[c] = "reject"
  /\ Respond(c, "done", "user") /\ UNCHANGED <<confirm, lastCall>>

Execute(c) ==
  /\ stage[c] = "issued" /\ ~Substituted(c)
  /\ c \in Gated => confirm[c] = "approve"
  /\ stage' = [stage EXCEPT ![c] = "executed"]
  /\ effects' = [effects EXCEPT ![c] = @ + 1]
  /\ UNCHANGED <<log, ops, turn, snapshot, bootvars, clock, sub, hist>>

\* The tool returns, once the sub-run it spawned is over.
ToolReturns(c) ==
  /\ stage[c] \in {"executed", "stopped"} /\ Parent[c] = None
  /\ \A d \in Calls : Parent[d] = c => stage[d] = "idle"
  /\ Respond(c, "done", "user") /\ UNCHANGED <<confirm, lastCall>>

-----------------------------------------------------------------------------
\* Mutant: a failed intent write does not stop the dispatch.
SubIntentSwallowed(c) ==
  /\ Parent[c] # None /\ stage[Parent[c]] = "executed" /\ c \notin made
  /\ made' = made \cup {c}
  /\ stage' = [stage EXCEPT ![c] = "recorded"]
  /\ \/ ext' = [ext EXCEPT ![c] = clock + 1] /\ clock' = clock + 1
     \/ UNCHANGED <<ext, clock>>
  /\ UNCHANGED <<log, ack, attempts, recent, marker, turn, snapshot, bootvars, effects,
                 settled, hist>>

\* SubRunRecorder.Observe: a specialist's mutating call is recorded on the ops
\* row before its tool runs; a failed write stops the dispatch.
SubIntent(c) ==
  /\ Parent[c] # None /\ stage[Parent[c]] = "executed" /\ c \notin made
  /\ made' = made \cup {c}
  /\ \/ /\ ext' = [ext EXCEPT ![c] = clock + 1] /\ clock' = clock + 1
        /\ stage' = [stage EXCEPT ![c] = "recorded"]
     \/ /\ stage' = [stage EXCEPT ![Parent[c]] = "stopped"]
        /\ UNCHANGED <<ext, clock>>
  /\ UNCHANGED <<log, ack, attempts, recent, marker, turn, snapshot, bootvars, effects,
                 settled, hist>>

\* The sub-runner carries neither the outbox plugin nor the write gate.
SubExecute(c) ==
  /\ stage[c] = "recorded"
  /\ stage' = [stage EXCEPT ![c] = "executed"]
  /\ effects' = [effects EXCEPT ![c] = @ + 1]
  /\ UNCHANGED <<log, ops, turn, snapshot, bootvars, clock, sub, hist>>

\* Mutant: the completion is keyed by the dispatching call.
SubCompleteParent(c) ==
  /\ Parent[c] # None /\ stage[c] = "executed"
  /\ stage' = [stage EXCEPT ![c] = "idle"] /\ settled' = settled \cup {Parent[c]}
  /\ ext' \in {ext, [ext EXCEPT ![Parent[c]] = 0]}
  /\ UNCHANGED <<log, ack, attempts, recent, marker, turn, snapshot, bootvars, clock,
                 effects, made, hist>>

\* Its response blanks the record; a failed write is swallowed.
SubComplete(c) ==
  /\ Parent[c] # None /\ stage[c] = "executed"
  /\ stage' = [stage EXCEPT ![c] = "idle"] /\ settled' = settled \cup {c}
  /\ ext' \in {ext, [ext EXCEPT ![c] = 0]}
  /\ UNCHANGED <<log, ack, attempts, recent, marker, turn, snapshot, bootvars, clock,
                 effects, made, hist>>

-----------------------------------------------------------------------------
\* The model's final text, and afterRun.
TurnEnds ==
  /\ turn # "none" /\ stage = Idle
  /\ Append("model")
  /\ turn' = "none" /\ dangling' = {} /\ completions' = {}
  /\ boot' = IF turn = "auto" THEN "ran" ELSE boot
  /\ UNCHANGED <<intent, resp, confirm, lastUser, lastCall, ops, stage, cand, effects, sub,
                 hist>>

CutTurn ==
  /\ turn' = "none" /\ stage' = Idle /\ dangling' = {} /\ completions' = {}
  /\ UNCHANGED <<log, ext, ack, attempts, recent, clock, effects, sub, hist>>

\* A caller disconnects or the turn fails; the process lives on.
Cancel ==
  /\ turn # "none" /\ CutTurn
  /\ boot' = IF turn = "auto" THEN "done" ELSE boot
  /\ UNCHANGED <<marker, cand>>

\* The process ends.  A drain that expired has marked the turn it cuts; a crash
\* marks nothing.
ProcessExits ==
  /\ exits < MaxExits /\ exits' = exits + 1
  /\ CutTurn
  /\ marker' \in {marker, marker \/ turn # "none"}
  /\ boot' = "off" /\ cand' = NoCandidate

-----------------------------------------------------------------------------
\* ScanInterrupted, and ScanDangling's buckets of the log it loaded.
BootScan ==
  /\ boot = "off"
  /\ IF Interrupted
     THEN /\ boot' = "scanned"
          /\ cand' = [events |-> events, mutating |-> Unpaired \cap Effectful,
                      repairable |-> {c \in Unpaired : Class[c] = "readonly"},
                      deferred |-> {c \in Unpaired : Class[c] = "delegation"},
                      spans |-> \E c \in Unpaired : Class[c] = "readonly" /\ intent[c] # lastCall,
                      tail |-> tail]
     ELSE boot' = "done" /\ UNCHANGED cand
  /\ UNCHANGED <<log, ops, turn, stage, snapshot, clock, effects, sub, hist>>

\* resumeOne's refusals that read the candidate and the ops row ...
Skipped ==
  \/ Dispatch # "coordinator"
  \/ cand.mutating # {} \/ External # {} \/ cand.deferred # {}
  \/ cand.spans
\* ... the turn that had finished after all ...
Finished == cand.repairable = {} /\ cand.tail = "model"
\* ... and the restart-loop breaker.
LoopBroken == attempts >= MaxAttempts /\ recent

\* Mutant: the attempt is not counted before the turn.
BootDecideUncounted ==
  /\ boot = "scanned"
  /\ \/ boot' = "done" /\ UNCHANGED <<marker, attempts, recent>>
     \/ /\ ~Skipped /\ Finished
        /\ boot' = "done" /\ marker' = FALSE /\ UNCHANGED <<attempts, recent>>
     \/ /\ ~Skipped /\ ~Finished /\ ~LoopBroken
        /\ boot' = "counted" /\ recent' = TRUE /\ UNCHANGED <<marker, attempts>>
  /\ UNCHANGED <<log, ext, ack, turn, stage, snapshot, cand, clock, effects, sub, hist>>

\* resumeOne up to the attempt count, which is durable before the turn.  A store
\* error ends the attempt.
BootDecide ==
  /\ boot = "scanned"
  /\ \/ boot' = "done" /\ UNCHANGED <<marker, attempts, recent>>
     \/ /\ ~Skipped /\ Finished
        /\ boot' = "done" /\ marker' = FALSE /\ UNCHANGED <<attempts, recent>>
     \/ /\ ~Skipped /\ ~Finished /\ ~LoopBroken
        /\ boot' = "counted" /\ attempts' = attempts + 1 /\ recent' = TRUE
        /\ UNCHANGED marker
  /\ UNCHANGED <<log, ext, ack, turn, stage, snapshot, cand, clock, effects, sub, hist>>

\* Mutant: the recheck looks at the marker only.
SupersededMarkerOnly == ~Interrupted

\* The recheck under the turn slot.
Superseded == ~Interrupted \/ events # cand.events
BootSuperseded ==
  /\ boot = "counted" /\ turn = "none" /\ Superseded
  /\ boot' = "done"
  /\ UNCHANGED <<log, ops, turn, stage, snapshot, cand, clock, effects, sub, hist>>

\* The continuation.  Cut-off read-only calls get a synthetic error response;
\* over a history whose last user message is a verdict, ADK may dispatch that
\* call again.
BootDrive ==
  /\ boot = "counted" /\ ~Superseded
  /\ StartTurn("auto") /\ boot' = "driving" /\ autoRuns' = autoRuns + (IF recent THEN 1 ELSE 0)
  /\ IF cand.repairable # {}
     THEN /\ resp' = [c \in Calls |-> IF c \in cand.repairable THEN "done" ELSE resp[c]]
          /\ lastUser' = None /\ Append("user") /\ UNCHANGED stage
     ELSE /\ stage' \in {stage} \cup {[stage EXCEPT ![c] = "issued"] : c \in {lastUser} \ {None}}
          /\ UNCHANGED <<resp, lastUser, events, clock, tail>>
  /\ UNCHANGED <<intent, confirm, lastCall, ops, cand, effects, sub, seen>>

\* After the turn and outside its slot: marker, then counter; either may fail.
BootClears ==
  /\ boot = "ran" /\ boot' = "done"
  /\ marker' \in {marker, FALSE}
  /\ \/ UNCHANGED <<attempts, recent, autoRuns>>
     \/ attempts' = 0 /\ recent' = FALSE /\ autoRuns' = 0
  /\ UNCHANGED <<log, ext, ack, turn, stage, snapshot, cand, clock, effects, sub, began,
                 turns, seen>>

\* autoResumeAttemptWindow elapses.
WindowPasses ==
  /\ recent /\ recent' = FALSE /\ autoRuns' = 0
  /\ UNCHANGED <<log, ext, ack, attempts, marker, turn, stage, snapshot, bootvars, clock,
                 effects, sub, began, turns, seen>>

Serve ==
  \/ FreshTurn \/ AckEffects \/ TurnEnds \/ Cancel
  \/ \E c \in Calls :
       \/ \E verdict \in {"approve", "reject"} : ConfirmTurn(c, verdict)
       \/ Issue(c) \/ BeforeToolAnswers(c) \/ GateParks(c) \/ GateDenies(c)
       \/ Execute(c) \/ ToolReturns(c)
       \/ SubIntent(c) \/ SubExecute(c) \/ SubComplete(c)
BootPass == BootScan \/ BootDecide \/ BootSuperseded \/ BootDrive \/ BootClears

Next ==
  \/ ProcessExits
  \/ (Serve \/ BootPass \/ WindowPasses) /\ UNCHANGED exits

Spec == Init /\ [][Next]_vars

-----------------------------------------------------------------------------
Runs(c) == Class[c] = "mutating" /\ effects'[c] > effects[c]

\* Ambiguous-effect mode: a mutation runs only if an operator has acknowledged
\* every mutating or spawning call an earlier turn left without an outcome.
BlockedByAmbiguity ==
  \A c \in Calls : Runs(c) => \A d \in Open : When(d) <= began => d \in seen
AmbiguityBlocks == [][BlockedByAmbiguity]_vars

\* Exact-key replay: a mutation whose completion is recorded never runs again.
RunsUnlessDone == \A c \in Calls : Runs(c) => resp[c] # "done"
CompletedNeverReruns == [][RunsUnlessDone]_vars

Accounted(c) ==
  turn = "none" /\ effects[c] > 0 => resp[c] = "done" \/ c \in settled \/ c \in Open

\* Between turns every mutation that ran without a confirmation, in the root's
\* loop or inside a dispatch, has a recorded outcome or dangles.
MutationAccounted == \A c \in Calls \ Gated : Class[c] = "mutating" => Accounted(c)

\* Auto-resume starts a turn only on a session where nothing mutating dangles,
\* acknowledged or not.
AutoStartsClean == turn = "none" /\ turn' = "auto" => Open = {}
AutoOverCleanLog == [][AutoStartsClean]_vars

\* The restart-loop breaker: whatever crashes, the attempts stamped within one
\* window drive at most MaxAttempts turns before one succeeds.
AutoBounded == autoRuns <= MaxAttempts

\* autoresume.go: "auto-resume never double-fires a mutation".
NeverDoubleFires == \A c \in Calls : Class[c] = "mutating" => effects[c] <= 1

=============================================================================
