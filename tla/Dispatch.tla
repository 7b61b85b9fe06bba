------------------------------ MODULE Dispatch ------------------------------
(***************************************************************************)
(* A planner's dispatches (internal/planner/dispatch.go, pause.go) and the *)
(* daemon's sink on each of them (internal/cli/subrun.go with              *)
(* internal/effects/subrun.go).  A specialist runs in a throwaway session; *)
(* what the host knows of it is what the sink observes: its spend, its     *)
(* loops and the mutating calls it is about to make.  Dispatches of one    *)
(* turn run in parallel and share the session's meter, watchdog and store. *)
(* An event that carries a call is observed before the tool body runs.     *)
(***************************************************************************)
EXTENDS Naturals, FiniteSets

CONSTANTS Dispatches,   \* invoke_specialist calls of one turn
          Ids,          \* call ids inside a dispatch
          Ceiling,      \* the session's budget, in model calls
          Enforce,      \* the watchdog's mode is enforce
          MaxFaults,    \* bound on failed store writes
          None

VARIABLES turn,      \* "running", "cancelled", "paused", "over"
          disp,      \* each dispatch: [pc, call, made, outcome]
          spend,     \* model calls the session's meter holds
          alerted,   \* alerts queued as feedback for the planner
          trip,      \* the watchdog's latch, and whether it was persisted
          intents,   \* recorded intents no completion has paired
          recorded,  \* calls whose intent was ever recorded
          ran,       \* calls whose tool body ran
          stopped,   \* calls whose own sink stopped the dispatch
          counts,    \* dispatches by outcome, as the registry counts them
          faults

vars == <<turn, disp, spend, alerted, trip, intents, recorded, ran, stopped, counts,
          faults>>

Calls == Dispatches \X Ids
Outcomes == {"ok", "failed", "halted"}

TypeOK ==
    /\ turn \in {"running", "cancelled", "paused", "over"}
    /\ disp \in [Dispatches -> [pc : {"new", "open", "calling", "ran", "closed"},
                                call : Ids \cup {None}, made : SUBSET Ids,
                                outcome : Outcomes \cup {None}]]
    /\ spend \in 0 .. Ceiling + Cardinality(Dispatches)
    /\ alerted \in BOOLEAN /\ trip \in {None, "latched", "persisted"}
    /\ intents \subseteq recorded /\ recorded \subseteq Calls
    /\ ran \subseteq Calls /\ stopped \subseteq Calls
    /\ counts \in [Outcomes -> 0 .. Cardinality(Dispatches)]
    /\ faults \in 0 .. MaxFaults

Init ==
    /\ turn = "running"
    /\ disp = [d \in Dispatches |-> [pc |-> "new", call |-> None, made |-> {}, outcome |-> None]]
    /\ spend = 0 /\ alerted = FALSE /\ trip = None
    /\ intents = {} /\ recorded = {} /\ ran = {} /\ stopped = {}
    /\ counts = [o \in Outcomes |-> 0] /\ faults = 0

-----------------------------------------------------------------------------

\* The planner calls invoke_specialist; an unknown name is answered with an error
\* and opens nothing.  The sink is opened before the runner exists.
SubRun(d) ==
    /\ turn = "running" /\ disp[d].pc = "new"
    /\ disp' = [disp EXCEPT ![d].pc = "open"]
    /\ UNCHANGED <<turn, spend, alerted, trip, intents, recorded, ran, stopped, counts,
                   faults>>

\* The sub-runner cannot be built: the sink closes with the error.
NoRunner(d) ==
    /\ disp[d].pc = "open" /\ disp[d].made = {}
    /\ disp' = [disp EXCEPT ![d].pc = "closed", ![d].outcome = "failed"]
    /\ counts' = [counts EXCEPT !["failed"] = @ + 1]
    /\ UNCHANGED <<turn, spend, alerted, trip, intents, recorded, ran, stopped, faults>>

\* onAlert: queued for the planner; under enforce the trip latches, is persisted if
\* the store takes it, and the turn is cancelled.  It halts the dispatch only if the
\* latch was not already set.
Alert(alert, stored) ==
    /\ alerted' = (alerted \/ alert)
    /\ IF alert /\ Enforce /\ trip = None
       THEN trip' = IF stored THEN "persisted" ELSE "latched"
       ELSE UNCHANGED trip
Halts(alert) == alert /\ Enforce /\ trip = None

\* The sink's verdict on one event, in the order its consumers run: the watchdog,
\* the meter, the intent recorder; each may stop the dispatch and then the later
\* ones never see the event.
Verdict(alert, raises, stored) ==
    IF Halts(alert) THEN "watchdog"
    ELSE IF spend + 1 > Ceiling THEN "budget"
    ELSE IF raises /\ ~stored THEN "unrecorded" ELSE "go"

Metered(v) == v # "watchdog"
RecordsEarly(v, raises, stored) == raises /\ stored
Records(v, raises, stored) == raises /\ stored /\ v = "go"
StopsSwallowing(v) == v \in {"watchdog", "budget"}
Stops(v) == v # "go"

\* A model response is observed: text alone, or a mutating call about to be made.
Observe(d, id, alert, stored) ==
    LET raises == id # None
        v == Verdict(alert, raises, stored) IN
    /\ turn = "running" /\ disp[d].pc = "open"
    /\ ~stored => raises /\ faults < MaxFaults
    /\ id \notin disp[d].made
    /\ Alert(alert, stored)
    /\ turn' = IF Halts(alert) THEN "cancelled" ELSE turn
    /\ spend' = IF Metered(v) THEN spend + 1 ELSE spend
    /\ IF Records(v, raises, stored)
       THEN intents' = intents \cup {<<d, id>>} /\ recorded' = recorded \cup {<<d, id>>}
       ELSE UNCHANGED <<intents, recorded>>
    /\ IF Stops(v)
       THEN /\ disp' = [disp EXCEPT ![d] = [@ EXCEPT !.pc = "closed", !.outcome = "halted"]]
            /\ counts' = [counts EXCEPT !["halted"] = @ + 1]
            /\ stopped' = IF raises THEN stopped \cup {<<d, id>>} ELSE stopped
       ELSE /\ disp' = IF raises THEN [disp EXCEPT ![d] = [@ EXCEPT !.pc = "calling",
                                           !.call = id, !.made = @ \cup {id}]]
                       ELSE disp
            /\ UNCHANGED <<counts, stopped>>
    /\ faults' = IF stored THEN faults ELSE faults + 1
    /\ UNCHANGED ran

\* The tool body runs; a cancelled context need not stop a body already called.
Body(d) ==
    /\ disp[d].pc = "calling"
    /\ ran' = ran \cup {<<d, disp[d].call>>}
    /\ disp' = [disp EXCEPT ![d].pc = "ran"]
    /\ UNCHANGED <<turn, spend, alerted, trip, intents, recorded, stopped, counts, faults>>

\* The tool's response is observed: the intent is paired.  A completion that cannot
\* be written is swallowed, and the intent stays dangling.
Complete(d, stored) ==
    /\ disp[d].pc = "ran" /\ turn = "running"
    /\ ~stored => faults < MaxFaults
    /\ intents' = IF stored THEN intents \ {<<d, disp[d].call>>} ELSE intents
    /\ disp' = [disp EXCEPT ![d].pc = "open", ![d].call = None]
    /\ faults' = IF stored THEN faults ELSE faults + 1
    /\ UNCHANGED <<turn, spend, alerted, trip, recorded, ran, stopped, counts>>

\* The dispatch ends by itself, or because the provider failed or the turn was
\* cancelled under it.  Closing the sink drains the watchdog, which may still latch.
Close(d, how, alert, stored) ==
    /\ disp[d].pc \in {"open", "calling", "ran"}
    /\ how = "ok" => disp[d].pc = "open" /\ turn = "running"
    /\ how # "halted"
    /\ disp' = [disp EXCEPT ![d].pc = "closed", ![d].outcome = how]
    /\ Alert(alert, stored)
    /\ turn' = IF Halts(alert) /\ turn = "running" THEN "cancelled" ELSE turn
    /\ counts' = [counts EXCEPT ![how] = @ + 1]
    /\ UNCHANGED <<spend, intents, recorded, ran, stopped, faults>>

\* An operator aborts the turn, or the daemon shuts down.
CancelTurn ==
    /\ turn = "running" /\ turn' = "cancelled"
    /\ UNCHANGED <<disp, spend, alerted, trip, intents, recorded, ran, stopped, counts,
                   faults>>

\* pause_session parks the turn once its token is recorded, and returns an error
\* otherwise; request_operator_input parks without one.
pauseSession(recordedOK) ==
    /\ turn = "running" /\ \A d \in Dispatches : disp[d].pc \in {"new", "closed"}
    /\ ~recordedOK => faults < MaxFaults
    /\ turn' = IF recordedOK THEN "paused" ELSE turn
    /\ faults' = IF recordedOK THEN faults ELSE faults + 1
    /\ UNCHANGED <<disp, spend, alerted, trip, intents, recorded, ran, stopped, counts>>

FinishTurn ==
    /\ turn # "over" /\ \A d \in Dispatches : disp[d].pc \in {"new", "closed"}
    /\ turn' = "over"
    /\ UNCHANGED <<disp, spend, alerted, trip, intents, recorded, ran, stopped, counts,
                   faults>>

Next ==
    \/ \E d \in Dispatches :
          \/ SubRun(d) \/ NoRunner(d) \/ Body(d)
          \/ \E stored \in BOOLEAN :
                \/ Complete(d, stored)
                \/ \E alert \in BOOLEAN, id \in Ids \cup {None} : Observe(d, id, alert, stored)
                \/ \E alert \in BOOLEAN, how \in Outcomes : Close(d, how, alert, stored)
    \/ \E ok \in BOOLEAN : pauseSession(ok)
    \/ CancelTurn \/ FinishTurn

Spec == Init /\ [][Next]_vars

-----------------------------------------------------------------------------

\* The durable record of a dispatched specialist's effects is right in both
\* directions: a mutating call runs only after its intent was made durable, an
\* intent is never left behind by a call that the dispatch's own sink stopped, and
\* a dispatch that completed leaves one dangling only if a completion could not be
\* written (daemonSubRun.Observe and SubRunRecorder.Observe, which records last).
IntentsMatchCalls ==
    /\ ran \subseteq recorded
    /\ stopped \cap recorded = {}
    /\ \A c \in ran \cap intents : disp[c[1]].outcome # "ok" \/ faults > 0
=============================================================================
