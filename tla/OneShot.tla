------------------------------ MODULE OneShot ------------------------------
(***************************************************************************)
(* The command line (internal/cli/main.go) and the one-shot turn           *)
(* (oneshot.go, refusalstop.go): the checks that refuse a command line,    *)
(* the choice of a model, the event loop of the single turn with its       *)
(* three ways of being stopped (watchdog halt, a refusal that ends the     *)
(* turn, the timeout), and the outcome, output and exit code it ends with. *)
(*                                                                         *)
(* The stream is the ADK runner's: events that may carry a structured      *)
(* output or text, then an end or an error; a cancelled context makes it   *)
(* fail or just end.  An alert is raised while an event is tapped, a       *)
(* refusal while the runner works.                                         *)
(***************************************************************************)
EXTENDS Integers

CONSTANTS
  Flags,      \* command lines: [parse, version, provider, model, modelSet, task,
              \* posture, prompt, misplaced, serveOnly, timeout]
  FamilyOf,   \* the family a model id belongs to
  MaxEvents,
  None

VARIABLES
  flags, at,
  model,       \* the resolved model
  events,      \* events counted
  refused,     \* refusalStop.reason is set
  cancelled,   \* the turn's context is done
  tripped,     \* the enforcer has tripped
  lastOutput, lastText,
  outcome,     \* what the turn's span was completed with
  printed,     \* what went to stdout
  exit

vars == <<flags, at, model, events, refused, cancelled, tripped, lastOutput, lastText,
          outcome, printed, exit>>

exitOK == 0
exitFailure == 1
exitUsage == 2

TypeOK ==
  /\ flags \in Flags /\ at \in {"args", "build", "turn", "serve", "over"}
  /\ events \in 0..MaxEvents /\ refused \in BOOLEAN /\ tripped \in BOOLEAN
  /\ lastOutput \in {None} \cup 1..MaxEvents /\ lastText \in {None} \cup 1..MaxEvents
  /\ outcome \in {None, "ok", "error", "watchdog_halt", "stopped"}
  /\ exit \in {None, exitOK, exitFailure, exitUsage}

Init ==
  /\ flags \in Flags /\ at = "args" /\ model = None
  /\ events = 0 /\ refused = FALSE /\ cancelled = FALSE /\ tripped = FALSE
  /\ lastOutput = None /\ lastText = None
  /\ outcome = None /\ printed = None /\ exit = None

\* What --provider makes of --model: the family it pins, a default from it when
\* none was asked for, or a refusal (None).  No provider leaves the model be.
Families == {"echo", "scripted", "gemini", "anthropic", "profile"}
PinOf(provider) ==
  CASE provider = "vertex" -> "gemini" [] provider = "anthropic-vertex" -> "anthropic"
    [] OTHER -> provider
resolveModelSelection(provider, name, set) ==
  LET pin == PinOf(provider)
      default == CHOOSE m \in DOMAIN FamilyOf : FamilyOf[m] = pin
  IN  CASE provider = None -> name
        [] provider # None /\ pin \notin Families -> None
        [] provider # None /\ pin \in Families ->
             IF ~set THEN default ELSE IF FamilyOf[name] = pin THEN name ELSE None

\* run: every check of the command line, in order, then one-shot or serve.
refusesArgs ==
  \/ ~flags.parse
  \/ resolveModelSelection(flags.provider, flags.model, flags.modelSet) = None
  \/ flags.posture = "unknown"
  \/ flags.prompt /\ (flags.misplaced \/ flags.task = "unknown" \/ flags.serveOnly)
  \/ ~flags.prompt /\ flags.task # None
run ==
  /\ at = "args"
  /\ IF flags.parse /\ flags.version
     THEN at' = "over" /\ exit' = exitOK /\ UNCHANGED model
     ELSE IF refusesArgs
     THEN at' = "over" /\ exit' = exitUsage /\ UNCHANGED model
     ELSE /\ model' = resolveModelSelection(flags.provider, flags.model, flags.modelSet)
          /\ at' = IF flags.prompt THEN "build" ELSE "serve"
          /\ UNCHANGED exit
  /\ UNCHANGED <<flags, events, refused, cancelled, tripped, lastOutput, lastText, outcome, printed>>

\* runOneShot up to the runner: a model, a store, a root, the plugins; any of
\* them may refuse, before the turn's span is opened.
Compose ==
  /\ at = "build"
  /\ \/ at' = "turn" /\ UNCHANGED exit
     \/ at' = "over" /\ exit' = exitFailure
  /\ UNCHANGED <<flags, model, events, refused, cancelled, tripped, lastOutput, lastText,
                 outcome, printed>>

-----------------------------------------------------------------------------
\* The turn.

Over(o) == at' = "over" /\ outcome' = o /\ exit' = exitFailure /\ UNCHANGED printed

\* StopTurn, from the gate or the guard inside the runner.
StopTurn ==
  /\ at = "turn" /\ ~refused
  /\ refused' = TRUE /\ cancelled' = TRUE
  /\ UNCHANGED <<flags, at, model, events, tripped, lastOutput, lastText, outcome, printed, exit>>

\* The timeout, or a signal.
ContextEnds ==
  /\ at = "turn" /\ ~cancelled
  /\ cancelled' = TRUE
  /\ UNCHANGED <<flags, at, model, events, refused, tripped, lastOutput, lastText, outcome,
                 printed, exit>>

\* An alert trips the enforcer when the posture enforces and the alert halts.
Trips(alert) == tripped \/ (alert /\ flags.posture = "enforce")

\* Mutant: the halt is looked for before the event is tapped.
EventLate ==
  /\ at = "turn" /\ events < MaxEvents
  /\ \E alert \in BOOLEAN :
       /\ tripped' = Trips(alert)
       /\ IF tripped
          THEN Over("watchdog_halt") /\ UNCHANGED <<events, lastOutput, lastText>>
          ELSE /\ events' = events + 1
               /\ lastOutput' \in {lastOutput, events + 1}
               /\ lastText' \in {lastText, events + 1}
               /\ UNCHANGED <<at, outcome, exit, printed>>
  /\ UNCHANGED <<flags, model, refused, cancelled>>

\* Tap drains the alerts of an event before it yields it; a halt abandons the
\* stream, otherwise the event's output and text are kept.
Event ==
  /\ at = "turn" /\ events < MaxEvents
  /\ \E alert \in BOOLEAN :
       /\ tripped' = Trips(alert)
       /\ IF tripped'
          THEN Over("watchdog_halt") /\ UNCHANGED <<events, lastOutput, lastText>>
          ELSE /\ events' = events + 1
               /\ lastOutput' \in {lastOutput, events + 1}
               /\ lastText' \in {lastText, events + 1}
               /\ UNCHANGED <<at, outcome, exit, printed>>
  /\ UNCHANGED <<flags, model, refused, cancelled>>

\* The stream fails: the recorded reason wins over the error it caused.
StreamFails ==
  /\ at = "turn"
  /\ Over(IF refused THEN "stopped" ELSE "error")
  /\ UNCHANGED <<flags, model, events, refused, cancelled, tripped, lastOutput, lastText>>

Output == IF lastOutput # None THEN lastOutput ELSE IF lastText # None THEN lastText ELSE 0

\* Mutant: a stream that ends is a turn that completed.
StreamEndsWell ==
  /\ at = "turn"
  /\ at' = "over" /\ outcome' = "ok" /\ exit' = exitOK /\ printed' = Output
  /\ UNCHANGED <<flags, model, events, refused, cancelled, tripped, lastOutput, lastText>>

\* A cancelled stream can also just end.
StreamEnds ==
  /\ at = "turn"
  /\ IF refused THEN Over("stopped")
     ELSE /\ at' = "over" /\ outcome' = "ok" /\ exit' = exitOK /\ printed' = Output
  /\ UNCHANGED <<flags, model, events, refused, cancelled, tripped, lastOutput, lastText>>

Next ==
  run \/ Compose \/ StopTurn \/ ContextEnds \/ Event \/ StreamFails \/ StreamEnds

Spec == Init /\ [][Next]_vars

-----------------------------------------------------------------------------
\* Exit code, span outcome and output tell one story of a one-shot turn: a turn
\* that the gate or the watchdog stopped never exits 0 and prints nothing,
\* whether its stream failed or just ended, and what a completed turn prints is
\* its last structured output, or its last text.
OneStory ==
  /\ (printed # None) = (outcome = "ok")
  /\ outcome = "ok" => exit = exitOK /\ ~refused /\ ~tripped
  /\ outcome \notin {None, "ok"} => exit = exitFailure
  /\ outcome = "watchdog_halt" => flags.posture = "enforce"
=============================================================================
