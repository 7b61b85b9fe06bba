------------------------------ MODULE Workflow ------------------------------
(***************************************************************************)
(* Graph dispatch (internal/graph/graph.go): a fixed workflow classifies   *)
(* an incident, routes it to a specialist, gates the specialist's finding  *)
(* on an operator and hands an approved change to the one change executor. *)
(* Session state survives a turn (route, verdict, triage, change); the     *)
(* place the graph has reached does not: a turn enters either at START     *)
(* (an incident, a confirmation of a write, a restart) or at the node      *)
(* whose question was answered.  What a model decides is a choice: the     *)
(* classifier's reply, what a report proposes, when a call parks.          *)
(***************************************************************************)
EXTENDS Naturals, FiniteSets

CONSTANTS Specialists,     \* the roster
          Fallback,        \* the specialist of the Default edge
          Executors,       \* specialists with capability change_executor
          Changes,         \* change sets a report may propose
          RequireApproval, \* hitl.require_approval
          MaxTurns,        \* bound on turns
          None

VARIABLES pc,       \* where the turn is: idle, classify, run, work, reported, execute
          at,       \* the specialist whose node runs
          resumed,  \* ctx.ResumedInput of this turn: None or an answer
          finding,  \* what the accepted report proposes
          route,    \* mast_route
          verdict,  \* mast_verdict:<name>
          change,   \* mast_change_set_<name>
          asks,     \* questions no one has answered: finding gates and parked writes
          raised,   \* questions this turn raised
          said,     \* each gate's last answer, as the operator gave it
          approved, \* <<specialist, change>> pairs an operator read and said yes to
          handed,   \* the last hand-off to the executor
          turns

vars == <<pc, at, resumed, finding, route, verdict, change, asks, raised, said,
          approved, handed, turns>>

Unknown == "unrecognised"       \* a classifier reply that names no specialist
Answer == BOOLEAN \cup {None}
Ask(n, kind, about) == [of |-> n, kind |-> kind, about |-> about]
HandOff(n, c) == [from |-> n, change |-> c]

TypeOK ==
    /\ pc \in {"idle", "classify", "run", "work", "reported", "execute"}
    /\ at \in Specialists \cup {None}
    /\ resumed \in Answer
    /\ finding \in Changes \cup {None}
    /\ route \in Specialists \cup {Unknown, None}
    /\ verdict \in [Specialists -> Answer]
    /\ change \in [Specialists -> Changes \cup {None}]
    /\ asks \subseteq [of : Specialists, kind : {"finding", "write"},
                       about : Changes \cup {None}]
    /\ raised \in Nat
    /\ said \in [Specialists -> Answer]
    /\ approved \subseteq Specialists \X (Changes \cup {None})
    /\ handed \in [from : Specialists, change : Changes] \cup {None}
    /\ turns \in 0 .. MaxTurns

Init ==
    /\ pc = "idle" /\ at = None /\ resumed = None /\ finding = None
    /\ route = None /\ asks = {} /\ raised = 0
    /\ verdict = [n \in Specialists |-> None]
    /\ change = [n \in Specialists |-> None]
    /\ said = [n \in Specialists |-> None]
    /\ approved = {} /\ handed = None /\ turns = 0

-----------------------------------------------------------------------------

\* The handoff is wired only for a roster with exactly one change executor.
changeExecutor == IF Cardinality(Executors) = 1
                  THEN CHOOSE n \in Executors : TRUE ELSE None

\* A recognised reply is believed, an unrecognised one falls back on the route
\* this session last took.
routeKey(reply, prior) ==
    IF reply # Unknown THEN reply ELSE IF prior # None THEN prior ELSE Unknown

\* Anything that is not an explicit yes is a no.
verdictApprovedAny(v) == v # None
verdictApproved(v) == v = TRUE

\* The answer of this turn, else the one the session recorded.
recordedVerdict(n) == IF resumed # None THEN resumed ELSE verdict[n]

\* routeChange: a recorded change and a yes lead to the executor; anything less
\* ends the run with the finding as its answer.
routeChange(n, yes) ==
    IF changeExecutor # None /\ change[n] # None /\ yes
    THEN /\ pc' = "execute" /\ at' = changeExecutor
         /\ handed' = HandOff(n, change[n])
    ELSE pc' = "idle" /\ at' = None /\ UNCHANGED handed

-----------------------------------------------------------------------------

\* A turn that enters at START: an incident, or the turn a restart re-runs.
Incident ==
    /\ pc = "idle" /\ turns < MaxTurns
    /\ pc' = "classify" /\ turns' = turns + 1
    /\ raised' = 0 /\ resumed' = None /\ finding' = None
    /\ UNCHANGED <<at, route, verdict, change, asks, said, approved, handed>>

\* An operator answers a finding gate: the workflow resumes at the waiting node.
AnswerFinding(q, yes) ==
    /\ pc = "idle" /\ turns < MaxTurns
    /\ q \in asks /\ q.kind = "finding"
    /\ asks' = asks \ {q}
    /\ said' = [said EXCEPT ![q.of] = yes]
    /\ approved' = IF yes THEN approved \cup {<<q.of, q.about>>} ELSE approved
    /\ pc' = "run" /\ at' = q.of /\ resumed' = yes
    /\ turns' = turns + 1 /\ raised' = 0 /\ finding' = None
    /\ UNCHANGED <<route, verdict, change, handed>>

\* An operator answers the write gate: the graph re-enters at START as a fresh
\* run with no resumed input.
ConfirmWrite(q) ==
    /\ pc = "idle" /\ turns < MaxTurns
    /\ q \in asks /\ q.kind = "write"
    /\ asks' = asks \ {q}
    /\ pc' = "classify" /\ turns' = turns + 1
    /\ raised' = 0 /\ resumed' = None /\ finding' = None
    /\ UNCHANGED <<at, route, verdict, change, said, approved, handed>>

\* The classifier and the route node; an unknown key takes the Default edge.
Classify(reply) ==
    /\ pc = "classify"
    /\ route' = routeKey(reply, route)
    /\ at' = IF route' \in Specialists THEN route' ELSE Fallback
    /\ pc' = "run"
    /\ UNCHANGED <<resumed, finding, verdict, change, asks, raised, said, approved,
                   handed, turns>>

\* run_<name>: an answered gate is not asked again and its specialist not re-run;
\* the change it proposed is read back from the session.
Run ==
    /\ pc = "run"
    /\ LET v == recordedVerdict(at) IN
       IF v # None
       THEN /\ verdict' = [verdict EXCEPT ![at] = v]
            /\ routeChange(at, verdictApproved(v))
       ELSE pc' = "work" /\ UNCHANGED <<at, verdict, handed>>
    /\ resumed' = None
    /\ UNCHANGED <<finding, route, change, asks, raised, said, approved, turns>>

\* The specialist calls finish_task.  The write gate records a non-empty change
\* set before the tool runs, and an empty one leaves the record alone; the tool's
\* own validation may still send the report back to the model.
Report(c, accepted) ==
    /\ pc = "work" /\ at # changeExecutor
    /\ change' = IF c # None THEN [change EXCEPT ![at] = c] ELSE change
    /\ IF accepted THEN pc' = "reported" /\ finding' = c
                   ELSE UNCHANGED <<pc, finding>>
    /\ UNCHANGED <<at, resumed, route, verdict, asks, raised, said, approved, handed,
                   turns>>

\* A mutating call parks at the write gate.  The run node raises on the wait, so
\* the turn ends with the child's one question.
ParkAndAsk ==
    /\ pc \in {"work", "execute"}
    /\ asks' = asks \cup {Ask(at, "write", None)} /\ raised' = raised + 1
    /\ pc' = IF pc = "work" /\ at # changeExecutor THEN "reported" ELSE "idle"
    /\ at' = IF pc' = "idle" THEN None ELSE at
    /\ UNCHANGED <<resumed, finding, route, verdict, change, said, approved, handed,
                   turns>>
Park ==
    /\ pc \in {"work", "execute"}
    /\ asks' = asks \cup {Ask(at, "write", None)} /\ raised' = raised + 1
    /\ pc' = "idle" /\ at' = None
    /\ UNCHANGED <<resumed, finding, route, verdict, change, said, approved, handed,
                   turns>>

\* After an accepted report: stash the finding and park on the operator, under an
\* id that depends on the specialist alone, so a second finding replaces the
\* question of the first; without require_approval the change is routed at once.
Gate ==
    /\ pc = "reported"
    /\ IF RequireApproval
       THEN /\ asks' = {q \in asks : ~(q.kind = "finding" /\ q.of = at)}
                       \cup {Ask(at, "finding", finding)}
            /\ raised' = raised + 1
            /\ pc' = "idle" /\ at' = None /\ UNCHANGED handed
       ELSE routeChange(at, TRUE) /\ UNCHANGED <<asks, raised>>
    /\ UNCHANGED <<resumed, finding, route, verdict, change, said, approved, turns>>

\* The executor's report ends the run and is never gated; so does any node's error,
\* and a crash: what the session recorded stays.
Finish ==
    /\ pc \notin {"idle"}
    /\ pc' = "idle" /\ at' = None /\ resumed' = None
    /\ UNCHANGED <<finding, route, verdict, change, asks, raised, said, approved,
                   handed, turns>>

Next ==
    \/ Incident
    \/ \E q \in asks : ConfirmWrite(q) \/ \E yes \in BOOLEAN : AnswerFinding(q, yes)
    \/ \E reply \in Specialists \cup {Unknown} : Classify(reply)
    \/ Run
    \/ \E c \in Changes \cup {None}, ok \in BOOLEAN : Report(c, ok)
    \/ Park
    \/ Gate
    \/ Finish

Spec == Init /\ [][Next]_vars

-----------------------------------------------------------------------------

\* Gates hold across turns that re-enter the graph.  The executor is reached from a
\* specialist only when the last answer at that specialist's gate was a yes, and a
\* turn raises at most one question, because an operator who answers one of two
\* strands the other (routeChange, verdictApproved and the WithRaiseOnWait of
\* run_<name> in graph.go).
GatesHold ==
    /\ pc = "execute" /\ handed # None /\ RequireApproval => said[handed.from] = TRUE
    /\ raised <= 1

\* A finding is handed to the executor when it proposed that change and an operator
\* approved it (the comment on routeChange): whatever is handed over was in front of
\* the operator who said yes.
HandedIsWhatWasRead ==
    handed # None /\ RequireApproval => <<handed.from, handed.change>> \in approved
=============================================================================
