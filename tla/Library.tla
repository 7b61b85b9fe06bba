------------------------------ MODULE Library ------------------------------
(* The embedding surface, mast.go: Run and RunWorkload start a turn in a    *)
(* fresh session, ResumeSession and ResumeByToken continue a parked one,    *)
(* Pause gates one, AckEffects acknowledges its ambiguous effects.  Nothing *)
(* serialises the callers: there is no session lock here, and every check   *)
(* is a read of the store some steps before it is relied on.                *)
(*                                                                          *)
(* One parked session, one interrupt and its token, one gate and its token. *)
(* The ADK runner is external: it appends the turn's message, then yields   *)
(* events; a tool or a sub-run inside it may refuse, stop, trip or spend.   *)
EXTENDS Naturals, FiniteSets

CONSTANTS
    Callers,        \* concurrent calls into the package
    Configs,        \* [sessions, model, builds, collides, watchdog] records
    MaxEvents,      \* bound: events one turn's stream yields
    MaxFaults,      \* bound: store calls that fail in one behaviour
    None

VARIABLES
    cfg,        \* the embedder's Config and bundle
    call,       \* caller |-> what it is doing
    turn,       \* caller |-> its runTurn
    pending,    \* the session's interrupt is unanswered
    answers,    \* history: resume messages appended for the interrupt
    aborted,    \* the session carries an abort marker
    gate,       \* the gate pause's record: "none", "active", "consumed"
    token,      \* the interrupt's pause record: "live", "expired", "consumed"
    acked,      \* an effects acknowledgement is on record
    faults

vars == <<cfg, call, turn, pending, answers, aborted, gate, token, acked, faults>>
session == <<pending, answers, aborted, gate, token, acked>>

Ops == {"Run", "RunWorkload", "ResumeSession", "ResumeByToken", "ResumeGate", "Pause", "AckEffects"}
NeedsSessions == {"ResumeSession", "ResumeByToken", "ResumeGate", "Pause", "AckEffects"}

Idle == [op |-> None, at |-> "idle", result |-> None]
NoTurn == [events |-> 0, stop |-> FALSE, refused |-> FALSE, halted |-> FALSE]

Init ==
    /\ cfg \in Configs
    /\ call = [c \in Callers |-> Idle]
    /\ turn = [c \in Callers |-> NoTurn]
    /\ pending = TRUE
    /\ answers = 0
    /\ aborted = FALSE
    /\ gate = "none"
    /\ token = "live"
    /\ acked = FALSE
    /\ faults = 0

Goto(c, pc) == call' = [call EXCEPT ![c].at = pc]
Return(c, result) == call' = [call EXCEPT ![c].at = "done", ![c].result = result]
Fails == faults < MaxFaults /\ faults' = faults + 1

-----------------------------------------------------------------------------
(* The entry points, up to the turn.                                         *)

Enter(c) ==
    /\ call[c].at = "idle"
    /\ \E op \in Ops :
          call' = [call EXCEPT ![c] =
            IF op \in NeedsSessions /\ ~cfg.sessions
            THEN [op |-> op, at |-> "done", result |-> "error"]
            ELSE [op |-> op, result |-> None,
                  at |-> CASE op \in {"Run", "RunWorkload"} -> "build"
                           [] op = "ResumeSession" -> "check"
                           [] op \in {"ResumeByToken", "ResumeGate"} -> "find"
                           [] OTHER -> "write"]]
    /\ UNCHANGED <<cfg, turn, session, faults>>

(* Pause's PauseGate and AckEffects: one read and one append of the store.   *)
Pause(c) ==
    /\ call[c].at = "write" /\ call[c].op = "Pause"
    /\ \/ ~aborted /\ gate' = "active" /\ Return(c, "ok") /\ UNCHANGED faults
       \/ aborted /\ Return(c, "error") /\ UNCHANGED <<gate, faults>>
       \/ Fails /\ Return(c, "error") /\ UNCHANGED gate
    /\ UNCHANGED <<cfg, turn, pending, answers, aborted, token, acked>>

AckEffects(c) ==
    /\ call[c].at = "write" /\ call[c].op = "AckEffects"
    /\ \/ acked' = TRUE /\ Return(c, "ok") /\ UNCHANGED faults
       \/ Fails /\ Return(c, "error") /\ UNCHANGED acked
    /\ UNCHANGED <<cfg, turn, pending, answers, aborted, gate, token>>

(* ResumeByToken's reading of the pause record.                              *)
FindToken(c) ==
    /\ call[c].at = "find"
    /\ \/ Fails /\ Return(c, "error")
       \/ /\ UNCHANGED faults
          /\ IF call[c].op = "ResumeGate"
             THEN IF gate = "active" THEN Goto(c, "consume") ELSE Return(c, "error")
             ELSE IF token = "live" THEN Goto(c, "check") ELSE Return(c, "error")
    /\ UNCHANGED <<cfg, turn, session>>

(* A gate resume consumes the token, and that is the resume: no turn runs.   *)
ConsumeGate(c) ==
    /\ call[c].at = "consume" /\ call[c].op = "ResumeGate"
    /\ \/ gate = "active" /\ gate' = "consumed" /\ Return(c, "ok") /\ UNCHANGED faults
       \/ gate # "active" /\ Return(c, "error") /\ UNCHANGED <<gate, faults>>
       \/ Fails /\ Return(c, "error") /\ UNCHANGED gate
    /\ UNCHANGED <<cfg, turn, pending, answers, aborted, token, acked>>

(* ResumeSession's admission: aborted and gate-paused sessions are refused.  *)
(* A token's resume goes on to the post-check whatever ResumeSession said.   *)
Refused(c) == IF call[c].op = "ResumeByToken" THEN "post" ELSE "done"
RefuseTurn(c) ==
    call' = [call EXCEPT ![c].at = Refused(c), ![c].result = "error"]

ResumeSession(c) ==
    /\ call[c].at = "check"
    /\ \/ (aborted \/ gate = "active") /\ RefuseTurn(c) /\ UNCHANGED faults
       \/ ~aborted /\ gate # "active" /\ Goto(c, "build") /\ UNCHANGED faults
       \/ Fails /\ RefuseTurn(c)
    /\ UNCHANGED <<cfg, turn, session>>

(* resolveModel, BuildRoot and runTurn's own refusals: a name shared by a    *)
(* sub-agent and a mutating tool, a watchdog posture that does not parse.    *)
Build(c) ==
    /\ call[c].at = "build"
    /\ IF cfg.model /\ (call[c].op # "Run" => cfg.builds /\ ~cfg.collides /\ cfg.watchdog # "bad")
       THEN Goto(c, "start") ELSE RefuseTurn(c)
    /\ UNCHANGED <<cfg, turn, session, faults>>

-----------------------------------------------------------------------------
(* runTurn.                                                                  *)

Resumes(c) == call[c].op \in {"ResumeSession", "ResumeByToken"}

(* The runner appends the message first: for a resume, the interrupt's       *)
(* FunctionResponse.                                                         *)
Begin(c) ==
    /\ call[c].at = "start"
    /\ \/ /\ Goto(c, "stream") /\ UNCHANGED faults
          /\ IF Resumes(c) THEN pending' = FALSE /\ answers' = answers + 1
             ELSE UNCHANGED <<pending, answers>>
       \/ RefuseTurn(c) /\ Fails /\ UNCHANGED <<pending, answers>>
    /\ UNCHANGED <<cfg, turn, aborted, gate, token, acked>>

Turning(c) == call[c].at = "stream"

(* Run carries no bundle: the default posture, no specialist's cap, no       *)
(* planner.                                                                  *)
libraryWatchdogMode(c) == IF call[c].op = "Run" THEN "feedback" ELSE cfg.watchdog
Caps(c) == IF call[c].op = "Run" THEN {"session"} ELSE {"scope", "session"}
Mark(c, f) == turn' = [turn EXCEPT ![c][f] = TRUE]

(* Inside the runner, between the events it yields: the loop guard or the    *)
(* write gate stops the turn, or a call gate refuses a call at the session's *)
(* ceiling (a specialist's own cap only reroutes).                           *)
StopTurn(c) == Turning(c) /\ Mark(c, "stop") /\ UNCHANGED <<cfg, call, session, faults>>
Refusal(c) == Turning(c) /\ Mark(c, "refused") /\ UNCHANGED <<cfg, call, session, faults>>

(* A planner dispatch: the sink meters first, and a session ceiling crossed  *)
(* there ends the dispatch and has the planner's next model call refused.    *)
(* What the sink records of a mutating call is Dispatch.tla's subject.       *)
Dispatch(c) ==
    /\ Turning(c) /\ ~turn[c].stop /\ call[c].op # "Run"
    /\ turn' = [turn EXCEPT ![c].refused = TRUE]
    /\ UNCHANGED <<cfg, call, session, faults>>

(* One turn of the loop over the stream.  Observation comes first, so a halt *)
(* this event raised is visible; then the meter's ceiling, then refusals.    *)
(* fold reports a specialist's own cap before it looks at the session's.     *)
Event(c) ==
    /\ Turning(c) /\ turn[c].events < MaxEvents
    /\ \E alert \in BOOLEAN, crossed \in SUBSET Caps(c) :
          LET halted == alert /\ libraryWatchdogMode(c) = "enforce"
              fatal == crossed = {"session"}
          IN  /\ turn' = [turn EXCEPT ![c].events = @ + 1, ![c].halted = halted]
              /\ IF halted \/ fatal \/ turn[c].refused THEN RefuseTurn(c) ELSE UNCHANGED call
    /\ UNCHANGED <<cfg, session, faults>>

(* The stream yields an error: a cancelled run's own, or the store's.        *)
StreamError(c) ==
    /\ Turning(c)
    /\ IF turn[c].stop THEN UNCHANGED faults ELSE Fails
    /\ RefuseTurn(c)
    /\ UNCHANGED <<cfg, turn, session>>

(* The stream ends.  A refusal or a stop inside a sub-run that surfaced no   *)
(* event is looked for once more before a Result is handed over.             *)
FinishTrusting(c) ==
    /\ Turning(c)
    /\ call' = [call EXCEPT ![c].at = Refused(c), ![c].result = "result"]
    /\ UNCHANGED <<cfg, turn, session, faults>>

Finish(c) ==
    /\ Turning(c)
    /\ IF turn[c].refused \/ turn[c].stop THEN RefuseTurn(c)
       ELSE call' = [call EXCEPT ![c].at = Refused(c), ![c].result = "result"]
    /\ UNCHANGED <<cfg, turn, session, faults>>

-----------------------------------------------------------------------------
(* ResumeByToken after its turn: the token is consumed once the interrupt is *)
(* no longer pending, however the turn ended.                                *)
PostCheckBlind(c) ==
    /\ call[c].at = "post"
    /\ \/ Goto(c, "consume") /\ UNCHANGED faults
       \/ Goto(c, "done") /\ Fails
    /\ UNCHANGED <<cfg, turn, session>>

PostCheck(c) ==
    /\ call[c].at = "post"
    /\ \/ Goto(c, IF pending THEN "done" ELSE "consume") /\ UNCHANGED faults
       \/ Goto(c, "done") /\ Fails
    /\ UNCHANGED <<cfg, turn, session>>

ConsumeScheduled(c) ==
    /\ call[c].at = "consume" /\ call[c].op = "ResumeByToken"
    /\ \/ token' = "consumed" /\ UNCHANGED faults
       \/ UNCHANGED token /\ Fails
    /\ Goto(c, "done")
    /\ UNCHANGED <<cfg, turn, pending, answers, aborted, gate, acked>>

Expire == token = "live" /\ token' = "expired"
          /\ UNCHANGED <<cfg, call, turn, pending, answers, aborted, gate, acked, faults>>
Abort == ~aborted /\ cfg.sessions /\ aborted' = TRUE
         /\ UNCHANGED <<cfg, call, turn, pending, answers, gate, token, acked, faults>>

Next ==
    \/ Expire \/ Abort
    \/ \E c \in Callers :
          \/ Enter(c) \/ Pause(c) \/ AckEffects(c) \/ FindToken(c) \/ ConsumeGate(c)
          \/ ResumeSession(c) \/ Build(c) \/ Begin(c) \/ StopTurn(c) \/ Refusal(c)
          \/ Dispatch(c) \/ Event(c) \/ StreamError(c) \/ Finish(c)
          \/ PostCheck(c) \/ ConsumeScheduled(c)

Spec == Init /\ [][Next]_vars

-----------------------------------------------------------------------------
TypeOK ==
    /\ cfg \in Configs
    /\ \A c \in Callers :
          /\ call[c].op \in Ops \cup {None}
          /\ call[c].result \in {None, "ok", "result", "error"}
          /\ turn[c].events \in 0..MaxEvents
    /\ gate \in {"none", "active", "consumed"}
    /\ token \in {"live", "expired", "consumed"}
    /\ faults \in 0..MaxFaults

(* ResultIsEarned: a caller holds a Result and no error only when nothing    *)
(* stopped its turn: not the loop guard or the write gate between events,    *)
(* not a refusal inside a sub-run that surfaced no event, not the watchdog   *)
(* (runTurn's returns).                                                      *)
ResultIsEarned ==
    \A c \in Callers : call[c].result = "result" =>
        ~turn[c].stop /\ ~turn[c].refused /\ ~turn[c].halted

(* ConsumedOnAppend: a spent interrupt token means the interrupt's answer is *)
(* on the log, however the resume turn ended; a turn that failed before the  *)
(* append leaves the token for a retry (ResumeByToken's post-check).         *)
ConsumedOnAppend == token = "consumed" => answers > 0
=============================================================================
