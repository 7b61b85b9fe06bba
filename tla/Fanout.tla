------------------------------- MODULE Fanout -------------------------------
(***************************************************************************)
(* Fan-out dispatch (internal/graph/fanout.go): every analyst of a roster  *)
(* looks at one incident, at most MaxConcurrency of them at a time, and    *)
(* one synthesis specialist merges what they reported.  Invocations of     *)
(* different sessions run at the same time over one branchSemaphores;      *)
(* invocations of one session follow each other and share its event log.   *)
(***************************************************************************)
EXTENDS Integers, FiniteSets

CONSTANTS Invocations, SessionOf, Analysts, MutatingAnalysts,
          MaxConcurrency, DefaultMaxConcurrency, RequireApproval, None

VARIABLES phase,    \* of each invocation
          branch,   \* of each analyst in each invocation
          sems,     \* the slots taken of an invocation's semaphore; None: no semaphore
          log,      \* output events: which analyst reported in which invocation
          findings, \* what synthesis is shown
          stash,    \* each session's stashed report: the invocation that made it
          report    \* an invocation's result: None, "empty", or what it reports of

vars == <<phase, branch, sems, log, findings, stash, report>>

Sessions == {SessionOf[i] : i \in Invocations}
Over == {"reported", "silent", "failed", "cancelled"}
Findings == [reported : SUBSET log, silent : SUBSET Analysts]

TypeOK ==
    /\ phase \in [Invocations -> {"new", "refused", "fan", "failing", "merge", "parked", "done"}]
    /\ branch \in [Invocations -> [Analysts -> {"waiting", "running"} \cup Over]]
    /\ sems \in [Invocations -> Nat \cup {None}]
    /\ log \subseteq Invocations \X Analysts
    /\ findings \in [Invocations -> Findings \cup {None}]
    /\ stash \in [Sessions -> Invocations \cup {None}]
    /\ report \in [Invocations -> Invocations \cup {None, "empty"}]

Init ==
    /\ phase = [i \in Invocations |-> "new"]
    /\ branch = [i \in Invocations |-> [a \in Analysts |-> "waiting"]]
    /\ sems = [i \in Invocations |-> None]
    /\ log = {}
    /\ findings = [i \in Invocations |-> None]
    /\ stash = [s \in Sessions |-> None]
    /\ report = [i \in Invocations |-> None]

-----------------------------------------------------------------------------

\* BuildFanout refuses a roster in which a branch holds a mutating tool.
checkBranchTools == MutatingAnalysts = {}

\* Zero asks for the default, a negative cap is none.
maxConcurrency == IF MaxConcurrency # 0 THEN MaxConcurrency ELSE DefaultMaxConcurrency

\* No invocation of the session is between its start and its end (a turn holds its
\* session), though an earlier one may be parked.
Quiet(s) == \A i \in Invocations :
                SessionOf[i] = s => phase[i] \notin {"fan", "failing", "merge"}

Begin(i) ==
    /\ phase[i] = "new" /\ Quiet(SessionOf[i])
    /\ phase' = [phase EXCEPT ![i] = IF checkBranchTools THEN "fan" ELSE "refused"]
    /\ UNCHANGED <<branch, sems, log, findings, stash, report>>

\* branchSemaphores.acquire: the invocation's semaphore is made by whoever comes
\* first; a branch waits while it is full.
acquireAny(i, a) ==
    /\ phase[i] = "fan" /\ branch[i][a] = "waiting"
    /\ branch' = [branch EXCEPT ![i][a] = "running"]
    /\ sems' = [sems EXCEPT ![i] = IF @ = None THEN 1 ELSE @ + 1]
    /\ UNCHANGED <<phase, log, findings, stash, report>>
acquire(i, a) ==
    /\ phase[i] = "fan" /\ branch[i][a] = "waiting"
    /\ branch' = [branch EXCEPT ![i][a] = "running"]
    /\ IF maxConcurrency <= 0
       THEN UNCHANGED sems
       ELSE /\ sems[i] # None => sems[i] < maxConcurrency
            /\ sems' = [sems EXCEPT ![i] = IF @ = None THEN 1 ELSE @ + 1]
    /\ UNCHANGED <<phase, log, findings, stash, report>>

\* The analyst ends: with an output event, with none, or with an error that fails
\* the whole stage.  Its slot is released by a defer in each case.
Return(i, a, how) ==
    /\ branch[i][a] = "running"
    /\ branch' = [branch EXCEPT ![i][a] = how]
    /\ sems' = [sems EXCEPT ![i] = IF @ = None THEN None ELSE @ - 1]
    /\ log' = IF how = "reported" THEN log \cup {<<i, a>>} ELSE log
    /\ phase' = IF how = "failed" THEN [phase EXCEPT ![i] = "failing"] ELSE phase
    /\ UNCHANGED <<findings, stash, report>>

\* A branch still waiting for a slot when the stage's context ends gives up.
GiveUp(i, a) ==
    /\ phase[i] = "failing" /\ branch[i][a] = "waiting"
    /\ branch' = [branch EXCEPT ![i][a] = "cancelled"]
    /\ UNCHANGED <<phase, sems, log, findings, stash, report>>

\* collectFindings: this invocation's output events, split by the roster.
collectFindingsOfSession(i) ==
    [reported |-> {e \in log : SessionOf[e[1]] = SessionOf[i]},
     silent |-> {a \in Analysts : \A e \in log : SessionOf[e[1]] = SessionOf[i] => e[2] # a}]
collectFindings(i) ==
    [reported |-> {e \in log : e[1] = i},
     silent |-> {a \in Analysts : <<i, a>> \notin log}]

\* fan_out returns when every branch has: an error ends the turn; the semaphore is
\* forgotten either way.
FanOut(i) ==
    /\ phase[i] \in {"fan", "failing"}
    /\ \A a \in Analysts : branch[i][a] \in Over
    /\ sems' = [sems EXCEPT ![i] = None]
    /\ IF phase[i] = "failing"
       THEN phase' = [phase EXCEPT ![i] = "done"] /\ UNCHANGED findings
       ELSE /\ phase' = [phase EXCEPT ![i] = "merge"]
            /\ findings' = [findings EXCEPT ![i] = collectFindings(i)]
    /\ UNCHANGED <<branch, log, stash, report>>

\* synthesize, first pass: nothing reported is an empty report with no gate; else
\* the merge specialist runs, and under require_approval its report is stashed and
\* the turn parks.
synthesize(i) ==
    /\ phase[i] = "merge"
    /\ IF findings[i].reported = {}
       THEN /\ report' = [report EXCEPT ![i] = "empty"]
            /\ phase' = [phase EXCEPT ![i] = "done"] /\ UNCHANGED stash
       ELSE IF RequireApproval
       THEN /\ stash' = [stash EXCEPT ![SessionOf[i]] = i]
            /\ phase' = [phase EXCEPT ![i] = "parked"] /\ UNCHANGED report
       ELSE /\ report' = [report EXCEPT ![i] = i]
            /\ phase' = [phase EXCEPT ![i] = "done"] /\ UNCHANGED stash
    /\ UNCHANGED <<branch, sems, log, findings>>

\* The merge specialist fails: the turn ends with its error.
MergeFails(i) ==
    /\ phase[i] = "merge" /\ findings[i].reported # {}
    /\ phase' = [phase EXCEPT ![i] = "done"]
    /\ UNCHANGED <<branch, sems, log, findings, stash, report>>

\* The operator's answer resumes at synthesis, which reads the stashed report; the
\* fan-out stage is not entered again.
Resume(i) ==
    /\ phase[i] = "parked" /\ Quiet(SessionOf[i])
    /\ report' = [report EXCEPT ![i] = stash[SessionOf[i]]]
    /\ phase' = [phase EXCEPT ![i] = "done"]
    /\ UNCHANGED <<branch, sems, log, findings, stash>>

Next ==
    \E i \in Invocations :
        \/ Begin(i) \/ FanOut(i) \/ synthesize(i) \/ MergeFails(i) \/ Resume(i)
        \/ \E a \in Analysts :
              \/ acquire(i, a) \/ GiveUp(i, a)
              \/ \E how \in {"reported", "silent", "failed"} : Return(i, a, how)

Spec == Init /\ [][Next]_vars

-----------------------------------------------------------------------------

Running(i) == {a \in Analysts : branch[i][a] = "running"}

\* Every analyst is accounted for, once, and in its own incident: what synthesis is
\* shown are the outputs of this invocation's own branches and the names of all the
\* others, no more branches ran at once than the bundle allows, and an operator is
\* only asked about a report that something is in (branchSemaphores.acquire,
\* collectFindings and the all-silent case of synthesize).
AnalystsAccounted ==
    \A i \in Invocations :
        /\ maxConcurrency > 0 => Cardinality(Running(i)) <= maxConcurrency
        /\ findings[i] # None =>
              /\ {e[2] : e \in findings[i].reported}
                     = {a \in Analysts : branch[i][a] = "reported"}
              /\ findings[i].silent = {a \in Analysts : branch[i][a] = "silent"}
        /\ phase[i] = "parked" => \E a \in Analysts : branch[i][a] = "reported"
=============================================================================
