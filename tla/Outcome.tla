------------------------------ MODULE Outcome ------------------------------
(* The outcome-evaluation gate (internal/evals/outcome and its command,     *)
(* internal/evals/cmd/outcome): load and validate a corpus, raise a         *)
(* throw-away cluster, plant its fixture, run the read-only cases in a      *)
(* bounded pool and the mutating ones alone with a restore after each, all  *)
(* under one ceiling, grade every repetition, and turn the board into an    *)
(* exit code that blocks a merge.                                           *)
(*                                                                          *)
(* NewProvisioner knows one readiness condition, so the catalog has one     *)
(* role; `object' is the fixture object its probe addresses.  A report is   *)
(* the set of phrases in it, a trace the set of its calls.  kubectl, kind,  *)
(* the model and the tool server are external: each call may fail, at most  *)
(* MaxFaults times in a behaviour.                                          *)
EXTENDS Naturals, Sequences, FiniteSets, SequencesExt

CONSTANTS
    Corpora,        \* the corpora a repository may hold
    Reports,        \* the phrase sets a run may report
    Traces,         \* the sets of [name, completed] a run may leave
    Satisfies,      \* the intent table: tool |-> the intents it satisfies
    Concurrency,    \* RunnerConfig.Concurrency
    DefaultReps,    \* DefaultRepetitions
    MaxFaults,      \* bound: failed external calls in one behaviour
    None

VARIABLES
    corpus,     \* the corpus loaded
    at,         \* where main's run() is
    cluster,    \* the kind cluster: "none", "up", "leaked", "gone"
    worker,     \* case |-> its runCase
    todo,       \* the mutating cases still to run, in id order
    board,      \* case |-> the repetitions recorded
    object,     \* the fixture object: None, "planted", "changed", "deleted"
    expired,    \* the ceiling's context is done
    keep,       \* --keep
    faults,     \* external calls failed so far
    exit,       \* the process's exit code, None while it runs
    fresh,      \* history: mutating case |-> the object its first repetition met
    earned,     \* history: cases with a repetition that finished and met its checks
    broken      \* history: cases whose run broke a catastrophic safeguard

vars == <<corpus, at, cluster, worker, todo, board, object, expired, keep,
          faults, exit, fresh, earned, broken>>

Cases == DOMAIN corpus.cases
Checks(c) == corpus.cases[c].checks
Mutating(c) == corpus.cases[c].mutating
Demoted(c) == corpus.cases[c].demoted
Reps(c) == IF corpus.cases[c].reps = 0 THEN DefaultReps ELSE corpus.cases[c].reps

-----------------------------------------------------------------------------
(* Load and validate.                                                        *)

Requirement(ck) == IF ck.req = "" THEN "required" ELSE ck.req
ModeOf(ck) == IF ck.mode = "" THEN "assert" ELSE ck.mode

reachable == UNION {Satisfies[t] : t \in DOMAIN Satisfies}

validateReportContains(ck) ==
    /\ ck.required \cup ck.anyOf \cup ck.forbidden # {}
    /\ ck.required \cap ck.anyOf = {}
    /\ (ck.required \cup ck.anyOf) \cap ck.forbidden = {}

singleToolSatisfying(want) == \E t \in DOMAIN Satisfies : want \subseteq Satisfies[t]

validateIntentSatisfied(ck) ==
    /\ ck.intents # {}
    /\ ck.all \in BOOLEAN
    /\ IF ck.all THEN ck.intents \subseteq reachable ELSE ck.intents \cap reachable # {}
    /\ (ck.all /\ Cardinality(ck.intents) > 1 /\ singleToolSatisfying(ck.intents))
          => Requirement(ck) = "diagnostic"

validateToolCalled(ck) == ck.tools # {} /\ ck.role # "safeguard"

(* A set assertion (no name, no selector) is exempt from the probe rule.     *)
validateClusterCheck(cp, cs, ck) ==
    /\ ck.op \in {"eq", "absent", "present", "changed"}
    /\ ck.stable => ck.op # "changed" /\ ModeOf(ck) = "converge"
    /\ ck.scope # "set" => ck.scope = cp.probe
    /\ ~(~cs.mutating /\ ck.role = "safeguard" /\ ck.op = "changed")

validateApprovalRequested(cs, ck) == ck.effect # "" /\ cs.mutating

validateCheck(cp, cs, ck) ==
    /\ ck.role \in {"objective", "safeguard"}
    /\ Requirement(ck) \in {"required", "diagnostic"}
    /\ ~(ck.role = "safeguard" /\ Requirement(ck) = "diagnostic")
    /\ ck.sev = "catastrophic" => ck.role = "safeguard"
    /\ ModeOf(ck) \in {"assert", "converge"}
    /\ ModeOf(ck) = "converge" => ck.type = "cluster"
    /\ CASE ck.type = "report"   -> validateReportContains(ck)
         [] ck.type = "intent"   -> validateIntentSatisfied(ck)
         [] ck.type = "tool"     -> validateToolCalled(ck)
         [] ck.type = "cluster"  -> validateClusterCheck(cp, cs, ck)
         [] ck.type = "approval" -> validateApprovalRequested(cs, ck)
         [] OTHER -> FALSE

validateCase(cp, cs) ==
    /\ cs.checks # {}
    /\ \A ck \in cs.checks : validateCheck(cp, cs, ck)

validateRestoreForward(cp) ==
    \A c \in cp.restoreAfter : c \in DOMAIN cp.cases /\ cp.cases[c].mutating

(* Both directions: the role names only loaded mutating cases, and every     *)
(* mutating case that uses it is named.                                      *)
validateRestore(cp) ==
    /\ \A c \in cp.restoreAfter : c \in DOMAIN cp.cases /\ cp.cases[c].mutating
    /\ \A c \in DOMAIN cp.cases : cp.cases[c].mutating => c \in cp.restoreAfter

validate(cp) ==
    /\ \A c \in DOMAIN cp.cases : validateCase(cp, cp.cases[c])
    /\ cp.probe # None
    /\ \E c \in DOMAIN cp.cases : \E ck \in cp.cases[c].checks :
          ck.type = "cluster" /\ ck.scope = cp.probe
    /\ validateRestore(cp)

(* NewRunner's own refusal: every intent named must be reachable, whatever   *)
(* the check's mode.                                                         *)
unreachableIntents(cp) ==
    {i \in UNION {ck.intents : ck \in UNION {cp.cases[c].checks : c \in DOMAIN cp.cases}} :
        i \notin reachable}

-----------------------------------------------------------------------------
(* Verify: one operator per check type, each giving a verdict.  A verdict    *)
(* that is vacuous measured nothing.                                         *)

verdict(passed, vacuous) == [passed |-> passed, vacuous |-> vacuous]

verifyReport(ck, run) ==
    IF run.report = {} THEN verdict(FALSE, TRUE)
    ELSE verdict(/\ ck.required \subseteq run.report
                 /\ ck.anyOf = {} \/ ck.anyOf \cap run.report # {}
                 /\ ck.forbidden \cap run.report = {}, FALSE)

Names(run) == {call.name : call \in run.calls}
SatisfiedBy(names) == UNION {Satisfies[t] : t \in names \cap DOMAIN Satisfies}

verifyIntent(ck, run) ==
    CASE Names(run) = {} -> verdict(FALSE, FALSE)
      [] Names(run) \cap DOMAIN Satisfies = {} /\ Names(run) # {} -> verdict(FALSE, TRUE)
      [] OTHER -> verdict(IF ck.all THEN ck.intents \subseteq SatisfiedBy(Names(run))
                          ELSE ck.intents \cap SatisfiedBy(Names(run)) # {}, FALSE)

verifyToolCalled(ck, run) ==
    verdict(\A t \in ck.tools : \E call \in run.calls :
                call.name = t /\ (ck.success => call.completed), FALSE)

(* A call is gated when its own question was parked, or when it fired on a   *)
(* grant whose originating question lists it.                                *)
ungated(call) == call.gate \notin {"parked", "granted"}

ApprovalRequested(ck, run) ==
    LET subjects == {call \in run.calls : call.name = ck.effect}
    IN  IF subjects = {} THEN verdict(TRUE, TRUE)
        ELSE verdict(\A call \in subjects : ~ungated(call), FALSE)

(* The objects a check's address matches: a named probe is looked up, a      *)
(* selector or a kind is listed; either way a deleted object is not matched. *)
matched == object \in {"planted", "changed"}

readOnce(ck) ==
    CASE ck.op = "absent"  -> verdict(~matched, FALSE)
      [] ck.op = "present" -> verdict(matched, FALSE)
      [] OTHER -> IF matched THEN verdict(object = ck.value, FALSE) ELSE verdict(FALSE, TRUE)

(* Snapshot reads the generation of every probe subject: one addressed by    *)
(* name must still be there, or the snapshot itself is an error.             *)
SnapshotFails == object = "deleted" /\ corpus.probe = "name"

Changed == IF object = "planted" THEN 0 ELSE 1

verifyChangedCount(ck) == verdict(Changed = ck.ceiling, FALSE)

Reads(ck) == ck.type = "cluster"

Verdict(ck, run) ==
    CASE ck.type = "report"   -> verifyReport(ck, run)
      [] ck.type = "intent"   -> verifyIntent(ck, run)
      [] ck.type = "tool"     -> verifyToolCalled(ck, run)
      [] ck.type = "approval" -> ApprovalRequested(ck, run)
      [] OTHER -> IF ck.op = "changed" THEN verifyChangedCount(ck) ELSE readOnce(ck)

Verdicts(c, run) ==
    {[check |-> ck.name, req |-> Requirement(ck), sev |-> ck.sev,
      passed |-> Verdict(ck, run).passed, vacuous |-> Verdict(ck, run).vacuous] :
        ck \in Checks(c)}

(* One check that cannot be read makes the whole repetition unmeasured.      *)
VerifyMustFail(c) ==
    \E ck \in Checks(c) : Reads(ck) /\ (expired \/ (ck.op = "changed" /\ SnapshotFails))

-----------------------------------------------------------------------------
(* The board.                                                                *)

failed(r) == r.err \/ \E v \in r.verdicts : ~v.passed

Catastrophic(c) ==
    \E r \in Range(board[c]) : \E v \in r.verdicts : v.sev = "catastrophic" /\ ~v.passed

VacuousRequired(c) ==
    \E r \in Range(board[c]) : \E v \in r.verdicts : v.req = "required" /\ v.vacuous

RedNoShort ==
    \/ \E c \in Cases : Catastrophic(c)
    \/ \E c \in Cases : /\ ~Demoted(c)
                        /\ \/ VacuousRequired(c)
                           \/ \A r \in Range(board[c]) : failed(r)

Red ==
    \/ \E c \in Cases : Catastrophic(c)
    \/ \E c \in Cases : /\ ~Demoted(c)
                        /\ \/ VacuousRequired(c)
                           \/ Len(board[c]) < Reps(c)
                           \/ \A r \in Range(board[c]) : failed(r)

-----------------------------------------------------------------------------
(* main's run(), up to the pass.                                             *)

NoWorker == [at |-> "idle", rep |-> 0, run |-> None]
pass == <<worker, todo, board, object, expired, fresh, earned, broken>>

Init ==
    /\ corpus \in Corpora
    /\ at = "load"
    /\ cluster = "none"
    /\ worker = [c \in Cases |-> NoWorker]
    /\ todo = <<>>
    /\ board = [c \in Cases |-> <<>>]
    /\ object = None
    /\ expired = FALSE
    /\ keep \in BOOLEAN
    /\ faults = 0
    /\ exit = None
    /\ fresh = [c \in Cases |-> None]
    /\ earned = {}
    /\ broken = {}

Fails == faults < MaxFaults /\ faults' = faults + 1

(* The deferred teardown and os.Exit: a cluster that was handed back is      *)
(* deleted unless --keep asked for it, and the deletion may fail.            *)
Leave(code) ==
    /\ at' = "out"
    /\ exit' = code
    /\ IF cluster # "up" \/ keep THEN UNCHANGED <<cluster, faults>>
       ELSE \/ cluster' = "gone" /\ UNCHANGED faults
            \/ cluster' = "leaked" /\ Fails

Load ==
    /\ at = "load"
    /\ IF validate(corpus) THEN at' = "cluster" /\ UNCHANGED <<exit, cluster, faults>>
       ELSE Leave(2)
    /\ UNCHANGED <<corpus, keep, pass>>

(* Building the model, the scratch directory and the staging provisioner     *)
(* happen before there is a cluster to take down.                            *)
Refuse ==
    /\ at = "cluster"
    /\ at' = "out" /\ exit' = 2 /\ Fails
    /\ UNCHANGED <<corpus, cluster, keep, pass>>

(* kind may fail and hand nothing back; a cluster that came up but is not    *)
(* isolated, or has no images, is handed back with the error.                *)
CreateClusterNil ==
    /\ at = "cluster"
    /\ \/ cluster' = "up" /\ at' = "surface" /\ UNCHANGED <<exit, faults>>
       \/ cluster' = "up" /\ at' = "out" /\ exit' = 2 /\ Fails
    /\ UNCHANGED <<corpus, keep, pass>>

CreateCluster ==
    /\ at = "cluster"
    /\ cluster' = "up"
    /\ \/ at' = "surface" /\ UNCHANGED faults
       \/ at' = "failed" /\ Fails
    /\ UNCHANGED <<corpus, exit, keep, pass>>

NewSurface ==
    /\ at = "surface"
    /\ \/ at' = "runner" /\ UNCHANGED faults
       \/ at' = "failed" /\ Fails
    /\ UNCHANGED <<corpus, cluster, exit, keep, pass>>

NewRunner ==
    /\ at = "runner"
    /\ at' = IF unreachableIntents(corpus) = {} THEN "provision" ELSE "failed"
    /\ UNCHANGED <<corpus, cluster, exit, keep, faults, pass>>

(* Provision plants the role, waits for its described state and verifies its *)
(* probes and its exclusive kinds.                                           *)
Provision ==
    /\ at = "provision"
    /\ \/ object' = "planted" /\ at' = "snapshot" /\ UNCHANGED faults
       \/ at' = "failed" /\ Fails /\ UNCHANGED object
    /\ UNCHANGED <<corpus, cluster, worker, todo, board, expired, keep, exit, fresh, earned, broken>>

(* The generations every changed_count_eq is counted against are read once,  *)
(* of the fixture as planted; then the ceiling starts, and the pool with it. *)
Snapshot ==
    /\ at = "snapshot"
    /\ \/ /\ at' = "pool"
          /\ worker' = [c \in Cases |-> IF Mutating(c) THEN NoWorker
                                        ELSE [NoWorker EXCEPT !.at = "queued"]]
          /\ UNCHANGED faults
       \/ at' = "failed" /\ Fails /\ UNCHANGED worker
    /\ UNCHANGED <<corpus, cluster, todo, board, object, expired, keep, exit, fresh, earned, broken>>

Fail ==
    /\ at = "failed"
    /\ Leave(2)
    /\ UNCHANGED <<corpus, keep, pass>>

-----------------------------------------------------------------------------
(* The pass.                                                                 *)

Expire ==
    /\ at \in {"pool", "alone", "restore"} /\ ~expired
    /\ expired' = TRUE
    /\ UNCHANGED <<corpus, at, cluster, worker, todo, board, object, keep, faults, exit,
                   fresh, earned, broken>>

Holding == {c \in Cases : worker[c].at \in {"loop", "grade"}}
SetWorker(c, w) == worker' = [worker EXCEPT ![c] = w]
Done(c) == SetWorker(c, [worker[c] EXCEPT !.at = "done"])

(* The semaphore, then runCase's own toolset, which may not come up.         *)
Start(c) ==
    /\ at \in {"pool", "alone"} /\ worker[c].at = "queued"
    /\ \/ /\ Cardinality(Holding) < Concurrency
          /\ \/ SetWorker(c, [worker[c] EXCEPT !.at = "loop"]) /\ UNCHANGED faults
             \/ Done(c) /\ Fails
       \/ expired /\ at = "pool" /\ Done(c) /\ UNCHANGED faults
    /\ UNCHANGED <<corpus, at, cluster, todo, board, object, expired, keep, exit,
                   fresh, earned, broken>>

Stop(c) ==
    /\ worker[c].at = "loop" /\ (expired \/ worker[c].rep = Reps(c))
    /\ Done(c)
    /\ UNCHANGED <<corpus, at, cluster, todo, board, object, expired, keep, faults, exit,
                   fresh, earned, broken>>

(* one(): an agent run.  It may end in an error with whatever it did so far, *)
(* and a run the ceiling caught has no trace, since the session is read      *)
(* under the same context.  Only a mutating case's tools reach the object.   *)
Truth(c, run, obj) ==
    LET holds(ck) == IF ck.type = "cluster"
                     THEN CASE ck.op = "changed" -> (IF obj = "planted" THEN 0 ELSE 1) = ck.ceiling
                            [] ck.op = "absent"  -> obj = "deleted"
                            [] ck.op = "present" -> obj # "deleted"
                            [] OTHER -> obj = ck.value
                     ELSE Verdict(ck, run).passed
    IN  [met |-> ~run.err /\ \A ck \in Checks(c) : holds(ck),
         broke |-> \E ck \in Checks(c) : ck.sev = "catastrophic" /\ ~holds(ck)]

Runs(c) == {[report |-> r, calls |-> t, err |-> e] : r \in Reports, t \in Traces, e \in BOOLEAN}
Reach(c) == IF Mutating(c) /\ object # "deleted" THEN {object, "changed", "deleted"} ELSE {object}
NoTrace == [report |-> {}, calls |-> {}, err |-> TRUE]

one(c) ==
    /\ worker[c].at = "loop" /\ ~expired /\ worker[c].rep < Reps(c)
    /\ \E cut \in BOOLEAN : \E obj \in Reach(c), run \in IF cut THEN {NoTrace} ELSE Runs(c) :
          /\ SetWorker(c, [at |-> "grade", rep |-> worker[c].rep + 1, run |-> run])
          /\ object' = obj
          /\ expired' = cut
          /\ earned' = earned \cup (IF Truth(c, run, obj).met THEN {c} ELSE {})
          /\ broken' = broken \cup (IF Truth(c, run, obj).broke THEN {c} ELSE {})
    /\ fresh' = IF Mutating(c) /\ worker[c].rep = 0 THEN [fresh EXCEPT ![c] = object] ELSE fresh
    /\ UNCHANGED <<corpus, at, cluster, todo, board, keep, faults, exit>>

Back(c) == SetWorker(c, [worker[c] EXCEPT !.at = "loop", !.run = None])

(* Verify and Record.  A verification that cannot read the cluster leaves    *)
(* the repetition unrecorded.                                                *)
Grade(c) ==
    /\ worker[c].at = "grade"
    /\ \/ /\ ~VerifyMustFail(c)
          /\ board' = [board EXCEPT ![c] = Append(@,
                          [err |-> worker[c].run.err, verdicts |-> Verdicts(c, worker[c].run)])]
          /\ UNCHANGED faults
       \/ VerifyMustFail(c) /\ UNCHANGED <<board, faults>>
       \/ (\E ck \in Checks(c) : Reads(ck)) /\ Fails /\ UNCHANGED board
    /\ Back(c)
    /\ UNCHANGED <<corpus, at, cluster, todo, object, expired, keep, exit, fresh, earned, broken>>

(* wg.Wait, then the mutating cases.                                         *)
PoolDone ==
    /\ at = "pool" /\ \A c \in Cases : Mutating(c) \/ worker[c].at = "done"
    /\ at' = "alone"
    /\ todo' = SetToSortSeq({c \in Cases : Mutating(c)}, LAMBDA c, d : corpus.order[c] < corpus.order[d])
    /\ UNCHANGED <<corpus, cluster, worker, board, object, expired, keep, faults, exit,
                   fresh, earned, broken>>

Next1 ==
    /\ at = "alone" /\ todo # <<>> /\ ~expired /\ worker[Head(todo)].at = "idle"
    /\ SetWorker(Head(todo), [NoWorker EXCEPT !.at = "queued"])
    /\ UNCHANGED <<corpus, at, cluster, todo, board, object, expired, keep, faults, exit,
                   fresh, earned, broken>>

CaseDone ==
    /\ at = "alone" /\ todo # <<>> /\ worker[Head(todo)].at = "done"
    /\ at' = "restore"
    /\ UNCHANGED <<corpus, cluster, worker, todo, board, object, expired, keep, faults, exit,
                   fresh, earned, broken>>

(* The roles that name the case are deleted and provisioned again under the  *)
(* ceiling's context; an error ends the pass and with it the command.        *)
restoreTolerant ==
    /\ at = "restore"
    /\ at' = "alone" /\ todo' = Tail(todo)
    /\ \/ object' = "planted" /\ ~expired /\ UNCHANGED faults
       \/ UNCHANGED object /\ Fails
       \/ UNCHANGED <<object, faults>> /\ expired
    /\ UNCHANGED <<corpus, cluster, worker, board, expired, keep, exit, fresh, earned, broken>>

restore ==
    /\ at = "restore"
    /\ \/ /\ Head(todo) \notin corpus.restoreAfter
          /\ at' = "alone" /\ todo' = Tail(todo) /\ UNCHANGED <<object, faults>>
       \/ /\ Head(todo) \in corpus.restoreAfter /\ ~expired
          /\ at' = "alone" /\ todo' = Tail(todo) /\ object' = "planted" /\ UNCHANGED faults
       \/ /\ Head(todo) \in corpus.restoreAfter
          /\ at' = "failed" /\ UNCHANGED <<todo, object>>
          /\ IF expired THEN UNCHANGED faults ELSE Fails
    /\ UNCHANGED <<corpus, cluster, worker, board, expired, keep, exit, fresh, earned, broken>>

Report ==
    /\ at = "alone"
    /\ todo # <<>> => expired /\ worker[Head(todo)].at = "idle"
    /\ Leave(IF Red THEN 1 ELSE 0)
    /\ UNCHANGED <<corpus, keep, pass>>

Next ==
    \/ Load \/ Refuse \/ CreateCluster \/ NewSurface \/ NewRunner \/ Provision \/ Snapshot \/ Fail
    \/ Expire \/ PoolDone \/ Next1 \/ CaseDone \/ restore \/ Report
    \/ \E c \in Cases : Start(c) \/ Stop(c) \/ one(c) \/ Grade(c)

Spec == Init /\ [][Next]_vars

-----------------------------------------------------------------------------
TypeOK ==
    /\ corpus \in Corpora
    /\ at \in {"load", "cluster", "surface", "runner", "provision", "snapshot", "pool", "alone", "restore",
               "failed", "out"}
    /\ cluster \in {"none", "up", "leaked", "gone"}
    /\ object \in {None, "planted", "changed", "deleted"}
    /\ \A c \in Cases : worker[c].at \in {"idle", "queued", "loop", "grade", "done"}
    /\ \A c \in Cases : Len(board[c]) <= Reps(c)
    /\ expired \in BOOLEAN /\ keep \in BOOLEAN
    /\ faults \in 0..MaxFaults
    /\ exit \in {None, 0, 1, 2}
    /\ earned \subseteq Cases /\ broken \subseteq Cases

(* GreenIsEarned: the command exits 0 only when, for every case that may     *)
(* block, some repetition really finished and met every check, and none      *)
(* broke a catastrophic safeguard: neither the ceiling, nor a worker that    *)
(* never started, nor a read that failed turns into a green board            *)
(* (Runner.Run, runCase, Board.Red).                                         *)
GreenIsEarned ==
    exit = 0 => \A c \in Cases : ~Demoted(c) => c \in earned /\ c \notin broken

(* FreshFixture: a mutating case's first repetition meets the fixture as it  *)
(* was planted, never an earlier case's leftovers (validateRestore together  *)
(* with Run's restore).                                                      *)
FreshFixture == \A c \in Cases : fresh[c] \in {None, "planted"}

(* ClusterReturned: whatever refuses or fails after the cluster came up, the *)
(* command does not exit leaving it running, unless --keep asked or kind     *)
(* itself failed to delete it (CreateCluster's result and run's defer).      *)
ClusterReturned == (exit # None /\ cluster = "up") => keep
=============================================================================
