------------------------------- MODULE Meter -------------------------------
(* One turn against the budget meter with its specialists' own scopes        *)
(* (pkg/budget) and the gate every agent asks before a model call            *)
(* (internal/agent/precall.go, finalreport.go).  Guardrails.tla has the      *)
(* meter's durable half and one session-wide dimension; here are the scopes, *)
(* two dimensions, the pricing of a call, and agents that ask, call and are  *)
(* folded concurrently: a fan-out's branches share the meter, and between    *)
(* Allow and Observe nobody holds anything.                                  *)
EXTENDS Integers, FiniteSets

CONSTANTS
    Callers,        \* agent runs in the turn
    AuthorOf,       \* run |-> the agent's name, which is the scope's key
    Reporters,      \* runs whose request carries the finish_task tool
    Configs,        \* [session, scopes, final]: the Limits of each
    Usages,         \* what one event may report, as the provider counts it
    Absent,         \* a sidecar, or a bucket of it, that was not sent
    MaxCalls        \* bound: model calls in the turn

VARIABLES
    cfg,
    total, spent,   \* usage of the session, and by scope
    unpriced,       \* calls the rate card could not price
    refusals,       \* session refusals noted this turn
    taken,          \* authors that took their final report
    at,             \* run |-> "idle", "calling", "reporting", "done"
    last,           \* the billable split of the last call folded
    turn            \* "running", "error", "result"

vars == <<cfg, total, spent, unpriced, refusals, taken, at, last, turn>>

Limits(t, c, p, r) == [turns |-> t, cost |-> c, pricer |-> p, rate |-> r]
Authors == {AuthorOf[c] : c \in Callers}
Zero == [calls |-> 0, cost |-> 0]
NoCall == [uncached |-> 0, cached |-> 0, write |-> 0, write1h |-> 0, output |-> 0, prompt |-> 0]

Init ==
    /\ cfg \in Configs
    /\ total = Zero
    /\ spent = [a \in DOMAIN cfg.scopes |-> Zero]
    /\ unpriced = 0
    /\ refusals = 0
    /\ taken = {}
    /\ at = [c \in Callers |-> "idle"]
    /\ last = NoCall
    /\ turn = "running"

-----------------------------------------------------------------------------
(* The two predicates; a limit of 0 is no limit.  Tokens are a third         *)
(* dimension with the shape of cost.                                         *)

crossed(l, u) == (l.turns > 0 /\ u.calls > l.turns) \/ (l.cost > 0 /\ u.cost > l.cost)

precludedCrossed(l, u) == (l.turns > 0 /\ u.calls > l.turns) \/ (l.cost > 0 /\ u.cost >= l.cost)
precluded(l, u) == (l.turns > 0 /\ u.calls + 1 > l.turns) \/ (l.cost > 0 /\ u.cost >= l.cost)

Scoped(a) == a \in DOMAIN cfg.scopes
PrecludedScope(a) == Scoped(a) /\ precluded(cfg.scopes[a], spent[a])
PrecludedSession == precluded(cfg.session, total)

(* AllowFinalReport: once for each author, with something spent on record.   *)
AllowFinalReport(a) ==
    /\ cfg.final /\ a \notin taken
    /\ (IF Scoped(a) THEN spent[a] ELSE total).calls > 0

-----------------------------------------------------------------------------
(* Reading a provider's counters: negative counts are zero, and each bucket  *)
(* is fitted into what the one before it left of the prompt.                 *)

floorCount(n) == IF n < 0 THEN 0 ELSE n
fitBucketLoose(n, room) == IF n < 0 THEN 0 ELSE n
fitBucket(n, room) == IF n < 0 THEN 0 ELSE IF n > room THEN room ELSE n

NoBuckets == [read |-> Absent, write |-> Absent, write1h |-> Absent]
bucketsOf(u) == IF u.detail = Absent THEN NoBuckets ELSE u.detail

callOf(u) ==
    LET b == bucketsOf(u)
        prompt == floorCount(u.prompt)
        read == fitBucket(IF b.read = Absent THEN floorCount(u.cached) ELSE b.read, prompt)
        write == fitBucket(IF b.write = Absent THEN 0 ELSE b.write, prompt - read)
        write1h == IF b.write1h = Absent THEN 0 ELSE fitBucket(b.write1h, write)
    IN  [uncached |-> prompt - read - write, cached |-> read, write |-> write,
         write1h |-> write1h, output |-> floorCount(u.output), prompt |-> prompt]

(* A scope's own pricer and rate go before the session's.  priceOf: the card *)
(* where it knows the model, the flat rate on the reported total otherwise.  *)
pricerOf(a) == cfg.session.pricer \/ (IF Scoped(a) THEN cfg.scopes[a].pricer ELSE FALSE)
rateOf(a) == IF Scoped(a) /\ cfg.scopes[a].rate > 0 THEN cfg.scopes[a].rate ELSE cfg.session.rate
PriceCall(c) == 2 * c.uncached + c.cached + 3 * c.write + c.write1h + 4 * c.output
priceOf(a, c, u) ==
    IF pricerOf(a) /\ u.known THEN PriceCall(c) ELSE rateOf(a) * floorCount(u.total)

-----------------------------------------------------------------------------
(* RefuseOnGate: the gate is asked before every call.  A refusal names the   *)
(* author's own ceiling when that one precludes, and only the others count   *)
(* as the session's.  A granted final report makes the call after all;       *)
(* otherwise the refusal is the agent's answer, through finish_task or in    *)
(* text, and the driver sees it unless it stays inside a sub-run.            *)
Allow(c) ==
    LET a == AuthorOf[c]
    IN  /\ turn = "running" /\ at[c] = "idle"
        /\ IF ~PrecludedScope(a) /\ ~PrecludedSession
           THEN at' = [at EXCEPT ![c] = "calling"] /\ UNCHANGED <<refusals, taken, turn>>
           ELSE /\ refusals' = IF PrecludedScope(a) THEN refusals ELSE refusals + 1
                /\ IF c \in Reporters /\ AllowFinalReport(a)
                   THEN /\ taken' = taken \cup {a}
                        /\ at' = [at EXCEPT ![c] = "reporting"]
                        /\ UNCHANGED turn
                   ELSE /\ at' = [at EXCEPT ![c] = "done"]
                        /\ \E seen \in BOOLEAN :
                              turn' = IF seen /\ refusals' > 0 THEN "error" ELSE turn
                        /\ UNCHANGED taken
        /\ UNCHANGED <<cfg, total, spent, unpriced, last>>

(* Observe folds the call and reports a crossing: the author's own first, so *)
(* the driver, which goes on after a specialist's, never hears of the        *)
(* session's.  The agent then goes on, finishes, or is sent back by a report *)
(* its schema rejects.                                                       *)
fold(u, cost) == [calls |-> u.calls + 1, cost |-> u.cost + cost]

Observe(c) ==
    LET a == AuthorOf[c]
    IN  /\ turn = "running" /\ at[c] \in {"calling", "reporting"}
        /\ total.calls < MaxCalls
        /\ \E u \in Usages : LET call == callOf(u)
                                cost == priceOf(a, call, u)
                            IN  /\ last' = call
                                /\ total' = fold(total, cost)
                                /\ spent' = IF Scoped(a) THEN [spent EXCEPT ![a] = fold(@, cost)] ELSE spent
                                /\ unpriced' = unpriced + IF pricerOf(a) /\ ~u.known THEN 1 ELSE 0
        /\ LET own == Scoped(a) /\ crossed(cfg.scopes[a], spent'[a])
           IN  turn' = IF (~own /\ crossed(cfg.session, total')) \/ refusals > 0 THEN "error" ELSE turn
        /\ \E next \in {"idle", "done"} : at' = [at EXCEPT ![c] = next]
        /\ UNCHANGED <<cfg, refusals, taken>>

(* The stream ends; refusals nobody saw are looked for once more.            *)
End ==
    /\ turn = "running" /\ \A c \in Callers : at[c] = "done"
    /\ turn' = IF refusals > 0 THEN "error" ELSE "result"
    /\ UNCHANGED <<cfg, total, spent, unpriced, refusals, taken, at, last>>

Next == End \/ \E c \in Callers : Allow(c) \/ Observe(c)

Spec == Init /\ [][Next]_vars

-----------------------------------------------------------------------------
TypeOK ==
    /\ total.calls \in 0..MaxCalls
    /\ taken \subseteq Authors
    /\ \A c \in Callers : at[c] \in {"idle", "calling", "reporting", "done"}
    /\ turn \in {"running", "error", "result"}

(* TurnCapOvershoot: a cap on model calls is overrun by no more than the     *)
(* calls that were already under way when it was reached (one less than the  *)
(* runs that share it), and one final report for each author that may take   *)
(* one: Allow and Observe are two steps and the grant is latched.            *)
Sharing(a) == Cardinality({c \in Callers : AuthorOf[c] = a})
TurnCapOvershoot ==
    /\ cfg.session.turns > 0 =>
          total.calls <= cfg.session.turns + Cardinality(Callers) - 1 + Cardinality(taken)
    /\ \A a \in DOMAIN cfg.scopes : cfg.scopes[a].turns > 0 =>
          spent[a].calls <= cfg.scopes[a].turns + Sharing(a) - 1 + Cardinality(taken \cap {a})

(* BucketsSplitThePrompt: whatever a provider reports, negative or more than *)
(* the prompt, the input buckets are counts that add up to the prompt, so no *)
(* call is billed as a credit (callOf, fitBucket, flooredUsage).             *)
BucketsSplitThePrompt ==
    /\ last.uncached + last.cached + last.write = last.prompt
    /\ \A f \in DOMAIN last : last[f] >= 0
    /\ last.write1h <= last.write

(* mast.go, RunWorkload: "crossing a ceiling aborts the run with an error    *)
(* wrapping budget.ErrExceeded".                                             *)
CrossingIsAnError == turn = "result" => ~crossed(cfg.session, total)
=============================================================================
