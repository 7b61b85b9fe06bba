----------------------------- MODULE MCSurfaces -----------------------------
(***************************************************************************)
(* For TLC, the composition of a workload (Composition, on its own         *)
(* variables), the surfaces an operator or an embedder meets and what      *)
(* stands behind them: listeners, prompts, peers, the adapter of an        *)
(* attached session, the agents a turn runs, their budget and their files, *)
(* start and stop of a process, and the outcome evaluation.  A behaviour   *)
(* is one of one component, which `focus` names and never changes; all but *)
(* Composition take turns at x1 .. x24, so their state spaces add up and   *)
(* do not multiply.                                                        *)
(***************************************************************************)
EXTENDS Composition, TLC

VARIABLES focus, x1, x2, x3, x4, x5, x6, x7, x8, x9, x10, x11, x12, x13, x14, x15, x16, x17,
          x18, x19, x20, x21, x22, x23, x24

\* A workload with a diagnoser and a change executor over two servers, and the
\* starts that differ from it in one or two things, sound and unsound.
Diag == Frontmatter("d", "", <<MCPAllowlist("k", {"get"})>>)
Exec == Frontmatter("x", "change_executor", <<MCPAllowlist("k", {"patch"}), MCPAllowlist("m", {"scale"})>>)
OneTurn == [Frontmatter("c", "", None) EXCEPT !.mode = "SingleTurn", !.schema = "ok"]
Lasting(form, d) == [form |-> form, d |-> d]
Work ==
  [Bundle EXCEPT !.name = "w", !.specialists = <<"d", "x">>, !.servers = <<"k", "m">>,
                 !.tools = <<ToolPolicy("get", FALSE), ToolPolicy("patch", TRUE)>>]
Fresh ==
  [Work EXCEPT !.tools[2].precondition = Precondition("get", {"spec"}),
               !.tools[2].capture = Capture("get", {"spec"}, Revert("patch", {<<"to", "spec">>}))]
Watched ==
  [Work EXCEPT !.scheduled = ScheduledTrigger(Lasting("padded", 2), Lasting("plain", 1)),
     !.monitor = [collect |-> <<MonitorCollect("probe", ""), MonitorCollect("scale", "g")>>, transitions |-> "g",
                  notify |-> MonitorNotify("ops", Lasting("absent", 0)), ack |-> MonitorAck("note", {"reason"})]]
Writers == {[Work EXCEPT !.hitlPolicy = [NoHITL EXCEPT !.on = o], !.planner = p] :
              o \in {"apply", "dry_run", "require_approval"}, p \in BOOLEAN}
Local == [Work EXCEPT !.servers = <<>>]
Misnamed ==
  {[Work EXCEPT !.version = 2], [Work EXCEPT !.known = FALSE], [Work EXCEPT !.specialists = <<"d", "d">>],
   [Work EXCEPT !.tools[2].name = "get"], [Work EXCEPT !.tools[2].precondition = Precondition("patch", {})],
   [Work EXCEPT !.hitl.ttl = Lasting("padded", 1)], [Watched EXCEPT !.scheduled.jitter.d = 2],
   [Watched EXCEPT !.monitor.ack.tool = "probe"], [Watched EXCEPT !.monitor.collect[2].as = "probe"],
   [Fresh EXCEPT !.tools[2].capture.fields = {"status"}]}
Unreadable == {[Diag EXCEPT !.ext = "tmpl"], [Diag EXCEPT !.tier = "small", !.model = "ga"], [Diag EXCEPT !.schema = "bad"]}

Tree(b, files) == [bundles |-> <<b>>, files |-> files]
Start(b, files) ==
  [arg |-> None, tree |-> Tree(b, files), env |-> FALSE,
   roots |-> [env |-> None, project |-> None, user |-> None, system |-> None],
   flag |-> "", echo |-> FALSE, mcp |-> {"k", "m"}, hosts |-> <<>>]
Plainly == Start(Fresh, {Diag, Exec})
ByName == [Plainly EXCEPT !.arg = "w", !.tree = None, !.roots["user"] = Tree(Work, {Diag, Exec, Frontmatter("y", "", <<>>)})]
Shaped(d, files) == [Start(Work, files) EXCEPT !.flag = d]
Roster(b) == [b EXCEPT !.specialists = <<"x">>]
Quiet == {Diag, Frontmatter("x", "change_executor", <<MCPAllowlist("k", {"patch"})>>)}
Starts ==
  {Start(b, {Diag, Exec}) : b \in Writers \cup Misnamed \cup {[Fresh EXCEPT !.tools[2].precondition.read = "scale"]}}
  \cup {Start(Work, {f, Exec}) : f \in Unreadable \cup {Frontmatter("d", "", None), Frontmatter("d", "", <<MCPAllowlist("k", {"patch"})>>)}}
  \cup {Start(Watched, Quiet), Start(Watched, {Diag, Frontmatter("x", "change_executor", <<MCPAllowlist("k", {})>>)})}
  \cup {ByName, [ByName EXCEPT !.roots["project"] = Tree(Work, {})], [ByName EXCEPT !.env = TRUE],
        [ByName EXCEPT !.arg = "v"], Plainly, [Plainly EXCEPT !.echo = TRUE], [Plainly EXCEPT !.mcp = {"k"}],
        [Plainly EXCEPT !.hosts = <<"k">>], [Plainly EXCEPT !.flag = "swarm"], [Plainly EXCEPT !.hosts = <<"h">>]}
  \cup {[Start(Roster(Local), {Frontmatter("x", c, None)}) EXCEPT !.hosts = <<"h">>] : c \in {"", "change_executor"}}
  \cup {Shaped("auto", {Diag, Exec, OneTurn, Frontmatter(FallbackName, "", <<>>)}),
        Shaped("auto", {Diag, [Exec EXCEPT !.mcp = <<MCPAllowlist("k", {"get"})>>], Frontmatter(SynthesisName, "", <<>>)}),
        Shaped("fanout", {Diag, Exec, Frontmatter(SynthesisName, "", <<>>)}), Shaped("fanout", {Diag, Exec}),
        Shaped("bounded", {OneTurn}), Shaped("bounded", {Diag}), Shaped("graph", {Diag, OneTurn})}
ToolsOf ==
  [k |-> {"get", "patch", "scale", "probe"}, m |-> {"scale", "note"}, h |-> {"local", "probe"}]
Words == [k |-> {[scale |-> TRUE], [scale |-> FALSE, patch |-> TRUE]}, m |-> {[scale |-> TRUE], [scale |-> FALSE]}]

\* Users files: sound, with one token for two people, with one person twice.
Row(id, token) == [id |-> id, token |-> token]
Sound == <<Row("u", "tu"), Row("r", "tr")>>
Listeners ==
  [surface : {"inject"}, file : {Sound, <<Row("u", "tu"), Row("r", "tu")>>, <<Row("u", "tu"), Row("u", "tr")>>, None},
   proxies : {{}, {"r"}}, shared : BOOLEAN, open : BOOLEAN, enforce : {FALSE}, readOnly : {FALSE}]
  \cup [surface : {"attach"}, file : {Sound, None}, proxies : {{"r"}}, shared : BOOLEAN,
        open : {FALSE}, enforce : BOOLEAN, readOnly : BOOLEAN]

\* A plain and a compound command, a path outside the scope read and written, a
\* path inside it, a control-plane file and a mutating tool.
Plain(kind, tool, key) ==
  [kind |-> kind, tool |-> tool, key |-> key, sess |-> tool, verb |-> None, safe |-> TRUE,
   refused |-> FALSE, glob |-> {key}, dirs |-> <<>>, root |-> FALSE, control |-> FALSE, exempt |-> FALSE]
ToolCalls ==
  {[Plain("bash", "bash", "git status") EXCEPT !.verb = "git"],
   [Plain("bash", "bash", "git *;") EXCEPT !.verb = "git", !.safe = FALSE, !.glob = {"git *;", "git status"}],
   [Plain("read", "read", "/d/a") EXCEPT !.dirs = <<"/d">>, !.exempt = TRUE],
   [Plain("write", "edit", "/d/a") EXCEPT !.dirs = <<"/d">>],
   [Plain("write", "edit", "/p/a") EXCEPT !.root = TRUE],
   [Plain("write", "edit", "/p/.agents/config.json") EXCEPT !.root = TRUE, !.control = TRUE],
   Plain("mutating", "patch", "x")}

Registrants ==
  [kind : {"adapter"}, wired : SUBSET {"PermsSource", "PermsFn", "GuardrailsFn", "ResetGuardrailFn", "ceiling"}]
  \cup [kind : {"view"}, wired : SUBSET {"RefreshPricing", "SetPricing", "Reload"}]
  \cup [kind : {"other"}, wired : SUBSET {"PermsProvider", "PromptBrokerProvider", "SubagentSpawner",
                                          "SideQueryProvider", "PermsController"}]

Daemons ==
  {[surfaces |-> {"attach"}, db |-> TRUE, auto |-> TRUE, trigger |-> FALSE],
   [surfaces |-> {"a2a"}, db |-> FALSE, auto |-> TRUE, trigger |-> TRUE],
   [surfaces |-> {}, db |-> TRUE, auto |-> FALSE, trigger |-> TRUE]}

\* A good command line under each posture, and one mistake at a time.
Good == [parse |-> TRUE, version |-> FALSE, provider |-> None, model |-> "ga", modelSet |-> FALSE, task |-> None,
         posture |-> "warn", prompt |-> TRUE, misplaced |-> FALSE, serveOnly |-> FALSE]
CommandLines ==
  {Good, [Good EXCEPT !.posture = "enforce"], [Good EXCEPT !.posture = "unknown"], [Good EXCEPT !.parse = FALSE],
   [Good EXCEPT !.version = TRUE], [Good EXCEPT !.provider = "vertex", !.task = "chat"],
   [Good EXCEPT !.provider = "bogus"], [Good EXCEPT !.provider = "gemini", !.model = "cl", !.modelSet = TRUE],
   [Good EXCEPT !.task = "unknown"], [Good EXCEPT !.prompt = FALSE], [Good EXCEPT !.misplaced = TRUE],
   [Good EXCEPT !.serveOnly = TRUE]}

\* Checks of the evaluation, one of each type, and the cases made of them.
Check(name, type) ==
  [name |-> name, type |-> type, role |-> "objective", req |-> "", sev |-> "", mode |-> "", required |-> {},
   anyOf |-> {}, forbidden |-> {}, intents |-> {}, all |-> TRUE, tools |-> {}, success |-> FALSE, effect |-> "",
   scope |-> "", op |-> "", stable |-> FALSE, value |-> "planted", ceiling |-> 0]
Says == [Check("says", "report") EXCEPT !.required = {"oom"}]
Never == [Check("never", "report") EXCEPT !.role = "safeguard", !.sev = "catastrophic", !.forbidden = {"deleted it"}]
Looks == [Check("looks", "intent") EXCEPT !.intents = {"i1"}]
LooksAny == [Looks EXCEPT !.intents = {"i1", "i9"}, !.all = FALSE]
Uses == [Check("calls", "tool") EXCEPT !.tools = {"t"}, !.success = TRUE, !.req = "diagnostic"]
There == [Check("there", "cluster") EXCEPT !.op = "present", !.scope = "name", !.role = "safeguard"]
Same == [Check("same", "cluster") EXCEPT !.op = "eq", !.scope = "name", !.mode = "converge"]
Few == [Check("few", "cluster") EXCEPT !.op = "changed", !.scope = "name", !.ceiling = 1,
                                       !.role = "safeguard", !.sev = "catastrophic"]
Asks == [Check("asks", "approval") EXCEPT !.effect = "t"]
Case(mutating, reps, demoted, checks) == [mutating |-> mutating, reps |-> reps, demoted |-> demoted, checks |-> checks]
Corpus(cases, after) ==
  [cases |-> cases, restoreAfter |-> after, probe |-> "name", order |-> [c \in DOMAIN cases |-> [a |-> 1, b |-> 2, c |-> 3][c]]]
Reads == Case(FALSE, 1, FALSE, {Says, There})
Changes == Case(TRUE, 1, FALSE, {Few, Asks})
EvalCorpora ==
  {Corpus([a |-> Reads, b |-> Case(FALSE, 1, FALSE, {Never, Uses})], {}),
   Corpus([a |-> Reads, b |-> Changes], {"b"}),
   Corpus([b |-> Changes, c |-> Case(TRUE, 1, FALSE, {Few})], {"b", "c"}),
   Corpus([a |-> Reads, b |-> Changes, c |-> Changes], {"c"}),
   Corpus([a |-> Case(FALSE, 0, FALSE, {There, Looks, Never})], {}),
   Corpus([a |-> Case(FALSE, 1, FALSE, {There, LooksAny})], {}),
   Corpus([a |-> Case(FALSE, 1, TRUE, {Never, Same})], {})}
EvalTraces ==
  {{}, {[name |-> "t", completed |-> TRUE, gate |-> "parked"]}, {[name |-> "u", completed |-> FALSE, gate |-> "unasked"]}}

Embedding == [sessions |-> TRUE, model |-> TRUE, builds |-> TRUE, collides |-> FALSE, watchdog |-> "enforce"]
Embeddings ==
  {Embedding, [Embedding EXCEPT !.sessions = FALSE], [Embedding EXCEPT !.model = FALSE],
   [Embedding EXCEPT !.builds = FALSE], [Embedding EXCEPT !.collides = TRUE], [Embedding EXCEPT !.watchdog = "bad"],
   [Embedding EXCEPT !.watchdog = "warn"]}

\* Files that include each other, from an entry and from AGENTS.d of two roots.
Txt == [kind |-> "text"]
Fence == [kind |-> "backticks"]
Rule == [kind |-> "rule"]
To(f) == [kind |-> "include", to |-> f]
Directories ==
  {[lines |-> [a |-> a, b |-> b, c |-> c, d |-> <<To("b")>>],
    kind |-> [a |-> z, b |-> "text", c |-> k, d |-> "text"],
    in |-> [a |-> {"s", "r"}, b |-> {"s", "r"}, c |-> {"s"}, d |-> {"r", "s"}],
    cut |-> [f \in {"a", "b", "c", "d"} |-> y],
    primary |-> [s |-> <<>>, r |-> <<"b", "c">>], dir |-> [s |-> <<"a", "c">>, r |-> <<"a">>], broken |-> x] :
     a \in {<<Txt, To("c"), To("b")>>, <<Fence, To("b"), Fence>>, <<To("b"), To("c"), Txt, Txt>>,
            <<Txt, Txt, Txt, Txt, Txt>>, <<Rule, To("gone"), Rule, To("b")>>, <<Rule, To("c"), Txt, Txt, Rule>>},
     y \in {<<>>, <<To("b")>>}, z \in {"text", "split"},
     b \in {<<To("a")>>, <<To("c"), Txt>>, <<Fence, To("c"), Fence>>},
     c \in {<<To("a"), Txt>>, <<To("gone")>>, <<To("d")>>},
     k \in {"text", "binary"}, x \in {{}, {"r"}}}

\* A turn cap on both levels, a cost cap on both, and one on the session alone;
\* counters as reported, negative and larger than the prompt among them.
Limit(turns, cost, pricer, rate) == [turns |-> turns, cost |-> cost, pricer |-> pricer, rate |-> rate]
Ceilings ==
  {[session |-> Limit(2, 0, TRUE, 0), scopes |-> [spec |-> Limit(1, 0, FALSE, 0)], final |-> TRUE],
   [session |-> Limit(0, 6, FALSE, 0), scopes |-> [spec |-> Limit(0, 6, TRUE, 1)], final |-> TRUE],
   [session |-> Limit(3, 9, FALSE, 1), scopes |-> <<>>, final |-> FALSE]}
Bucketed(hit, write, write1h) == [read |-> hit, write |-> write, write1h |-> write1h]
Counted(prompt, cached, detail, output, known) ==
  [total |-> prompt + output, prompt |-> prompt, cached |-> cached, detail |-> detail, output |-> output, known |-> known]
Counters ==
  {Counted(2, 0, None, 1, TRUE), Counted(2, -1, Bucketed(3, 1, 2), 0, TRUE),
   Counted(-1, 1, Bucketed(None, 2, None), 1, TRUE), Counted(3, 1, Bucketed(None, 3, 4), -1, FALSE)}

-----------------------------------------------------------------------------
\* Listeners started in every combination of table, relays, token and bind.
Door == INSTANCE FrontDoor WITH
  Configs <- Listeners, Sides <- {"tu"}, Tokens <- {"tu", "tr", "shared"},
  Names <- {"u", "r", "ghost"}, Shared <- "shared", cfg <- x1, up <- x2, req <- x3, status <- x4,
  acted <- x5

\* Two sessions come and go under one listing.
Park == INSTANCE Parks WITH
  Sessions <- {"s", "t"}, MaxNow <- 1, MaxFaults <- 1, now <- x1, sess <- x2, pc <- x3,
  todo <- x4, paused <- x5, rows <- x6, answer <- x7, faults <- x8, steady <- x9

\* Two sessions under gates derived from one template.
Perm == INSTANCE Permissions WITH
  Workers <- {"w1", "w2"}, SessionOf <- [w1 |-> "s", w2 |-> "t"], Calls <- ToolCalls,
  Allow <- {[tool |-> "bash", keys |-> {"git log"}, open |-> FALSE]}, Deny <- {},
  Denials <- {[tool |-> "", keys |-> {"git status"}, open |-> FALSE]}, Entries <- <<>>,
  Modes <- {"ask", "yolo"}, PlanFirst <- TRUE, MaxAnswers <- 1, MaxSets <- 2, policy <- x1,
  scope <- x2, template <- x3, gate <- x4, work <- x5, last <- x6, said <- x7, answers <- x8,
  sets <- x9

\* Prompts of the in-process broker, more than a channel holds.
Ask == INSTANCE Prompts WITH
  Source <- "broker", Prompts <- {"p1", "p2"}, Inputs <- {}, Streams <- {"a", "b"},
  Operators <- {"o1"}, Answers <- {"deny"}, Capacity <- 1, ask <- x1, todo <- x2, response <- x3,
  got <- x4, pending <- x5, subs <- x6, chan <- x7, stream <- x8, sent <- x9, shown <- x10,
  skipped <- x11, call <- x12, closed <- x13, crashed <- x14

\* Parks mirrored as prompts, one of them an input nobody approves.
Mirror == INSTANCE Prompts WITH
  Source <- "parks", Prompts <- {"p1", "p2", "p3"}, Inputs <- {"p3"}, Streams <- {"a"},
  Operators <- {"o1", "o2"}, Answers <- {"allow-once", "allow-always"}, Capacity <- 1, ask <- x1,
  todo <- x2, response <- x3, got <- x4, pending <- x5, subs <- x6, chan <- x7, stream <- x8,
  sent <- x9, shown <- x10, skipped <- x11, call <- x12, closed <- x13, crashed <- x14

\* A peer that registers three times at a hub restarted under another ceiling.
Hub == INSTANCE Peers WITH
  Names <- {"n"}, Ids <- 1 .. 3, TTLs <- {2}, DefaultTTL <- 3, Ceilings <- {1, 3}, Fraction <- 3,
  MaxNow <- 2, MaxFaults <- 2, now <- x1, maxTTL <- x2, byID <- x3, nextId <- x4, seq <- x5,
  written <- x6, file <- x7, failed <- x8, call <- x9, peer <- x10, faults <- x11

\* Every registrant under either server.
Routes == INSTANCE OperatorRoutes WITH
  Agents <- Registrants, Servers <- {{}, {"multi_session"}}, agent <- x1, server <- x2,
  caps <- x3, reply <- x4

\* Two messages, an operator who interrupts and a turn from another door.
Adapt == INSTANCE Adapter WITH
  Messages <- {"m1", "m2"}, Others <- {"t1"}, Operators <- {"o1"}, Words <- {"rate"},
  Codes <- {0}, MaxFaults <- 1, accepted <- x1, queue <- x2, draining <- x3, drain <- x4,
  ran <- x5, cancelTurn <- x6, auditPending <- x7, seen <- x8, captured <- x9, cancelled <- x10,
  audits <- x11, dropped <- x12, lock <- x13, stale <- x14, parked <- x15, told <- x16,
  faults <- x17

\* Calls in batches of two, long enough to repeat, to lap and to be stopped.
Loops == INSTANCE ToolLoops WITH
  Calls <- {"a", "b"}, Results <- {"r", "q"}, Threshold <- 2, StopAfter <- 1, MaxPeriod <- 2,
  Cycles <- 2, Streak <- 2, MaxPending <- 2, MaxModelCalls <- 3, Width <- 2, MaxCalls <- 5,
  Modes <- {"warn", "feedback", "enforce"}, mode <- x1, turn <- x2, calls <- x3, batch <- x4,
  loop <- x5, told <- x6, seen <- x7, hist <- x8, repeat <- x9, cycle <- x10, failure <- x11,
  fired <- x12, pending <- x13

\* A diagnoser, the fallback and a change executor over three turns.
Flow == INSTANCE Workflow WITH
  Specialists <- {"d", "f", "x"}, Fallback <- "f", Executors <- {"x"}, Changes <- {"c1"},
  RequireApproval <- TRUE, MaxTurns <- 3, pc <- x1, at <- x2, resumed <- x3, finding <- x4,
  route <- x5, verdict <- x6, change <- x7, asks <- x8, raised <- x9, said <- x10,
  approved <- x11, handed <- x12, turns <- x13

\* Two incidents on one session, one analyst at a time.
Fan == INSTANCE Fanout WITH
  Invocations <- {"v1", "v2"}, SessionOf <- [v1 |-> "s", v2 |-> "s"], Analysts <- {"p", "q"},
  MutatingAnalysts <- {}, MaxConcurrency <- 1, DefaultMaxConcurrency <- 2,
  RequireApproval <- TRUE, phase <- x1, branch <- x2, sems <- x3, log <- x4, findings <- x5,
  stash <- x6, report <- x7

\* Two dispatches of one turn use the same call id.
Send == INSTANCE Dispatch WITH
  Dispatches <- {"d1", "d2"}, Ids <- {"x"}, Ceiling <- 2, Enforce <- TRUE, MaxFaults <- 1,
  turn <- x1, disp <- x2, spend <- x3, alerted <- x4, trip <- x5, intents <- x6, recorded <- x7,
  ran <- x8, stopped <- x9, counts <- x10, faults <- x11

\* Two calls that are shed together.
Retry == INSTANCE ModelRetry WITH
  Callers <- {"c1", "c2"}, Backoff <- <<1>>, Cooldown <- 2, MaxNow <- 3, now <- x1,
  lastRetry <- x2, call <- x3, seen <- x4, claims <- x5, started <- x6, counts <- x7, told <- x8

\* Two callers, so that one sweeps the other's idle bucket.
Rate == INSTANCE Throttle WITH
  Callers <- {"", "b"}, Keys <- {"anonymous", "b"}, KeyOf <- ("" :> "anonymous" @@ "b" :> "b"),
  Burst <- 2, Cost <- 2, Gain <- 1, Period <- 2, Threshold <- 1, IdleAfter <- 4, MaxNow <- 6,
  now <- x1, notifier <- x2, buckets <- x3, granted <- x4, since <- x5, sent <- x6, which <- x7

\* Three daemons: a served one, a federated one and a scheduled one.
Run == INSTANCE Serve WITH
  Configs <- Daemons, cfg <- x1, at <- x2, stack <- x3, open <- x4, work <- x5, stopped <- x6,
  drain <- x7, deadline <- x8, turn <- x9, marked <- x10, armed <- x11, wedged <- x12,
  code <- x13

\* A bundle and a catalog that are edited before, during and after the load.
Drift == INSTANCE ConfigDrift WITH
  Files <- {"w", "m"}, Catalog <- {"m"}, Contents <- {1, 2}, disk <- x1, at <- x2, parsed <- x3,
  loaded <- x4, reported <- x5, told <- x6, pending <- x7

\* Command lines, good and bad.
Shot == INSTANCE OneShot WITH
  Flags <- CommandLines, FamilyOf <- [ga |-> "gemini", cl |-> "anthropic"], MaxEvents <- 2,
  flags <- x1, at <- x2, model <- x3, events <- x4, refused <- x5, cancelled <- x6,
  tripped <- x7, lastOutput <- x8, lastText <- x9, outcome <- x10, printed <- x11, exit <- x12

\* A turn longer than a reading stays fresh.
Pool == INSTANCE KVPool WITH
  Sessions <- {"a"}, EdgeFresh <- 1, EdgeBackoff <- 2, RingCap <- 2, MaxNow <- 4, MaxFaults <- 1,
  now <- x1, ring <- x2, downUntil <- x3, poller <- x4, stopped <- x5, turn <- x6, book <- x7,
  faults <- x8

\* Corpora with diagnostic, mutating, demoted and unanswerable cases.
Eval == INSTANCE Outcome WITH
  Corpora <- EvalCorpora, Reports <- {{}, {"oom"}, {"oom", "deleted it"}}, Traces <- EvalTraces,
  Satisfies <- [t |-> {"i1"}], Concurrency <- 1, DefaultReps <- 2, MaxFaults <- 1, corpus <- x1,
  at <- x2, cluster <- x3, worker <- x4, todo <- x5, board <- x6, object <- x7, expired <- x8,
  keep <- x9, faults <- x10, exit <- x11, fresh <- x12, earned <- x13, broken <- x14

\* Two callers on one paused session.
Lib == INSTANCE Library WITH
  Callers <- {"c1", "c2"}, Configs <- Embeddings, MaxEvents <- 1, MaxFaults <- 1, cfg <- x1,
  call <- x2, turn <- x3, pending <- x4, answers <- x5, aborted <- x6, gate <- x7, token <- x8,
  acked <- x9, faults <- x10

\* Responses below the threshold, between it and the cap, and beyond it.
Dig == INSTANCE Digest WITH
  Procs <- {"p"}, Calls <- {"c1", "c2"}, ProcOf <- [c1 |-> "p", c2 |-> "p"],
  Temps <- {"t1", "t2"}, Names <- <<"t1", "t2", "c1", "c2">>, Sizes <- {1, 2, 3, 6},
  Threshold <- 2, MaxPassthroughBytes <- 3, MaxTotalBytes <- 5, MaxFaults <- 2, store <- x1,
  disk <- x2, mutex <- x3, run <- x4, temp <- x5, shown <- x6, got <- x7, stuck <- x8,
  faults <- x9

\* Includes that cross, cycle, repeat, are fenced or lead nowhere.
Text == INSTANCE Instructions WITH
  Files <- {"a", "b", "c", "d"}, Roots <- <<"s", "r">>, Trees <- Directories,
  maxIncludeDepth <- 2, maxFileLines <- 4, tree <- x1, scope <- x2, todo <- x3, stack <- x4,
  visited <- x5, out <- x6, sources <- x7, result <- x8

\* One session over two processes, with an operator who raises its ceiling.
Guard == INSTANCE Guardrails WITH
  Cap <- 1, Sizes <- {1}, Branches <- 2, Operators <- {"o1"}, Grants <- {1}, SigAt <- 1,
  FinalReport <- TRUE, MaxCrashes <- 1, MaxFaults <- 1, MaxSpend <- 3, MaxRequests <- 1,
  ledger <- x1, halted <- x2, granted <- x3, used <- x4, limit <- x5, mRestored <- x6,
  taken <- x7, mLatch <- x8, wLatch <- x9, tripped <- x10, sig <- x11, enforce <- x12, pc <- x13,
  snap <- x14, req <- x15, calling <- x16, crashes <- x17, faults <- x18, requests <- x19,
  before <- x20, own <- x21, carried <- x22, peak <- x23, reports <- x24

\* A coordinator and two runs of one specialist.
Spend == INSTANCE Meter WITH
  Callers <- {"c1", "c2", "c3"}, AuthorOf <- [c1 |-> "spec", c2 |-> "spec", c3 |-> "coord"],
  Reporters <- {"c1", "c2"}, Configs <- Ceilings, Usages <- Counters, Absent <- None,
  MaxCalls <- 4, cfg <- x1, total <- x2, spent <- x3, unpriced <- x4, refusals <- x5,
  taken <- x6, at <- x7, last <- x8, turn <- x9

-----------------------------------------------------------------------------
\* What the smaller components leave alone, and what it is.
after17 == <<x18, x19, x20, x21, x22, x23, x24>>
after14 == <<x15, x16, x17, after17>>
after13 == <<x14, after14>>
after12 == <<x13, after13>>
after11 == <<x12, after12>>
after10 == <<x11, after11>>
after9 == <<x10, after10>>
after8 == <<x9, after9>>
after7 == <<x8, after8>>
after5 == <<x6, x7, after7>>
after4 == <<x5, after5>>
pool == <<x1, x2, x3, x4, after4>>
all == <<focus, vars, pool>>

Zero17 == x18 = 0 /\ x19 = 0 /\ x20 = 0 /\ x21 = 0 /\ x22 = 0 /\ x23 = 0 /\ x24 = 0
Zero14 == x15 = 0 /\ x16 = 0 /\ x17 = 0 /\ Zero17
Zero13 == x14 = 0 /\ Zero14
Zero12 == x13 = 0 /\ Zero13
Zero11 == x12 = 0 /\ Zero12
Zero10 == x11 = 0 /\ Zero11
Zero9 == x10 = 0 /\ Zero10
Zero8 == x9 = 0 /\ Zero9
Zero7 == x8 = 0 /\ Zero8
Zero5 == x6 = 0 /\ x7 = 0 /\ Zero7
Zero4 == x5 = 0 /\ Zero5
Idle ==
  /\ deployment = None /\ at = "load" /\ bundle = None /\ specs = {} /\ shape = None /\ wired = {} /\ root = {}
  /\ hints = Nothing /\ parked = {} /\ last = None

MCInit ==
  \/ focus = "composition" /\ Init /\ x1 = 0 /\ x2 = 0 /\ x3 = 0 /\ x4 = 0 /\ Zero4
  \/ Idle /\ \/ focus = "door" /\ Door!Init /\ Zero5
             \/ focus = "parks" /\ Park!Init /\ Zero9
             \/ focus = "permissions" /\ Perm!Init /\ Zero9
             \/ focus = "broker" /\ Ask!Init /\ Zero14
             \/ focus = "mirror" /\ Mirror!Init /\ Zero14
             \/ focus = "peers" /\ Hub!Init /\ Zero11
             \/ focus = "routes" /\ Routes!Init /\ Zero4
             \/ focus = "adapter" /\ Adapt!Init /\ Zero17
             \/ focus = "loops" /\ Loops!Init /\ Zero13
             \/ focus = "workflow" /\ Flow!Init /\ Zero13
             \/ focus = "fanout" /\ Fan!Init /\ Zero7
             \/ focus = "dispatch" /\ Send!Init /\ Zero11
             \/ focus = "retry" /\ Retry!Init /\ Zero8
             \/ focus = "rate" /\ Rate!Init /\ Zero7
             \/ focus = "serve" /\ Run!Init /\ Zero13
             \/ focus = "config" /\ Drift!Init /\ Zero7
             \/ focus = "oneshot" /\ Shot!Init /\ Zero12
             \/ focus = "kv" /\ Pool!Init /\ Zero8
             \/ focus = "outcome" /\ Eval!Init /\ Zero14
             \/ focus = "library" /\ Lib!Init /\ Zero10
             \/ focus = "digest" /\ Dig!Init /\ Zero9
             \/ focus = "instructions" /\ Text!Init /\ Zero8
             \/ focus = "guard" /\ Guard!Init
             \/ focus = "meter" /\ Spend!Init /\ Zero9

In(component, frame) == focus = component /\ UNCHANGED <<focus, vars, frame>>
MCNext ==
  \/ focus = "composition" /\ UNCHANGED <<focus, pool>> /\ Next
  \/ In("door", after5) /\ Door!Next
  \/ In("parks", after9) /\ Park!Next
  \/ In("permissions", after9) /\ Perm!Next
  \/ In("broker", after14) /\ Ask!Next
  \/ In("mirror", after14) /\ Mirror!Next
  \/ In("peers", after11) /\ Hub!Next
  \/ In("routes", after4) /\ Routes!Next
  \/ In("adapter", after17) /\ Adapt!Next
  \/ In("loops", after13) /\ Loops!Next
  \/ In("workflow", after13) /\ Flow!Next
  \/ In("fanout", after7) /\ Fan!Next
  \/ In("dispatch", after11) /\ Send!Next
  \/ In("retry", after8) /\ Retry!Next
  \/ In("rate", after7) /\ Rate!Next
  \/ In("serve", after13) /\ Run!Next
  \/ In("config", after7) /\ Drift!Next
  \/ In("oneshot", after12) /\ Shot!Next
  \/ In("kv", after8) /\ Pool!Next
  \/ In("outcome", after14) /\ Eval!Next
  \/ In("library", after10) /\ Lib!Next
  \/ In("digest", after9) /\ Dig!Next
  \/ In("instructions", after8) /\ Text!Next
  \/ In("guard", <<>>) /\ Guard!Next
  \/ In("meter", after9) /\ Spend!Next
MCSpec == MCInit /\ [][MCNext]_all

\* One component alone, where a document and the code part.
MeterOnly == (focus = "meter" /\ MCInit) /\ [][MCNext]_all
WorkflowOnly == (focus = "workflow" /\ MCInit) /\ [][MCNext]_all

-----------------------------------------------------------------------------
\* A handler acts only for a caller whose credential was presented, and a
\* credential the operator issued opens what it was issued for (inject and attach
\* listeners).
CallerProven == focus = "door" => Door!CallerProven /\ Door!IssuedCredentialsWork

\* A connected operator is shown every prompt and every park that waits, whoever
\* came first, and an answer acknowledged to a park is the one its call acts on
\* (PromptBroker, the parks prompt source, GET /parks).
EveryoneIsShown ==
  /\ focus = "broker" => Ask!EveryoneIsShown
  /\ focus = "mirror" => Mirror!EveryoneIsShown /\ Mirror!AckMeansDecided
  /\ focus = "parks" => Park!NoParkMissed

\* A tool call is allowed by its session's configuration and mode or by an answer
\* that covers it, never by another session's answer (Gate).
AllowedOnSomeonesWord == [][focus = "permissions" => Perm!AllowedOnSomeonesWord]_all

\* The peers file is what the hub remembers once its writers are done, and no lease
\* outlives the configuration that runs now (PeerRegistry).
PeersSurviveRestarts == focus = "peers" => Hub!DiskFollowsMemory /\ Hub!LeaseWithinConfig

\* A message injected into an attached session is one turn, in order, and each turn
\* an operator interrupted leaves one audit row (Adapter).
MessagesKept == focus = "adapter" => Adapt!MessagesKept /\ Adapt!InterruptsAccounted

\* What mast says of itself is so: the exit code of a one-shot run, the line of the
\* configuration watcher, the advertised capabilities, the window a turn is given
\* of the KV pool, the frame that ends a turn, the buckets a call is billed by.
ReportsAreTrue ==
  /\ focus = "oneshot" => Shot!OneStory
  /\ focus = "config" => Drift!LastLineIsTrue
  /\ focus = "routes" => Routes!AdvertisedIsServed
  /\ focus = "kv" => Pool!LiveEndpointIsMeasured
  /\ focus = "adapter" => Adapt!FramesAreTrue
  /\ focus = "meter" => Spend!BucketsSplitThePrompt

\* No limit is passed by steps that overlap: retries a cooldown apart, sends and
\* calls within burst and refill, model calls within a cap and what was under way,
\* raw payloads within the disk cap even across crashes (Policy, parkNotifier,
\* costRateLimiter, Meter, Store).
LimitsHold ==
  /\ focus = "retry" => Retry!RetriesAreRare
  /\ focus = "rate" => Rate!RateIsBounded
  /\ focus = "meter" => Spend!TurnCapOvershoot
  /\ focus = "digest" => Dig!DiskBounded

\* What earlier processes spent is counted exactly once in this one, however a
\* turn's restore and an operator's race, as long as no durable call failed; so a
\* ceiling bounds what a session spends over all its processes (meterPool).
SpendOutlivesProcess ==
  focus = "guard" => Guard!RestoredSpendCountsOnce /\ Guard!CeilingOutlivesProcess

\* A loop of tool calls is alerted once, and ends a turn only if the model went on
\* after it had read a note on it (the loop signals and loopguard).
LoopsAreStopped ==
  [](focus = "loops" => Loops!LoopAlertedOnce) /\ [][focus = "loops" => Loops!StopEarned]_all

\* The change executor is reached on a yes at the finding's own gate, and a turn
\* raises at most one question (the triage graph).
GatesHold == focus = "workflow" => Flow!GatesHold

\* Synthesis is shown the outputs of its own incident's analysts and the names of
\* those that stayed silent, within the concurrency cap (the fan-out graph).
AnalystsAccounted == focus = "fanout" => Fan!AnalystsAccounted

\* A dispatched specialist's mutating call runs after its intent is durable, and a
\* call its sink stopped leaves no intent (SubRunRecorder).
IntentsMatchCalls == focus = "dispatch" => Send!IntentsMatchCalls

\* Nothing is closed under what still stands on it, however a daemon comes to its
\* end (the phases of Serve).
GroundHolds == focus = "serve" => Run!GroundHolds

\* The evaluation exits 0 only for cases that really passed, plants each mutating
\* case's fixture anew, and returns its cluster (outcome eval).
GreenIsEarned ==
  focus = "outcome" => Eval!GreenIsEarned /\ Eval!FreshFixture /\ Eval!ClusterReturned

\* A caller of the library holds a Result only if nothing stopped its turn, and a
\* token is spent only once its answer is on the log (RunWorkload, ResumeByToken).
ResultIsEarned == focus = "library" => Lib!ResultIsEarned /\ Lib!ConsumedOnAppend

\* What the model is given to read is whole: retrieve_raw returns the very payload
\* its digest was made from, and the instructions hold every included file once
\* (Store.Put, the instruction loader).
TextIsWhole ==
  /\ focus = "digest" => Dig!RawIsTheDigested
  /\ focus = "instructions" => Text!EveryFileOnce

\* mast.go, RunWorkload: "crossing a ceiling aborts the run with an error wrapping
\* budget.ErrExceeded".
CrossingIsAnError == focus = "meter" => Spend!CrossingIsAnError

\* graph.go, routeChange: "what executes is what an operator approved".
HandedIsWhatWasRead == focus = "workflow" => Flow!HandedIsWhatWasRead
=============================================================================
