----------------------------- MODULE Composition -----------------------------
(***************************************************************************)
(* How a workload becomes a running root (pkg/workload, pkg/specialists,   *)
(* internal/{config,compose,cli,mcp,effects}): its bundle and specialists  *)
(* are loaded, the roster is checked, the servers are wired, the root is   *)
(* built and the write gate put around it, or the start is refused; then   *)
(* the models call the tools they hold, mast runs some on its own behalf   *)
(* and the servers publish what they say of theirs.                        *)
(*                                                                         *)
(* A name is a string; " " stands for one that is blank and not empty.  A  *)
(* duration as written is [form, d]: it is absent, plain, padded with      *)
(* blanks, or not a duration; d is in seconds.                             *)
(***************************************************************************)
EXTENDS Integers, Sequences, FiniteSets, TLAPS

CONSTANTS
  Deployments,     \* what a process may be started on (see Init)
  Serves,          \* the tools each server and each toolset of the binary serves
  Annotates,       \* per server: the annotations its tools/list may carry
  None

VARIABLES
  deployment,  \* the files, flags, catalog and binary of this start
  at,          \* "load", "roster", "wire", "root", "govern", "serve" or "refused"
  bundle,      \* the workload loaded
  specs,       \* the specialists loaded
  shape,       \* the dispatch resolved; "planner" once the planner won
  wired,       \* the toolsets offered to the specialists
  root,        \* the specialists under the root
  hints,       \* Annotations.hints: tool to [readOnly, server]
  parked,      \* calls that wait for an operator: <<specialist, tool>>
  last         \* the latest tool run: [by, spec, tool, how, class]

vars == <<deployment, at, bundle, specs, shape, wired, root, hints, parked, last>>

Elems(s) == {s[i] : i \in DOMAIN s}
Distinct(s) == \A i, j \in DOMAIN s : s[i] = s[j] => i = j
Trim(s) == IF s = " " THEN "" ELSE s
Nothing == [x \in {} |-> None]

Phases == {"load", "roster", "wire", "root", "govern", "serve", "refused"}
Shapes == {"coordinator", "graph", "fanout", "bounded"}
SynthesisName == "_synthesis"
FallbackName == "_fallback"

Init ==
  /\ deployment \in Deployments /\ at = "load"
  /\ bundle = None /\ specs = {} /\ shape = None /\ wired = {} /\ root = {}
  /\ hints = Nothing /\ parked = {} /\ last = None

-----------------------------------------------------------------------------
(* The mutation predicate. *)

\* Calls that only steer the run, and the tools mast itself registers.
controlCalls ==
  {"adk_request_input", "adk_request_credential", "adk_request_confirmation", "finish_task",
   "transfer_to_agent", "task_completed", "exit_loop", "pause_session"}
builtinClasses ==
  [invoke_specialist |-> "spawning", run_shape_llm_router |-> "spawning", run_shape_fan_out_fan_in |-> "spawning",
   invoke_remote_agent |-> "mutating", request_operator_input |-> "readonly", retrieve_raw |-> "readonly"]

\* The audited overrides of tool_catalog.tools; a blank name overrides nothing.
Overrides(b) ==
  LET audited == {p \in Elems(b.tools) : p.mutating # None /\ Trim(p.name) # ""}
  IN  [t \in {p.name : p \in audited} |-> (CHOOSE p \in audited : p.name = t).mutating]

\* A control call, then the override, the built-in's class, the server's word, and
\* whatever nothing classifies mutates.
NewPredicateWithHints(overrides, words, t) ==
  IF t \in controlCalls THEN "readonly"
  ELSE IF t \in DOMAIN overrides THEN IF overrides[t] THEN "mutating" ELSE "readonly"
  ELSE IF t \in DOMAIN builtinClasses THEN builtinClasses[t]
  ELSE IF t \in DOMAIN words /\ words[t].readOnly THEN "readonly" ELSE "mutating"

\* While a root is composed no server has spoken.
MutationPredicate(b, t) == NewPredicateWithHints(Overrides(b), Nothing, t)
mutatingNames(b, names) == {t \in names : MutationPredicate(b, t) # "readonly"}

\* effPred: what the write gate asks.
effPred(t) == NewPredicateWithHints(Overrides(bundle), hints, t)

-----------------------------------------------------------------------------
(* workload.Load. *)

CurrentSchemaVersion == 1
minScheduledInterval == 1

\* What a bundle may hold; what is written below is what an empty file says.
NoHITL == [approval |-> FALSE, on |-> "", ttl |-> [form |-> "absent", d |-> 0]]
ToolPolicy(name, mutating) == [name |-> name, mutating |-> mutating, precondition |-> None, capture |-> None]
Precondition(tool, fields) == [read |-> tool, fields |-> fields, argsFrom |-> {}]
Capture(tool, fields, revert) == [read |-> tool, fields |-> fields, argsFrom |-> {}, revert |-> revert]
Revert(call, fromCapture) == [call |-> call, fromChange |-> {}, fromCapture |-> fromCapture, literals |-> {}]
ScheduledTrigger(interval, jitter) == [interval |-> interval, jitter |-> jitter]
MonitorCollect(tool, as) == [tool |-> tool, as |-> as]
MonitorAck(tool, args) == [tool |-> tool, args |-> args]
MonitorNotify(conversation, digestAfter) == [conversation |-> conversation, digestAfter |-> digestAfter]
Monitor == [collect |-> <<>>, transitions |-> "", notify |-> None, ack |-> None]
Bundle ==
  [version |-> None, known |-> TRUE, name |-> "", specialists |-> <<>>, mode |-> "", dispatch |-> "",
   watchdog |-> "", cacheTTL |-> "", hitl |-> NoHITL, hitlPolicy |-> NoHITL, servers |-> <<>>, tools |-> <<>>,
   planner |-> FALSE, scheduled |-> None, monitor |-> Monitor]

TrimSpace(text) == IF text.form = "padded" THEN [text EXCEPT !.form = "plain"] ELSE text
ParsesDuration(text) == text.form = "plain"

checkSchemaVersion(b) == b.version = None \/ b.version \in 1 .. CurrentSchemaVersion

\* hitl: and hitl_policy: are one block.
foldHITLPolicy(b) ==
  IF b.hitlPolicy = NoHITL THEN b ELSE [b EXCEPT !.hitl = b.hitlPolicy, !.hitlPolicy = NoHITL]
OneHITL(b) == b.hitlPolicy = NoHITL \/ b.hitl = NoHITL

EffectiveOnMutation(b) == IF b.hitl.on = "" THEN "require_approval" ELSE b.hitl.on
ValidChangeSetTTL(h) == h.ttl.form = "absent" \/ (ParsesDuration(h.ttl) /\ h.ttl.d > 0)

ValidInterval(s) ==
  LET raw == TrimSpace(s.interval) IN ParsesDuration(raw) /\ raw.d >= minScheduledInterval
\* Absent is a tenth of the interval, and then needs no check.
ValidJitter(s) ==
  /\ ValidInterval(s)
  /\ \/ s.jitter.form = "absent"
     \/ ParsesDuration(s.jitter) /\ s.jitter.d >= 0 /\ s.jitter.d < s.interval.d

\* The tools mast runs on its own behalf.
CollectKey(c) == IF Trim(c.as) # "" THEN Trim(c.as) ELSE Trim(c.tool)
CollectTools(m) == {Trim(c.tool) : c \in Elems(m.collect)} \ {""}
AckTool(m) == IF m.ack = None THEN "" ELSE Trim(m.ack.tool)
SelfRunTools(m) == CollectTools(m) \cup ({AckTool(m)} \ {""})

ValidDigestAfter(n) ==
  LET raw == TrimSpace(n.digestAfter)
  IN  raw.form = "absent" \/ (ParsesDuration(raw) /\ raw.d >= 0)
validateMonitorNotify(b) ==
  LET n == b.monitor.notify
  IN  n = None \/ (Trim(n.conversation) # "" /\ ValidDigestAfter(n) /\ b.scheduled # None)

\* mast fills in whose finding and whose acknowledgement it is.
validateMonitorAck(b) ==
  \/ b.monitor.ack = None
  \/ /\ AckTool(b.monitor) # ""
     /\ b.monitor.ack.args \cap {"subject_key", "ack_by"} = {}
     /\ \A c \in Elems(b.monitor.collect) : Trim(c.tool) # AckTool(b.monitor)

\* Collecting needs a cadence, a tool and a key of its own for each result.
validateMonitor(b) ==
  LET m == b.monitor IN
  /\ validateMonitorNotify(b) /\ validateMonitorAck(b)
  /\ m.collect # <<>> =>
       /\ b.scheduled # None
       /\ \A c \in Elems(m.collect) : Trim(c.tool) # ""
       /\ Distinct([i \in DOMAIN m.collect |-> CollectKey(m.collect[i])])
       /\ Trim(m.transitions) \in {""} \cup {CollectKey(c) : c \in Elems(m.collect)}

Named(pairs) == \A r \in pairs : Trim(r[1]) # "" /\ Trim(r[2]) # ""
\* The read a tool declares before it runs: not the tool itself, and no blank in
\* what it maps or keeps.
ValidRead(p, r) ==
  /\ Trim(r.read) # "" /\ r.read # p.name
  /\ \A f \in r.fields : Trim(f) # ""
  /\ Named(r.argsFrom)
validatePrecondition(p) == p.precondition = None \/ ValidRead(p, p.precondition)

\* A revert takes something from the capture or names a literal, and takes only
\* what the capture keeps; a capture that lists no field keeps the whole read.
ValidRevert(c) ==
  LET r == c.revert IN
  /\ Trim(r.call) # "" /\ Named(r.fromChange) /\ Named(r.fromCapture)
  /\ r.fromCapture # {} \/ r.literals # {}
  /\ c.fields # {} => \A m \in r.fromCapture : m[2] \in c.fields
validateCapture(p) ==
  p.capture = None \/ (ValidRead(p, p.capture) /\ (p.capture.revert = None \/ ValidRevert(p.capture)))

validate(b) ==
  /\ b.name # "" /\ b.specialists # <<>>
  /\ b.mode \in {"", "single_session", "multi_session"}
  /\ b.dispatch \in {"", "auto"} \cup Shapes
  /\ b.watchdog \in {"", "warn", "feedback", "enforce"}
  /\ b.cacheTTL \in {"", "5m", "1h"}
  /\ b.hitl.on \in {"", "require_approval", "apply", "dry_run"}
  /\ "" \notin Elems(b.specialists) /\ Distinct(b.specialists)
  /\ ValidChangeSetTTL(b.hitl)
  /\ b.scheduled # None => ValidJitter(b.scheduled)
  /\ validateMonitor(b)
  /\ \A p \in Elems(b.tools) : p.name # "" /\ validatePrecondition(p) /\ validateCapture(p)
  /\ Distinct([i \in DOMAIN b.tools |-> b.tools[i].name])

\* A key nobody knows is refused, never dropped (known: the file holds none).
Loads(b) == checkSchemaVersion(b) /\ b.known /\ OneHITL(b) /\ validate(foldHITLPolicy(b))
Load(b) == [foldHITLPolicy(b) EXCEPT !.version = 1, !.mode = IF @ = "" THEN "single_session" ELSE @]

-----------------------------------------------------------------------------
(* pkg/specialists: a file is its parsed frontmatter and what is wrong with it. *)

MCPAllowlist(server, tools) == [server |-> server, tools |-> tools]
Frontmatter(stem, capability, mcp) ==
  [stem |-> stem, ext |-> "md", broken |-> FALSE, description |-> TRUE, name |-> "", mode |-> "", tier |-> "",
   model |-> "", skills |-> {}, schema |-> "none", builtin |-> {}, capability |-> capability, mcp |-> mcp]

\* broken: no frontmatter, an unknown key or a placeholder left in the body.
ReadsFile(f) ==
  /\ ~f.broken /\ f.description
  /\ f.mode \in {"", "Task", "SingleTurn"}
  /\ f.capability \in {"", "read_only", "change_executor"}
  /\ f.tier \in {"", "small", "mid", "frontier"} /\ (f.tier = "" \/ f.model = "")
  /\ f.skills = {} /\ f.schema # "bad"
LoadFile(f) ==
  [file |-> f.stem,
   name |-> IF f.name = "" THEN f.stem ELSE f.name,
   mode |-> IF f.mode = "" THEN "Task" ELSE f.mode,
   capability |-> IF f.capability = "" THEN "read_only" ELSE f.capability,
   builtin |-> f.builtin, mcp |-> f.mcp, schema |-> f.schema # "none"]

\* One file under the extension that was removed refuses the directory; other
\* files are not specialists.
ReadsDir(files) == \A f \in files : f.ext # "tmpl" /\ (f.ext = "md" => ReadsFile(f))
LoadDir(files) == {LoadFile(f) : f \in {g \in files : g.ext = "md"}}

IsTask(s) == s.mode # "SingleTurn"
InheritsAllMCP(s) == s.mcp = None
NamesOf(ss) == {s.name : s \in ss}

-----------------------------------------------------------------------------
(* internal/config: a workload by name, out of one root. *)

\* MAST_CONFIG_DIR alone, or the first place that exists: an empty root shadows a
\* full one behind it.
discover(d) ==
  IF d.env THEN d.roots["env"]
  ELSE LET there == {i \in 1 .. 3 : d.roots[<<"project", "user", "system">>[i]] # None}
       IN  IF there = {} THEN None
           ELSE d.roots[<<"project", "user", "system">>[CHOOSE i \in there : \A j \in there : i <= j]]

\* Every workload and specialist of the root loads under a name of its own, and
\* every roster resolves.
ReadsRoot(r) ==
  /\ \A b \in Elems(r.bundles) : Loads(b)
  /\ Distinct([i \in DOMAIN r.bundles |-> r.bundles[i].name])
  /\ ReadsDir(r.files)
  /\ \A s, t \in LoadDir(r.files) : s.name = t.name => s = t
  /\ \A b \in Elems(r.bundles) : Elems(b.specialists) \subseteq NamesOf(LoadDir(r.files))

Refuse == at' = "refused" /\ UNCHANGED <<deployment, bundle, specs, shape, wired, root, hints, parked, last>>
Go(phase) == at' = phase /\ UNCHANGED <<deployment, hints, parked, last>>

\* A directory: its bundle and every specialist in it.
resolvePath ==
  LET t == deployment.tree IN
  IF t # None /\ Loads(t.bundles[1]) /\ ReadsDir(t.files)
  THEN bundle' = Load(t.bundles[1]) /\ specs' = LoadDir(t.files) /\ Go("roster") /\ UNCHANGED <<shape, wired, root>>
  ELSE Refuse

\* A name: the specialists of its roster.
resolveName ==
  LET r == discover(deployment) IN
  IF r # None /\ ReadsRoot(r) /\ \E b \in Elems(r.bundles) : b.name = deployment.arg
  THEN /\ bundle' = Load(CHOOSE b \in Elems(r.bundles) : b.name = deployment.arg)
       /\ specs' = {s \in LoadDir(r.files) : s.name \in Elems(bundle'.specialists)}
       /\ Go("roster") /\ UNCHANGED <<shape, wired, root>>
  ELSE Refuse

resolveWorkload == at = "load" /\ IF deployment.arg = None THEN resolvePath ELSE resolveName

-----------------------------------------------------------------------------
(* internal/compose: what a roster may be. *)

\* --dispatch, then the bundle's own; auto is read off the roster.
resolveDispatch(flag, b) ==
  IF flag # "" THEN flag ELSE IF b.dispatch # "" THEN b.dispatch ELSE "coordinator"
RosterShape(ss) ==
  LET tasks == NamesOf({s \in ss : IsTask(s)}) IN
  IF SynthesisName \in tasks THEN "fanout"
  ELSE IF (\E s \in ss : ~IsTask(s)) /\ FallbackName \in tasks THEN "graph"
  ELSE "coordinator"
Resolved(flag, b, ss) ==
  LET d == resolveDispatch(flag, b) IN IF d = "auto" THEN RosterShape(ss) ELSE d

\* Bounded dispatch: one SingleTurn specialist with a contract, and no planner.
boundedSpec(b, ss) ==
  /\ ~b.planner /\ Cardinality(ss) = 1
  /\ \A s \in ss : ~IsTask(s) /\ s.schema

\* Mutant: the write gate is thought to reach into a dispatch.
PlannerIsGated(b, ss) == TRUE
\* Under the planner a specialist runs where the write gate does not reach, so a
\* change executor needs a policy that asks nobody.
CheckPlannerWriteSurface(b, ss) ==
  b.planner /\ EffectiveOnMutation(b) # "apply" => \A s \in ss : s.capability # "change_executor"

\* Mutant: an allowlist entry without a tools list is taken to grant nothing.
CollectSurfaceByName(b, ss) ==
  LET own == SelfRunTools(b.monitor) IN
  own # {} => \A s \in ss : IsTask(s) =>
    /\ b.servers # <<>> => ~InheritsAllMCP(s)
    /\ s.mcp # None => \A a \in Elems(s.mcp) : a.tools \cap own = {}
    /\ s.builtin \cap own = {}
\* A tool mast runs ungated is held by no specialist.
CheckMonitorCollectSurface(b, ss) ==
  LET own == SelfRunTools(b.monitor) IN
  own # {} => \A s \in ss : IsTask(s) =>
    /\ b.servers # <<>> => ~InheritsAllMCP(s)
    /\ s.mcp # None => \A a \in Elems(s.mcp) : a.tools # {} /\ a.tools \cap own = {}
    /\ s.builtin \cap own = {}

\* Before any server is wired.
CheckRoster(b, ss, d) ==
  /\ d \in Shapes
  /\ d = "bounded" => boundedSpec(b, ss)
  /\ CheckPlannerWriteSurface(b, ss) /\ CheckMonitorCollectSurface(b, ss)

\* A toolset of the binary has a name nobody else has.
CheckHostToolsets(b, hosts) ==
  "" \notin Elems(hosts) /\ Distinct(hosts) /\ Elems(hosts) \cap Elems(b.servers) = {}

\* Mutant: the binary's own toolsets are no catalog.
CapabilitySplitOfServers(b, ss, hosts) ==
  \A s \in ss : IsTask(s) /\ s.capability # "change_executor" =>
    /\ b.servers # <<>> => ~InheritsAllMCP(s)
    /\ s.mcp # None => \A a \in Elems(s.mcp) : a.tools # {} /\ mutatingNames(b, a.tools) = {}
    /\ mutatingNames(b, s.builtin) = {}
\* A specialist that diagnoses lists its tools, and every one only reads.
CheckCapabilitySplit(b, ss, hosts) ==
  \A s \in ss : IsTask(s) /\ s.capability # "change_executor" =>
    /\ b.servers # <<>> \/ hosts # <<>> => ~InheritsAllMCP(s)
    /\ s.mcp # None => \A a \in Elems(s.mcp) : a.tools # {} /\ mutatingNames(b, a.tools) = {}
    /\ mutatingNames(b, s.builtin) = {}

CheckMCPServerNames(b, ss, hosts) ==
  b.servers # <<>> \/ hosts # <<>> =>
    \A s \in ss : s.mcp # None => \A a \in Elems(s.mcp) : a.server \in Elems(b.servers) \cup Elems(hosts)

\* Fan-out: the analysts, who work before the one approval gate, read only and do
\* not stop to ask.
analystsOf(ss) == {s \in ss : IsTask(s) /\ s.name \notin {SynthesisName, FallbackName}}
checkBranchTools(b, ss) ==
  \A s \in analystsOf(ss) :
    /\ b.servers # <<>> => ~InheritsAllMCP(s)
    /\ s.mcp # None => \A a \in Elems(s.mcp) : a.tools # {} /\ mutatingNames(b, a.tools) = {}
    /\ mutatingNames(b, s.builtin) = {} /\ "request_operator_input" \notin s.builtin

\* What each shape needs of the roster, and the specialists it puts under the root;
\* the graph takes the first classifier by name, any of them here.
rootsOf(b, ss, d) ==
  CASE b.planner -> {ss}
    [] ~b.planner /\ d = "fanout" ->
         IF /\ analystsOf(ss) # {} /\ checkBranchTools(b, ss)
            /\ \E s \in ss : IsTask(s) /\ s.name = SynthesisName
         THEN {{s \in ss : IsTask(s) /\ s.name # FallbackName}} ELSE {}
    [] ~b.planner /\ d = "bounded" -> {ss}
    [] ~b.planner /\ d = "graph" ->
         IF \E s \in ss : IsTask(s) /\ s.name = FallbackName
         THEN {{s \in ss : IsTask(s)} \cup {c} : c \in {s \in ss : ~IsTask(s)}} ELSE {}
    [] ~b.planner /\ d = "coordinator" ->
         IF Elems(b.specialists) \subseteq NamesOf(ss)
         THEN {{s \in ss : s.name \in Elems(b.specialists)}} ELSE {}

-----------------------------------------------------------------------------
(* The rest of the start. *)

\* buildRoot, up to the point where a server may be reached.
checkRoster ==
  /\ at = "roster"
  /\ LET d == Resolved(deployment.flag, bundle, specs) IN
     IF deployment.flag \in {"", "auto"} \cup Shapes /\ CheckRoster(bundle, specs, d)
     THEN shape' = d /\ Go("wire") /\ UNCHANGED <<bundle, specs, wired, root>>
     ELSE Refuse

\* The echo model has no tools; otherwise every server is in mcp.json.
wireMCPToolsets ==
  /\ at = "wire"
  /\ LET servers == IF deployment.echo THEN {} ELSE Elems(bundle.servers) IN
     IF servers = {} \/ (deployment.mcp # None /\ servers \subseteq deployment.mcp)
     THEN wired' = servers /\ Go("root") /\ UNCHANGED <<bundle, specs, shape, root>>
     ELSE Refuse

\* A server, a model, the instructions or a plugin that cannot be had.
Fails == at \in {"wire", "root", "govern"} /\ Refuse

BuildRoot ==
  /\ at = "root"
  /\ LET roots == rootsOf(bundle, specs, shape) IN
     IF /\ CheckHostToolsets(bundle, deployment.hosts)
        /\ CheckCapabilitySplit(bundle, specs, deployment.hosts)
        /\ CheckMCPServerNames(bundle, specs, deployment.hosts)
        /\ CheckPlannerWriteSurface(bundle, specs) /\ CheckMonitorCollectSurface(bundle, specs)
        /\ shape = "bounded" => boundedSpec(bundle, specs)
        /\ roots # {}
     THEN /\ root' \in roots
          /\ shape' = IF bundle.planner THEN "planner" ELSE shape
          /\ wired' = wired \cup Elems(deployment.hosts)
          /\ Go("govern") /\ UNCHANGED <<bundle, specs>>
     ELSE Refuse

\* The planner's dispatchers are no sub-agents of its root.
SubAgentNames == IF shape = "planner" THEN {} ELSE NamesOf(root)
\* A call under a sub-agent's name is taken for a transfer by the effect outbox.
CheckNameCollisions ==
  \A t \in DOMAIN builtinClasses \cup ({Trim(p.name) : p \in Elems(bundle.tools)} \ {""}) :
    t \in SubAgentNames => effPred(t) = "readonly"

\* Mutant: a freshness read is not classified.
GrantsUnchecked == TRUE
\* WriteGate: what mast reads before a change does not write, and a revert does.
changeSetGrants ==
  \A p \in Elems(bundle.tools) : p.precondition # None => effPred(p.precondition.read) # "mutating"
priorStateCaptures ==
  \A p \in Elems(bundle.tools) : p.capture # None =>
    /\ effPred(p.capture.read) # "mutating"
    /\ p.capture.revert # None => effPred(p.capture.revert.call) = "mutating"

buildGovernance ==
  /\ at = "govern"
  /\ IF CheckNameCollisions /\ changeSetGrants /\ priorStateCaptures
     THEN Go("serve") /\ UNCHANGED <<bundle, specs, shape, wired, root>>
     ELSE Refuse

-----------------------------------------------------------------------------
(* Serving. *)

\* Mutant: a server the allowlist does not name passes whole.
filterServersNamed(s, offered) ==
  UNION {{t \in Serves[n] : s.mcp = None \/ \A i \in DOMAIN s.mcp : s.mcp[i].server = n =>
            s.mcp[i].tools = {} \/ t \in s.mcp[i].tools} : n \in offered}
\* No allowlist inherits everything offered; otherwise the last entry for a server
\* decides, and one without a tools list passes it whole.
filterToolsets(s, offered) ==
  UNION {{t \in Serves[n] : s.mcp = None \/ \E i \in DOMAIN s.mcp :
            /\ s.mcp[i].server = n /\ \A j \in DOMAIN s.mcp : s.mcp[j].server = n => j <= i
            /\ s.mcp[i].tools = {} \/ t \in s.mcp[i].tools} : n \in offered}
\* specialists.Build: a SingleTurn specialist gets no toolset.
Held(s) == IF IsTask(s) THEN filterToolsets(s, wired) ELSE {}

Serving == at = "serve" /\ UNCHANGED <<deployment, at, bundle, specs, shape, wired, root>>
Ran(by, s, t, how) == last' = [by |-> by, spec |-> s, tool |-> t, how |-> how, class |-> effPred(t)]

\* A tools/list response passes by: two servers that disagree on a name make it
\* mutating until the one that spoke last speaks again, whose word then stands.
observed(n, w) ==
  [t \in DOMAIN hints \cup DOMAIN w |->
     IF t \notin DOMAIN w THEN hints[t]
     ELSE IF t \in DOMAIN hints /\ hints[t].server # n /\ hints[t].readOnly # w[t]
     THEN [readOnly |-> FALSE, server |-> n]
     ELSE [readOnly |-> w[t], server |-> n]]
observe(n) ==
  /\ Serving /\ n \in Elems(bundle.servers)
  /\ \E w \in Annotates[n] : hints' = observed(n, w)
  /\ UNCHANGED <<parked, last>>

\* A model calls a tool it holds.  Under the planner no plugin sees the call;
\* elsewhere the write gate lets a read through, runs, parks or (dry_run) only
\* reports a mutation.
ToolCall(s, t) ==
  /\ Serving /\ s \in root /\ t \in Held(s)
  /\ \/ /\ shape = "planner" \/ effPred(t) # "mutating"
        /\ Ran("model", s, t, "unasked") /\ UNCHANGED parked
     \/ /\ shape # "planner" /\ effPred(t) = "mutating"
        /\ \/ EffectiveOnMutation(bundle) = "apply" /\ Ran("model", s, t, "applied") /\ UNCHANGED parked
           \/ EffectiveOnMutation(bundle) = "require_approval" /\ parked' = parked \cup {<<s, t>>} /\ UNCHANGED last
  /\ UNCHANGED hints

\* The operator's verdict has the call dispatched again; the gate looks at it only
\* if the tool still counts as mutating.
Verdict(s, t) ==
  /\ Serving /\ <<s, t>> \in parked /\ parked' = parked \ {<<s, t>>}
  /\ \/ effPred(t) # "mutating" /\ Ran("model", s, t, "unasked")
     \/ effPred(t) = "mutating" /\ Ran("model", s, t, "approved")
     \/ effPred(t) = "mutating" /\ UNCHANGED last
  /\ UNCHANGED hints

\* toolSchemas: mast runs a tool some wired toolset serves, past every gate.
runOwnBehalf(t, how) ==
  /\ Serving /\ \E n \in wired : t \in Serves[n]
  /\ Ran("mast", None, t, how)
  /\ UNCHANGED <<hints, parked>>
read ==
  \E p \in Elems(bundle.tools) :
    \/ p.precondition # None /\ runOwnBehalf(p.precondition.read, "read")
    \/ p.capture # None /\ runOwnBehalf(p.capture.read, "read")
collect == \E t \in CollectTools(bundle.monitor) : runOwnBehalf(t, "collect")
ack == AckTool(bundle.monitor) # "" /\ runOwnBehalf(AckTool(bundle.monitor), "ack")

Next ==
  \/ resolveWorkload \/ checkRoster \/ wireMCPToolsets \/ Fails \/ BuildRoot \/ buildGovernance
  \/ at = "serve" /\ \/ \E n \in wired : observe(n)
                     \/ \E s \in root : \E t \in Held(s) : ToolCall(s, t)
                     \/ \E c \in parked : Verdict(c[1], c[2])
                     \/ read \/ collect \/ ack

Spec == Init /\ [][Next]_vars

-----------------------------------------------------------------------------
\* A tool mast runs on its own behalf is in no model's hands (monitor.go,
\* CheckMonitorCollectSurface).  The check looks at the servers alone, so it leaves
\* out an executor that inherits toolsets which are all the binary's own.
SelfRunIsFenced ==
  at = "serve" => \A s \in root : Held(s) \cap SelfRunTools(bundle.monitor) # {} =>
    s.capability = "change_executor" /\ InheritsAllMCP(s) /\ bundle.servers = <<>>

\* A specialist that diagnoses can only read, whatever servers say of their tools
\* later; so can an analyst of a fan-out, whatever its capability, with the same
\* exception (CheckCapabilitySplit, checkBranchTools).
ReadersOnlyRead ==
  at = "serve" => \A s \in root : \A t \in Held(s) :
    \/ effPred(t) = "readonly"
    \/ /\ s.capability = "change_executor"
       /\ shape = "fanout" /\ s \in analystsOf(root) => InheritsAllMCP(s) /\ bundle.servers = <<>>

\* A model's mutating call ran because an operator approved it where one is asked,
\* or because the workload asks nobody; under dry_run none ran.  What mast reads
\* before a change does not write (the write gate, CheckPlannerWriteSurface,
\* changeSetGrants, priorStateCaptures).
WritesAnsweredFor ==
  last # None /\ last.class = "mutating" =>
    /\ last.by = "model" => \/ EffectiveOnMutation(bundle) = "apply"
                            \/ EffectiveOnMutation(bundle) = "require_approval" /\ last.how = "approved"
    /\ last.how # "read"

\* What a root was composed with bounds what is done under it: mast's own tools are
\* fenced, readers read, and every write has somebody to answer for it.
AuthorityHolds == SelfRunIsFenced /\ ReadersOnlyRead /\ WritesAnsweredFor

-----------------------------------------------------------------------------
(***************************************************************************)
(* What a root was composed with bounds what is done under it, for every   *)
(* workload, roster, catalog and sequence of annotations.                  *)
(*                                                                         *)
(* AuthorityHolds is about a root that serves, and nothing in a serving    *)
(* state says why it was let through: the invariant carries each check the *)
(* start passed up to that state (CheckedInv, ReadsInv), and that an       *)
(* operator is asked only where the policy says so (ParkedInv).  The       *)
(* servers may annotate at any time; what the checks rely on is that a     *)
(* server's word decides only what nothing else has classified             *)
(* (ClassStands).                                                          *)
(***************************************************************************)

\* No server has been heard and no tool was run before the root serves.
QuietInv == at # "serve" => hints = Nothing /\ parked = {} /\ last = None

\* The dispatch resolved, and the planner in its place once the root is built.
ShapeInv ==
  /\ at \in {"wire", "root"} => shape \in Shapes
  /\ at \in {"govern", "serve"} => (shape = "planner" => bundle.planner)

\* What the toolsets offered may be.
WiredInv ==
  /\ at = "root" => wired \subseteq Elems(bundle.servers)
  /\ at \in {"govern", "serve"} => wired \subseteq Elems(bundle.servers) \cup Elems(deployment.hosts)

\* The checks of BuildRoot.
CheckedInv ==
  at \in {"govern", "serve"} =>
    /\ root \subseteq specs
    /\ CheckCapabilitySplit(bundle, specs, deployment.hosts)
    /\ CheckPlannerWriteSurface(bundle, specs)
    /\ CheckMonitorCollectSurface(bundle, specs)
    /\ shape = "fanout" => checkBranchTools(bundle, specs)

\* The checks of the write gate, made before any server is heard.
ReadsInv ==
  at = "serve" => \A p \in Elems(bundle.tools) :
    /\ p.precondition # None => MutationPredicate(bundle, p.precondition.read) # "mutating"
    /\ p.capture # None => MutationPredicate(bundle, p.capture.read) # "mutating"

\* A call waits only where an operator is asked.
ParkedInv == parked # {} => EffectiveOnMutation(bundle) = "require_approval"

IInv == QuietInv /\ ShapeInv /\ WiredInv /\ CheckedInv /\ ReadsInv /\ ParkedInv /\ WritesAnsweredFor

-----------------------------------------------------------------------------
\* A tool that reads, or does not write, before any server is heard does so
\* whatever they say (NewPredicateWithHints: the hint comes last).
LEMMA ClassStands ==
  ASSUME NEW t
  PROVE  /\ MutationPredicate(bundle, t) = "readonly" => effPred(t) = "readonly"
         /\ MutationPredicate(bundle, t) # "mutating" => effPred(t) # "mutating"
  <1>1. DOMAIN Nothing = {}
    BY Zenon DEF Nothing
  <1>2. CASE t \in controlCalls
    BY Zenon, <1>2 DEF effPred, MutationPredicate, NewPredicateWithHints
  <1>3. CASE t \notin controlCalls /\ t \in DOMAIN Overrides(bundle)
    BY Zenon, <1>3 DEF effPred, MutationPredicate, NewPredicateWithHints
  <1>4. CASE t \notin controlCalls /\ t \notin DOMAIN Overrides(bundle) /\ t \in DOMAIN builtinClasses
    BY Zenon, <1>4 DEF effPred, MutationPredicate, NewPredicateWithHints
  <1>5. CASE t \notin controlCalls /\ t \notin DOMAIN Overrides(bundle) /\ t \notin DOMAIN builtinClasses
    <2>1. MutationPredicate(bundle, t) = "mutating"
      BY Zenon, <1>1, <1>5 DEF MutationPredicate, NewPredicateWithHints
    <2> QED
      BY Zenon, <2>1
  <1> QED
    BY Zenon, <1>2, <1>3, <1>4, <1>5

\* A specialist with an allowlist whose entries all list their tools holds no
\* tool outside those lists; one without holds what is wired
\* (specialists.filterToolsets).
LEMMA HeldListed ==
  ASSUME NEW s, NEW t \in Held(s)
  PROVE  /\ IsTask(s) /\ wired # {}
         /\ s.mcp # None => \E a \in Elems(s.mcp) : a.tools = {} \/ t \in a.tools
  <1>1. IsTask(s) /\ t \in filterToolsets(s, wired)
    BY Zenon DEF Held
  <1>2. PICK n \in wired : t \in Serves[n] /\ (s.mcp = None \/ \E i \in DOMAIN s.mcp :
            /\ s.mcp[i].server = n /\ \A j \in DOMAIN s.mcp : s.mcp[j].server = n => j <= i
            /\ s.mcp[i].tools = {} \/ t \in s.mcp[i].tools)
    BY Zenon, <1>1 DEF filterToolsets
  <1> QED
    BY Zenon, <1>1, <1>2 DEF Elems

\* A toolset is wired only where the bundle lists servers or the binary brings
\* toolsets of its own (wireMCPToolsets, BuildRoot).
LEMMA WiredFrom ==
  ASSUME at = "serve", WiredInv, wired # {}
  PROVE  bundle.servers # <<>> \/ deployment.hosts # <<>>
  <1>1. \A q : q = <<>> => Elems(q) = {}
    BY DEF Elems
  <1> QED
    BY Zenon, <1>1 DEF WiredInv

\* The first two parts of AuthorityHolds follow from what was checked.
LEMMA Fenced == ASSUME IInv PROVE SelfRunIsFenced
  <1> SUFFICES ASSUME at = "serve", NEW s \in root, NEW t \in Held(s), t \in SelfRunTools(bundle.monitor)
               PROVE  s.capability = "change_executor" /\ InheritsAllMCP(s) /\ bundle.servers = <<>>
    BY Zenon DEF SelfRunIsFenced
  <1>1. s \in specs /\ CheckMonitorCollectSurface(bundle, specs)
        /\ CheckCapabilitySplit(bundle, specs, deployment.hosts)
    BY Zenon DEF IInv, CheckedInv
  <1>2. /\ IsTask(s) /\ wired # {}
        /\ s.mcp # None => \E a \in Elems(s.mcp) : a.tools = {} \/ t \in a.tools
    BY Zenon, HeldListed
  <1>3. /\ bundle.servers # <<>> => ~InheritsAllMCP(s)
        /\ s.mcp # None => \A a \in Elems(s.mcp) : a.tools # {} /\ a.tools \cap SelfRunTools(bundle.monitor) = {}
    BY Zenon, <1>1, <1>2 DEF CheckMonitorCollectSurface
  <1>4. s.mcp = None /\ InheritsAllMCP(s) /\ bundle.servers = <<>>
    BY Zenon, <1>2, <1>3 DEF InheritsAllMCP
  <1>5. deployment.hosts # <<>>
    BY Zenon, <1>2, <1>4, WiredFrom DEF IInv
  <1> QED
    BY ZenonT(60), <1>1, <1>2, <1>4, <1>5 DEF CheckCapabilitySplit

LEMMA OnlyRead == ASSUME IInv PROVE ReadersOnlyRead
  <1> SUFFICES ASSUME at = "serve", NEW s \in root, NEW t \in Held(s)
               PROVE  \/ effPred(t) = "readonly"
                      \/ /\ s.capability = "change_executor"
                         /\ shape = "fanout" /\ s \in analystsOf(root) => InheritsAllMCP(s) /\ bundle.servers = <<>>
    BY Zenon DEF ReadersOnlyRead
  <1>1. /\ s \in specs /\ root \subseteq specs
        /\ CheckCapabilitySplit(bundle, specs, deployment.hosts)
        /\ shape = "fanout" => checkBranchTools(bundle, specs)
    BY Zenon DEF IInv, CheckedInv
  <1>2. /\ IsTask(s) /\ wired # {}
        /\ s.mcp # None => \E a \in Elems(s.mcp) : a.tools = {} \/ t \in a.tools
    BY Zenon, HeldListed
  <1>3. \A names : t \in names /\ mutatingNames(bundle, names) = {} => effPred(t) = "readonly"
    BY Zenon, ClassStands DEF mutatingNames
  <1>4. CASE s.capability # "change_executor"
    <2>1. /\ bundle.servers # <<>> \/ deployment.hosts # <<>> => ~InheritsAllMCP(s)
          /\ s.mcp # None => \A a \in Elems(s.mcp) : a.tools # {} /\ mutatingNames(bundle, a.tools) = {}
      BY Zenon, <1>1, <1>2, <1>4 DEF CheckCapabilitySplit
    <2>2. s.mcp # None
      BY Zenon, <1>2, <2>1, WiredFrom DEF InheritsAllMCP, IInv
    <2> QED
      BY Zenon, <1>2, <1>3, <2>1, <2>2
  <1>5. CASE shape = "fanout" /\ s \in analystsOf(root) /\ s.mcp # None
    <2>1. s \in analystsOf(specs)
      BY Zenon, <1>1, <1>5 DEF analystsOf
    <2>2. \A a \in Elems(s.mcp) : a.tools # {} /\ mutatingNames(bundle, a.tools) = {}
      BY Zenon, <1>1, <1>5, <2>1 DEF checkBranchTools
    <2> QED
      BY Zenon, <1>2, <1>3, <1>5, <2>2
  <1>6. CASE shape = "fanout" /\ s \in analystsOf(root) /\ s.mcp = None
    <2>1. s \in analystsOf(specs)
      BY Zenon, <1>1, <1>6 DEF analystsOf
    <2>2. InheritsAllMCP(s) /\ bundle.servers = <<>>
      BY Zenon, <1>1, <1>6, <2>1 DEF checkBranchTools, InheritsAllMCP
    <2> QED
      BY Zenon, <1>4, <2>2
  <1> QED
    BY Zenon, <1>4, <1>5, <1>6

-----------------------------------------------------------------------------
\* A root is built from the specialists loaded (compose.BuildRoot).
LEMMA RootsFrom ==
  ASSUME NEW b, NEW ss, NEW d \in Shapes, NEW r \in rootsOf(b, ss, d)
  PROVE  r \subseteq ss /\ (~b.planner /\ d = "fanout" => checkBranchTools(b, ss))
  <1>1. CASE b.planner
    <2>1. rootsOf(b, ss, d) = {ss}
      BY <1>1 DEF rootsOf
    <2> QED
      BY Zenon, <1>1, <2>1
  <1>2. CASE ~b.planner /\ d = "fanout"
    <2>1. rootsOf(b, ss, d) =
            IF /\ analystsOf(ss) # {} /\ checkBranchTools(b, ss)
               /\ \E s \in ss : IsTask(s) /\ s.name = SynthesisName
            THEN {{s \in ss : IsTask(s) /\ s.name # FallbackName}} ELSE {}
      BY <1>2 DEF rootsOf
    <2> QED
      BY Zenon, <2>1
  <1>3. CASE ~b.planner /\ d = "bounded"
    <2>1. rootsOf(b, ss, d) = {ss}
      BY <1>3 DEF rootsOf
    <2> QED
      BY <1>3, <2>1
  <1>4. CASE ~b.planner /\ d = "graph"
    <2>1. rootsOf(b, ss, d) =
            IF \E s \in ss : IsTask(s) /\ s.name = FallbackName
            THEN {{s \in ss : IsTask(s)} \cup {c} : c \in {s \in ss : ~IsTask(s)}} ELSE {}
      BY <1>4 DEF rootsOf
    <2> QED
      BY <1>4, <2>1
  <1>5. CASE ~b.planner /\ d = "coordinator"
    <2>1. rootsOf(b, ss, d) =
            IF Elems(b.specialists) \subseteq NamesOf(ss)
            THEN {{s \in ss : s.name \in Elems(b.specialists)}} ELSE {}
      BY <1>5 DEF rootsOf
    <2> QED
      BY <1>5, <2>1
  <1> QED
    BY Zenon, <1>1, <1>2, <1>3, <1>4, <1>5 DEF Shapes

LEMMA InitIInv == Init => IInv
  BY DEF Init, IInv, QuietInv, ShapeInv, WiredInv, CheckedInv, ReadsInv, ParkedInv, WritesAnsweredFor

\* A refused start, and a start that moves on, have heard no server and run no tool.
LEMMA RefuseIInv == ASSUME at # "serve", IInv, Refuse PROVE IInv'
  BY Zenon DEF Refuse, IInv, QuietInv, ShapeInv, WiredInv, CheckedInv, ReadsInv, ParkedInv, WritesAnsweredFor

LEMMA GoIInv ==
  ASSUME at # "serve", IInv, NEW phase, Go(phase)
  PROVE  at' = phase /\ deployment' = deployment /\ QuietInv' /\ ParkedInv' /\ WritesAnsweredFor'
  BY Zenon DEF Go, IInv, QuietInv, ParkedInv, WritesAnsweredFor

\* A step of a serving root changes neither what it was composed of nor the checks
\* it passed.
LEMMA ServingIInv ==
  ASSUME IInv, Serving, ParkedInv', WritesAnsweredFor'
  PROVE  IInv'
  BY ZenonT(60) DEF Serving, IInv, QuietInv, ShapeInv, WiredInv, CheckedInv, ReadsInv,
     CheckCapabilitySplit, CheckPlannerWriteSurface, CheckMonitorCollectSurface, checkBranchTools

\* Every step of the start and of the serving root keeps the invariant.
LEMMA NextIInv == ASSUME IInv, [Next]_vars PROVE IInv'
  <1>1. ASSUME resolveWorkload PROVE IInv'
    <2>1. CASE Refuse
      BY Zenon, <1>1, <2>1, RefuseIInv DEF resolveWorkload
    <2>2. CASE Go("roster")
      <3>1. at' = "roster" /\ QuietInv' /\ ParkedInv' /\ WritesAnsweredFor'
        BY Zenon, <1>1, <2>2, GoIInv DEF resolveWorkload
      <3> QED
        BY Zenon, <3>1 DEF IInv, ShapeInv, WiredInv, CheckedInv, ReadsInv
    <2> QED
      BY Zenon, <1>1, <2>1, <2>2 DEF resolveWorkload, resolvePath, resolveName
  <1>2. ASSUME checkRoster PROVE IInv'
    <2>1. CASE Refuse
      BY Zenon, <1>2, <2>1, RefuseIInv DEF checkRoster
    <2>2. CASE Go("wire") /\ CheckRoster(bundle, specs, shape')
      <3>1. shape' \in Shapes
        BY Zenon, <2>2 DEF CheckRoster
      <3>2. at' = "wire" /\ QuietInv' /\ ParkedInv' /\ WritesAnsweredFor'
        BY Zenon, <1>2, <2>2, GoIInv DEF checkRoster
      <3> QED
        BY Zenon, <3>1, <3>2 DEF IInv, ShapeInv, WiredInv, CheckedInv, ReadsInv
    <2> QED
      BY Zenon, <1>2, <2>1, <2>2 DEF checkRoster
  <1>3. ASSUME wireMCPToolsets PROVE IInv'
    <2>1. CASE Refuse
      BY Zenon, <1>3, <2>1, RefuseIInv DEF wireMCPToolsets
    <2>2. CASE /\ wired' = IF deployment.echo THEN {} ELSE Elems(bundle.servers)
               /\ Go("root") /\ UNCHANGED <<bundle, specs, shape, root>>
      <3>1. at' = "root" /\ shape' \in Shapes /\ wired' \subseteq Elems(bundle'.servers)
        BY Zenon, <1>3, <2>2 DEF wireMCPToolsets, Go, IInv, ShapeInv
      <3> QED
        BY Zenon, <1>3, <2>2, <3>1, GoIInv DEF wireMCPToolsets, IInv, ShapeInv, WiredInv, CheckedInv, ReadsInv
    <2> QED
      BY Zenon, <1>3, <2>1, <2>2 DEF wireMCPToolsets
  <1>4. ASSUME Fails PROVE IInv'
    BY Zenon, <1>4, RefuseIInv DEF Fails
  <1>5. ASSUME BuildRoot PROVE IInv'
    <2>1. CASE Refuse
      BY Zenon, <1>5, <2>1, RefuseIInv DEF BuildRoot
    <2>2. CASE /\ CheckCapabilitySplit(bundle, specs, deployment.hosts)
               /\ CheckPlannerWriteSurface(bundle, specs) /\ CheckMonitorCollectSurface(bundle, specs)
               /\ root' \in rootsOf(bundle, specs, shape)
               /\ shape' = IF bundle.planner THEN "planner" ELSE shape
               /\ wired' = wired \cup Elems(deployment.hosts)
               /\ Go("govern") /\ UNCHANGED <<bundle, specs>>
      <3>1. shape \in Shapes /\ wired \subseteq Elems(bundle.servers)
        BY Zenon, <1>5 DEF BuildRoot, IInv, ShapeInv, WiredInv
      <3>2. root' \subseteq specs /\ (~bundle.planner /\ shape = "fanout" => checkBranchTools(bundle, specs))
        BY Zenon, <2>2, <3>1, RootsFrom
      <3>3. /\ shape' = "planner" => bundle.planner
            /\ shape' = "fanout" => checkBranchTools(bundle, specs)
        <4>1. shape # "planner"
          BY <3>1 DEF Shapes
        <4> QED
          BY <2>2, <3>2, <4>1
      <3>4. at' = "govern" /\ deployment' = deployment /\ bundle' = bundle /\ specs' = specs
        BY Zenon, <2>2 DEF Go
      <3>5. ShapeInv' /\ WiredInv' /\ ReadsInv'
        BY Zenon, <2>2, <3>1, <3>3, <3>4 DEF ShapeInv, WiredInv, ReadsInv
      <3>6. CheckedInv'
        BY Zenon, <2>2, <3>2, <3>3, <3>4 DEF CheckedInv, CheckCapabilitySplit, CheckPlannerWriteSurface,
           CheckMonitorCollectSurface, checkBranchTools
      <3> QED
        BY Zenon, <1>5, <2>2, <3>5, <3>6, GoIInv DEF BuildRoot, IInv
    <2> QED
      BY Zenon, <1>5, <2>1, <2>2 DEF BuildRoot
  <1>6. ASSUME buildGovernance PROVE IInv'
    <2>1. CASE Refuse
      BY Zenon, <1>6, <2>1, RefuseIInv DEF buildGovernance
    <2>2. CASE /\ changeSetGrants /\ priorStateCaptures
               /\ Go("serve") /\ UNCHANGED <<bundle, specs, shape, wired, root>>
      <3>1. at = "govern" /\ hints = Nothing
        BY Zenon, <1>6 DEF buildGovernance, IInv, QuietInv
      <3>2. \A t : effPred(t) = MutationPredicate(bundle, t)
        BY Zenon, <3>1 DEF effPred, MutationPredicate
      <3>3. at' = "serve" /\ deployment' = deployment /\ bundle' = bundle
        BY Zenon, <2>2 DEF Go
      <3>4. ReadsInv'
        BY Zenon, <2>2, <3>2, <3>3 DEF ReadsInv, changeSetGrants, priorStateCaptures
      <3>5. ShapeInv' /\ WiredInv'
        BY Zenon, <2>2, <3>1, <3>3 DEF IInv, ShapeInv, WiredInv
      <3>6. CheckedInv'
        BY ZenonT(60), <2>2, <3>1, <3>3 DEF IInv, CheckedInv, CheckCapabilitySplit, CheckPlannerWriteSurface,
           CheckMonitorCollectSurface, checkBranchTools
      <3> QED
        BY Zenon, <2>2, <3>1, <3>4, <3>5, <3>6, GoIInv DEF IInv
    <2> QED
      BY Zenon, <1>6, <2>1, <2>2 DEF buildGovernance
  <1>7. ASSUME NEW n, observe(n) PROVE IInv'
    <2>1. Serving /\ UNCHANGED <<bundle, parked, last>>
      BY Zenon, <1>7 DEF observe, Serving
    <2>2. ParkedInv' /\ WritesAnsweredFor'
      BY Zenon, <2>1 DEF IInv, ParkedInv, WritesAnsweredFor
    <2> QED
      BY Zenon, <2>1, <2>2, ServingIInv
  <1>8. ASSUME NEW s \in root, NEW t \in Held(s), ToolCall(s, t) PROVE IInv'
    <2>1. Serving /\ at = "serve" /\ UNCHANGED bundle
      BY Zenon, <1>8 DEF ToolCall, Serving
    <2>2. CASE UNCHANGED parked /\ Ran("model", s, t, "unasked") /\ shape = "planner"
      <3>1. bundle.planner /\ s \in specs /\ CheckPlannerWriteSurface(bundle, specs)
        BY Zenon, <2>1, <2>2 DEF IInv, ShapeInv, CheckedInv
      <3>2. effPred(t) = "readonly" \/ EffectiveOnMutation(bundle) = "apply"
        BY Zenon, <2>1, <3>1, OnlyRead DEF ReadersOnlyRead, CheckPlannerWriteSurface
      <3>3. effPred(t) = "mutating" => EffectiveOnMutation(bundle) = "apply"
        BY <3>2
      <3>4. ParkedInv' /\ WritesAnsweredFor'
        BY Zenon, <2>1, <2>2, <3>3 DEF IInv, ParkedInv, WritesAnsweredFor, Ran, EffectiveOnMutation
      <3> QED
        BY Zenon, <2>1, <3>4, ServingIInv
    <2>3. CASE UNCHANGED parked /\ Ran("model", s, t, "unasked") /\ effPred(t) # "mutating"
      <3>1. ParkedInv' /\ WritesAnsweredFor'
        BY Zenon, <2>1, <2>3 DEF IInv, ParkedInv, WritesAnsweredFor, Ran, EffectiveOnMutation
      <3> QED
        BY Zenon, <2>1, <3>1, ServingIInv
    <2>4. CASE UNCHANGED parked /\ Ran("model", s, t, "applied") /\ EffectiveOnMutation(bundle) = "apply"
      <3>1. ParkedInv' /\ WritesAnsweredFor'
        BY Zenon, <2>1, <2>4 DEF IInv, ParkedInv, WritesAnsweredFor, Ran, EffectiveOnMutation
      <3> QED
        BY Zenon, <2>1, <3>1, ServingIInv
    <2>5. CASE UNCHANGED last /\ EffectiveOnMutation(bundle) = "require_approval"
      <3>1. ParkedInv' /\ WritesAnsweredFor'
        BY Zenon, <2>1, <2>5 DEF IInv, ParkedInv, WritesAnsweredFor, EffectiveOnMutation
      <3> QED
        BY Zenon, <2>1, <3>1, ServingIInv
    <2> QED
      BY Zenon, <1>8, <2>2, <2>3, <2>4, <2>5 DEF ToolCall
  <1>9. ASSUME NEW s, NEW t, Verdict(s, t) PROVE IInv'
    <2>1. /\ Serving /\ at = "serve" /\ UNCHANGED bundle /\ parked # {}
          /\ EffectiveOnMutation(bundle) = "require_approval" /\ EffectiveOnMutation(bundle') = "require_approval"
      BY Zenon, <1>9 DEF Verdict, Serving, IInv, ParkedInv, EffectiveOnMutation
    <2>2. ParkedInv'
      BY Zenon, <2>1 DEF ParkedInv, EffectiveOnMutation
    <2>3. WritesAnsweredFor'
      <3>1. CASE effPred(t) # "mutating" /\ Ran("model", s, t, "unasked")
        BY <3>1 DEF WritesAnsweredFor, Ran
      <3>2. CASE Ran("model", s, t, "approved")
        BY Zenon, <2>1, <3>2 DEF WritesAnsweredFor, Ran, EffectiveOnMutation
      <3>3. CASE UNCHANGED last
        BY Zenon, <2>1, <3>3 DEF IInv, WritesAnsweredFor, EffectiveOnMutation
      <3> QED
        BY Zenon, <1>9, <3>1, <3>2, <3>3 DEF Verdict
    <2> QED
      BY Zenon, <2>1, <2>2, <2>3, ServingIInv
  <1>10. ASSUME NEW t, NEW how, runOwnBehalf(t, how), how = "read" => effPred(t) # "mutating"
         PROVE  IInv'
    <2>1. Serving /\ UNCHANGED <<bundle, parked>> /\ Ran("mast", None, t, how)
      BY Zenon, <1>10 DEF runOwnBehalf, Serving
    <2>2. ParkedInv'
      BY Zenon, <2>1 DEF IInv, ParkedInv, EffectiveOnMutation
    <2>3. WritesAnsweredFor'
      BY <1>10, <2>1 DEF WritesAnsweredFor, Ran
    <2> QED
      BY Zenon, <2>1, <2>2, <2>3, ServingIInv
  <1>11. ASSUME at = "serve", read PROVE IInv'
    <2>1. PICK p \in Elems(bundle.tools) :
            \/ p.precondition # None /\ runOwnBehalf(p.precondition.read, "read")
            \/ p.capture # None /\ runOwnBehalf(p.capture.read, "read")
      BY Zenon, <1>11 DEF read
    <2>2. /\ p.precondition # None => effPred(p.precondition.read) # "mutating"
          /\ p.capture # None => effPred(p.capture.read) # "mutating"
      BY Zenon, <1>11, ClassStands DEF IInv, ReadsInv
    <2> QED
      BY Zenon, <1>10, <2>1, <2>2
  <1>12. ASSUME collect \/ ack PROVE IInv'
    <2>1. "collect" # "read" /\ "ack" # "read"
      OBVIOUS
    <2> QED
      BY Zenon, <1>10, <1>12, <2>1 DEF collect, ack
  <1>13. ASSUME UNCHANGED vars PROVE IInv'
    BY ZenonT(60), <1>13 DEF vars, IInv, QuietInv, ShapeInv, WiredInv, CheckedInv, ReadsInv, ParkedInv,
       WritesAnsweredFor,
       CheckCapabilitySplit, CheckPlannerWriteSurface, CheckMonitorCollectSurface, checkBranchTools
  <1> QED
    BY Zenon, <1>1, <1>2, <1>3, <1>4, <1>5, <1>6, <1>7, <1>8, <1>9, <1>11, <1>12, <1>13 DEF Next

-----------------------------------------------------------------------------
\* Whatever is deployed, served and annotated: a tool mast runs on its own behalf
\* is in no model's hands, a specialist that diagnoses can only read, and a write
\* under the root has somebody to answer for it (the checks of compose and of the
\* write gate, against every order of annotations and calls).
THEOREM AuthorityBounded == Spec => []AuthorityHolds
  <1>1. IInv => AuthorityHolds
    BY Zenon, Fenced, OnlyRead DEF AuthorityHolds, IInv
  <1> QED
    BY <1>1, InitIInv, NextIInv, PTL DEF Spec
==============================================================================
