--------------------------- MODULE OperatorRoutes ---------------------------
(***************************************************************************)
(* What the attach server tells a client about a session (the capabilities *)
(* frame that opens an event stream) and what the session's operator       *)
(* routes answer.  Both are worked out from the registrant: the frame from *)
(* what it reports about itself or, for one that reports nothing, from the *)
(* interfaces its type satisfies; a route from the interface it needs, and *)
(* then from what the registrant's method finds unwired.                   *)
(*                                                                         *)
(* Registrants are the two of the repository, the adapter and a view that  *)
(* wraps one, and any other agent described by its interfaces.             *)
(***************************************************************************)
EXTENDS Naturals, FiniteSets

CONSTANTS
  Agents,    \* registrants: [kind, wired], kind "adapter", "view" or "other"
  Servers,   \* server options: subsets of {"multi_session", "cross_daemon"}
  None

VARIABLES
  agent,   \* the registrant behind the session
  server,  \* the server's options
  caps,    \* the capabilities frame the client holds, or None
  reply    \* the last answer: [route, status], or None

vars == <<agent, server, caps, reply>>

-----------------------------------------------------------------------------
(* Registrants.                                                            *)

\* The interfaces *Adapter's methods satisfy, whatever it is wired with.
AdapterInterfaces ==
  {"CapabilityReporter", "StatusProvider", "TurnStateProvider", "UsageProvider", "ToolsProvider",
   "SubagentCatalogProvider", "GuardrailProvider", "GuardrailResetter", "PermsProvider",
   "PermsSourceProvider", "InterruptProvider", "DescriptionProvider"}

\* The interfaces *OperatorView adds to an embedded Registrant.  Embedding hides
\* whatever else the wrapped registrant offers.
ViewInterfaces ==
  {"MemoryProvider", "SkillsProvider", "MCPProvider", "PricingProvider", "PricingController", "Reloader"}

Satisfies(a) ==
  CASE a.kind = "adapter" -> AdapterInterfaces
    [] a.kind = "view"    -> ViewInterfaces
    [] OTHER              -> a.wired

\* AttachCapabilities: the guardrail keys follow the functions the adapter was given.
AttachCapabilitiesByMethods(a) ==
  [perms_stream |-> TRUE, perms |-> TRUE, mcp |-> FALSE, specialists |-> FALSE, interrupt |-> TRUE,
   guardrails |-> TRUE, cost_ceiling |-> "ceiling" \in a.wired]
AttachCapabilities(a) ==
  [perms_stream |-> "PermsSource" \in a.wired,
   perms |-> "PermsFn" \in a.wired,
   mcp |-> FALSE, specialists |-> FALSE, interrupt |-> TRUE,
   guardrails |-> {"GuardrailsFn", "ResetGuardrailFn"} \subseteq a.wired,
   cost_ceiling |-> {"GuardrailsFn", "ceiling"} \subseteq a.wired]

\* The source behind the prompt routes: the provider's own, else the broker's.
permsSourceFor(a) ==
  \/ a.kind = "adapter" /\ "PermsSource" \in a.wired
  \/ a.kind = "other" /\ a.wired \cap {"PermsSourceProvider", "PromptBrokerProvider"} # {}

-----------------------------------------------------------------------------
(* The capabilities frame.                                                 *)

\* A registrant that reports is believed; another is probed by type.
buildFeatures(a, s) ==
  LET probed == [perms_stream |-> permsSourceFor(a),
                 perms |-> "PermsProvider" \in Satisfies(a),
                 mcp |-> "MCPProvider" \in Satisfies(a),
                 specialists |-> "SubagentSpawner" \in Satisfies(a),
                 interrupt |-> "InterruptProvider" \in Satisfies(a),
                 guardrails |-> "GuardrailResetter" \in Satisfies(a),
                 cost_ceiling |-> FALSE]
      own == IF "CapabilityReporter" \in Satisfies(a) THEN AttachCapabilities(a) ELSE probed
  IN {f \in DOMAIN own : own[f]} \cup s

SlashProvider ==
  [compact |-> "CompactSlashProvider", done |-> "CheckpointSlashProvider", btw |-> "SideQueryProvider",
   subagent |-> "SubagentSpawner", replan |-> "ReplanProvider"]
\* The adapter reports no slash command.
buildSlashCommands(a) ==
  IF "CapabilityReporter" \in Satisfies(a) THEN {}
  ELSE {c \in DOMAIN SlashProvider : SlashProvider[c] \in Satisfies(a)}

capabilitiesBuilder ==
  [features |-> buildFeatures(agent, server), slash |-> buildSlashCommands(agent)]

\* A client that declares no version is let in; a malformed one is a bad request,
\* another major a conflict.
negotiateProtocolVersion(declared) ==
  IF declared \in {"", "1"} THEN 200 ELSE IF declared = "malformed" THEN 400 ELSE 409

-----------------------------------------------------------------------------
(* The routes.  A body is what decodePOST makes of it: none, one that does *)
(* not decode, one the handler's own checks refuse, or a good one.         *)

Bodies == {"none", "malformed", "refused", "good"}
Answer(route, status) == reply' = [route |-> route, status |-> status] /\ UNCHANGED <<agent, server, caps>>

Has(interface) == interface \in Satisfies(agent)
decodePOST(body) == body \notin {"none", "malformed"}
decodePOSTOptional(body) == body # "malformed"

\* GET usage, context, memory, skills, mcp, pricing, guardrails, tools, agents,
\* subagents and status answer with an empty default for want of a provider.
doGet(route) == Answer(route, 200)

doPerms == Answer("perms", IF "perms" \in buildFeatures(agent, {}) THEN 200 ELSE 501)

doPermsMutation(body, fails) ==
  Answer("perms/allow",
    IF ~Has("PermsController") THEN 501
    ELSE IF ~decodePOST(body) \/ body = "refused" \/ fails THEN 400 ELSE 204)

doPrompts == Answer("perms/stream", IF permsSourceFor(agent) THEN 200 ELSE 501)

Wired(field) == agent.kind = "view" => field \in agent.wired

doPricingRefresh(fails) ==
  Answer("pricing/refresh",
    IF ~Has("PricingController") \/ ~Wired("RefreshPricing") THEN 501 ELSE IF fails THEN 500 ELSE 200)

doPricingSet(body, fails) ==
  Answer("pricing/set",
    IF ~Has("PricingController") THEN 501
    ELSE IF ~decodePOST(body) \/ body = "refused" THEN 400
    ELSE IF ~Wired("SetPricing") THEN 501
    ELSE IF fails THEN 400 ELSE 204)

\* The answer of AttachResetGuardrail: "retrip" is ErrGuardrailRetrip.
doGuardrailsReset(body, outcome) ==
  Answer("guardrails/reset",
    IF ~Has("GuardrailResetter") THEN 501
    ELSE IF ~decodePOSTOptional(body) \/ body = "refused" THEN 400
    ELSE IF agent.kind = "adapter" /\ "ResetGuardrailFn" \notin agent.wired THEN 501
    ELSE IF outcome = "retrip" THEN 409
    ELSE IF outcome = "fails" THEN 400 ELSE 200)

doReload == Answer("reload", IF ~Has("Reloader") \/ ~Wired("Reload") THEN 501 ELSE 200)

doInterrupt == Answer("interrupt", IF Has("InterruptProvider") THEN 200 ELSE 412)

\* btw and subagent insist on a body, the others take none as an empty request.
doSlash(command, body, fails) ==
  Answer(command,
    IF ~Has(SlashProvider[command]) THEN 501
    ELSE IF body = "malformed" \/ (command \in {"btw", "subagent"} /\ body # "good") THEN 400
    ELSE IF fails THEN 500 ELSE 200)

\* GET events: the frame comes first on the stream.
streamEvents(declared) ==
  LET status == negotiateProtocolVersion(declared)
  IN /\ reply' = [route |-> "events", status |-> status]
     /\ caps' = IF status = 200 THEN capabilitiesBuilder ELSE caps
     /\ UNCHANGED <<agent, server>>

Init == agent \in Agents /\ server \in Servers /\ caps = None /\ reply = None

Next ==
  \/ \E v \in {"", "1", "2", "malformed"} : streamEvents(v)
  \/ doGet("usage") \/ doPerms \/ doPrompts \/ doReload \/ doInterrupt
  \/ \E f \in BOOLEAN : doPricingRefresh(f)
  \/ \E b \in Bodies, f \in BOOLEAN : doPermsMutation(b, f) \/ doPricingSet(b, f)
  \/ \E b \in Bodies, o \in {"ok", "retrip", "fails"} : doGuardrailsReset(b, o)
  \/ \E c \in DOMAIN SlashProvider, b \in Bodies, f \in BOOLEAN : doSlash(c, b, f)

Spec == Init /\ [][Next]_vars

-----------------------------------------------------------------------------
RouteOf == [perms |-> "perms", perms_stream |-> "perms/stream", guardrails |-> "guardrails/reset",
            interrupt |-> "interrupt"]

TypeOK ==
  /\ agent \in Agents /\ server \in Servers
  /\ caps = None \/ caps.slash \subseteq DOMAIN SlashProvider
  /\ reply = None \/ reply.status \in {200, 204, 400, 409, 412, 500, 501}

\* A feature or slash command the server advertises for a session is never
\* answered "not implemented" there, whatever the registrant was wired with, and
\* the permission routes are served nowhere else: silence about permissions would
\* read as an ungoverned daemon.
AdvertisedIsServed ==
  caps # None /\ reply # None =>
    /\ \A f \in DOMAIN RouteOf : f \in caps.features /\ reply.route = RouteOf[f] => reply.status \notin {412, 501}
    /\ reply.route \in caps.slash => reply.status # 501
    /\ \A f \in {"perms", "perms_stream"} : f \notin caps.features /\ reply.route = RouteOf[f] => reply.status = 501
=============================================================================
