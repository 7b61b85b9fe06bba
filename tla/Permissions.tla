----------------------------- MODULE Permissions -----------------------------
(***************************************************************************)
(* The permission gate (internal/permissions): per-session gates derived   *)
(* from one template, which share its policy and its path scope, decide    *)
(* tool calls, ask an operator about the ones nothing settles and remember *)
(* the answers.  Commands, patterns and paths are what the gate tells      *)
(* apart about them: see Call.                                             *)
(***************************************************************************)
EXTENDS Naturals, Sequences, FiniteSets

CONSTANTS
  Workers,     \* tool calls that may be in flight at once
  SessionOf,   \* [Workers -> the session whose gate decides]
  Calls,       \* the calls a model may make (CallType below)
  Allow, Deny, \* the configured rules: sets of Rule
  Entries,     \* the configured path scope: a sequence of [dir, access]
  Denials,     \* rules an operator may add with /deny
  Modes,       \* the modes an operator may set
  PlanFirst,   \* permissions.require_plan_artifact
  MaxAnswers,  \* bound: prompts answered
  MaxSets,     \* bound: SetMode, /allow, /deny, record_plan and /replan
  None

VARIABLES
  policy,      \* [allow, deny] of every gate
  scope,       \* the allow list of every gate
  template,    \* the mode a derived gate starts in
  gate,        \* per session: [mode, calls, tools, verbs, plan], or None
  work,        \* per worker: its open prompt [pc, call, req, base], or idle
  last,        \* the latest decision: [session, call, ok], or None
  said,        \* the answers operators gave: [session, call, kind, answer]
  answers, sets

vars == <<policy, scope, template, gate, work, last, said, answers, sets>>

Sessions == {SessionOf[w] : w \in Workers}
Kinds == {"bash", "generic", "read", "write", "mutating"}
Decisions == {"deny", "once", "session", "verb", "tool", "always"}

\* tool and key are what rules match; sess is what a tool-wide answer is kept under
\* (namespace/tool of a namespaced toolset); verb is None when none can be taken
\* from the command; safe: one plain literal command; refused: on the built-in
\* deny list; glob: the keys that match when this key is read as a pattern, {} when
\* it is malformed; dirs: the directories above a path, outermost first; root: the
\* path lies under the project or user root; control: it is a control-plane file.
CallType == [kind : Kinds, tool : STRING, key : STRING, sess : STRING, verb : STRING \cup {None},
             safe : BOOLEAN, refused : BOOLEAN, glob : SUBSET STRING, dirs : Seq(STRING),
             root : BOOLEAN, control : BOOLEAN, exempt : BOOLEAN]

\* A rule: an empty tool is every tool; open: a prefix ending in the only "*".
Rule(tool, keys, open) == [tool |-> tool, keys |-> keys, open |-> open]

Idle == [pc |-> "idle", call |-> None, req |-> None, base |-> <<>>]

TypeOK ==
  /\ DOMAIN policy = {"allow", "deny"} /\ gate \in [Sessions -> {None} \cup
       [mode : Modes, calls : SUBSET (STRING \X STRING), tools : SUBSET STRING,
        verbs : SUBSET (STRING \X STRING), plan : BOOLEAN]]
  /\ template \in Modes /\ \A i \in DOMAIN scope : scope[i].access \in SUBSET {"read", "write"}
  /\ \A w \in Workers : work[w].pc \in {"idle", "asking", "installing"}
  /\ answers \in 0 .. MaxAnswers /\ sets \in 0 .. MaxSets

-----------------------------------------------------------------------------
(* Policy. *)

matchAny(rules, c) == \E r \in rules : r.tool \in {"", c.tool} /\ c.key \in r.keys

\* An open prefix lets a bash command through only if it is one plain command.
matchAnyAllow(rules, c) ==
  \E r \in rules : /\ r.tool \in {"", c.tool} /\ c.key \in r.keys
                   /\ c.tool # "bash" \/ ~r.open \/ r.keys = {c.key} \/ c.safe

Match(c) ==
  IF matchAny(policy.deny, c) THEN "deny"
  ELSE IF matchAnyAllow(policy.allow, c) THEN "allow" ELSE "unmatched"

\* FromConfig and NewPolicy.
Configured == [allow |-> Allow, deny |-> Deny]

-----------------------------------------------------------------------------
(* Path scope. *)

Depth(c, dir) == CHOOSE n \in 1 .. Len(c.dirs) : c.dirs[n] = dir
Matching(list, c) == {i \in DOMAIN list : list[i].dir \in {c.dirs[n] : n \in DOMAIN c.dirs}}

\* The longest pattern wins, the earliest of equally long ones.
AccessFor(list, c) ==
  IF c.root THEN {"read", "write"}
  ELSE LET m == Matching(list, c)
           best == {i \in m : \A j \in m : \/ Depth(c, list[j].dir) < Depth(c, list[i].dir)
                                           \/ list[j].dir = list[i].dir /\ i <= j}
       IN IF m = {} THEN {} ELSE list[CHOOSE i \in best : TRUE].access

\* What "always" installs: a write brings the read along, a read brings no write.
promote(op) == IF op = "write" THEN {"read", "write"} ELSE {"read"}

\* expandAlwaysAllowPattern: the directory of the file.
expandAlwaysAllowPattern(c) == c.dirs[Len(c.dirs)]

-----------------------------------------------------------------------------
(* A session's gate. *)

planFirstDenial(g, c) == PlanFirst /\ ~c.exempt /\ ~g.plan

\* gateRequest for a request of this kind: "allow", "deny", or the request to put.
gateRequest(g, kind, c) ==
  IF planFirstDenial(g, c) \/ Match(c) = "deny" THEN "deny"
  ELSE IF \/ Match(c) = "allow"
          \/ c.sess \in g.tools
          \/ <<c.tool, c.key>> \in g.calls
          \/ kind = "bash" /\ c.verb # None /\ <<c.tool, c.verb>> \in g.verbs /\ c.safe
          \/ g.mode = "yolo"
          \/ g.mode = "acceptEdits" /\ kind = "write"
       THEN "allow"
  ELSE IF g.mode \in {"allow", "plan"} THEN "deny" ELSE kind

promptForPath(g, c, op) ==
  IF planFirstDenial(g, c) THEN "deny"
  ELSE IF g.mode = "yolo" \/ (g.mode = "acceptEdits" /\ op = "write") THEN "allow"
  ELSE IF g.mode \in {"allow", "plan"} THEN "deny" ELSE "path_scope"

CheckFileRead(g, c) ==
  IF "read" \in AccessFor(scope, c) THEN "allow" ELSE promptForPath(g, c, "read")

checkControlPlaneWrite(g, c) ==
  IF planFirstDenial(g, c) \/ Match(c) = "deny" THEN "deny" ELSE "control"

\* A tool trusted for the session skips the rest of the gate inside the scope.
CheckFileWrite(g, c) ==
  IF c.control THEN checkControlPlaneWrite(g, c)
  ELSE IF "write" \notin AccessFor(scope, c) THEN promptForPath(g, c, "write")
  ELSE IF c.tool \in g.tools THEN "allow" ELSE gateRequest(g, "write", c)

CheckBash(g, c) == IF c.refused THEN "deny" ELSE gateRequest(g, "bash", c)

\* A mutating tool: no rule, grant or mode ever lets it through without an operator.
CheckMutatingToolCall(g, c) ==
  IF planFirstDenial(g, c) \/ Match(c) = "deny" \/ g.mode = "plan" THEN "deny" ELSE "mutating"

Check(g, c) ==
  CASE c.kind = "bash" -> CheckBash(g, c)
    [] c.kind = "generic" -> gateRequest(g, "generic", c)
    [] c.kind = "read" -> CheckFileRead(g, c)
    [] c.kind = "write" -> CheckFileWrite(g, c)
    [] c.kind = "mutating" -> CheckMutatingToolCall(g, c)

Decide(w, c, ok) == last' = IF ok THEN [session |-> SessionOf[w], call |-> c, ok |-> ok] ELSE None

\* A call reaches the gate of its session.
Call(w) ==
  /\ work[w].pc = "idle" /\ gate[SessionOf[w]] # None
  /\ \E c \in Calls :
       LET v == Check(gate[SessionOf[w]], c) IN
       \/ v \in {"allow", "deny"} /\ Decide(w, c, v = "allow") /\ UNCHANGED work
       \/ /\ v \notin {"allow", "deny"}
          /\ work' = [work EXCEPT ![w] = [pc |-> "asking", call |-> c, req |-> v, base |-> <<>>]]
          /\ UNCHANGED last
  /\ UNCHANGED <<policy, scope, template, gate, said, answers, sets>>

-----------------------------------------------------------------------------
(* Answers. *)

Settle(w, ok) == work' = [work EXCEPT ![w] = Idle] /\ Decide(w, work[w].call, ok)

\* What an answer to a path prompt is remembered under: its text, not the path.
Detail(r, c) == IF r = "path_scope" THEN "out of scope: " \o c.key ELSE c.key

\* Mutant: what one session is told, every gate hears.
rememberEverywhere(s, calls, tools, verbs) ==
  gate' = [t \in Sessions |-> IF gate[t] = None THEN None ELSE
             [gate[t] EXCEPT !.calls = @ \cup calls, !.tools = @ \cup tools, !.verbs = @ \cup verbs]]

remember(s, calls, tools, verbs) ==
  gate' = [gate EXCEPT ![s].calls = @ \cup calls, ![s].tools = @ \cup tools, ![s].verbs = @ \cup verbs]

\* prompt, once the operator answered: a failed or cancelled prompt denies.
Unanswered(w) == Settle(w, FALSE) /\ UNCHANGED <<policy, scope, gate, said>>

\* An elevated or a mutating prompt remembers nothing; only allow-once covers a
\* mutation (RecordMutationVerdict).
AnswerOnce(w, d) ==
  LET r == work[w].req IN
  /\ Settle(w, d # "deny" /\ (r = "mutating" => d = "once"))
  /\ UNCHANGED <<policy, scope, gate>>

AnswerForSession(w, d) ==
  LET c == work[w].call r == work[w].req s == SessionOf[w] IN
  /\ remember(s, {<<c.tool, Detail(r, c)>>},
              IF d # "tool" THEN {} ELSE IF r = "path_scope" THEN {c.tool} ELSE {c.sess},
              IF d = "verb" /\ r = "bash" /\ c.verb # None THEN {<<c.tool, c.verb>>} ELSE {})
  /\ Settle(w, TRUE) /\ UNCHANGED <<policy, scope>>

\* A rule for the key, read as a pattern; a malformed one denies the call, and so
\* does a store that fails, after the rule took effect.
AnswerAlwaysRule(w, persists) ==
  LET c == work[w].call IN
  /\ remember(SessionOf[w], {<<c.tool, c.key>>}, {}, {})
  /\ policy' = IF c.glob = {} THEN policy
               ELSE [policy EXCEPT !.allow = @ \cup {Rule(c.tool, c.glob, Cardinality(c.glob) > 1)}]
  /\ Settle(w, c.glob # {} /\ persists) /\ UNCHANGED scope

\* The scope has no lock: the list the append starts from is read here.
AnswerAlwaysPath(w) ==
  LET c == work[w].call IN
  /\ remember(SessionOf[w], {<<c.tool, Detail("path_scope", c)>>}, {}, {})
  /\ work' = [work EXCEPT ![w].pc = "installing", ![w].base = scope]
  /\ UNCHANGED <<policy, scope, last>>

Answer(w) ==
  /\ work[w].pc = "asking" /\ answers < MaxAnswers /\ answers' = answers + 1
  /\ LET c == work[w].call r == work[w].req IN
     \/ Unanswered(w)
     \/ \E d \in Decisions :
          /\ said' = said \cup {[session |-> SessionOf[w], call |-> c, kind |-> r, answer |-> d]}
          /\ \/ (d \in {"deny", "once"} \/ r \in {"control", "mutating"}) /\ AnswerOnce(w, d)
             \/ d \in {"session", "verb", "tool"} /\ r \notin {"control", "mutating"} /\ AnswerForSession(w, d)
             \/ d = "always" /\ r \in {"bash", "generic", "write"} /\ \E ok \in BOOLEAN : AnswerAlwaysRule(w, ok)
             \/ d = "always" /\ r = "path_scope" /\ AnswerAlwaysPath(w)
  /\ UNCHANGED <<template, sets>>

\* AddAlwaysAllow: of two racing appends one may be lost.
AddAlwaysAllow(w) ==
  LET c == work[w].call
      e == [dir |-> expandAlwaysAllowPattern(c), access |-> promote(c.kind)]
  IN /\ work[w].pc = "installing"
     /\ \E list \in {scope, work[w].base} : scope' = Append(list, e)
     /\ \E persists \in BOOLEAN : Settle(w, persists)
     /\ UNCHANGED <<policy, template, gate, said, answers, sets>>

-----------------------------------------------------------------------------
(* The operator and the daemon. *)

Set == sets < MaxSets /\ sets' = sets + 1

DeriveForSession(s) ==
  /\ gate[s] = None
  /\ gate' = [gate EXCEPT ![s] = [mode |-> template, calls |-> {}, tools |-> {}, verbs |-> {}, plan |-> FALSE]]
  /\ UNCHANGED <<policy, scope, template, work, last, said, answers, sets>>

SetMode ==
  /\ Set
  /\ \E m \in Modes :
       \/ template' = m /\ UNCHANGED gate
       \/ \E s \in Sessions :
            gate[s] # None /\ gate' = [gate EXCEPT ![s].mode = m] /\ UNCHANGED template
  /\ UNCHANGED <<policy, scope, work, last, said, answers>>

\* MarkPlanRecorded (record_plan) and ClearPlanRecorded (/replan).
Plan(s) ==
  /\ PlanFirst /\ Set /\ gate[s] # None /\ gate' = [gate EXCEPT ![s].plan = ~@]
  /\ UNCHANGED <<policy, scope, template, work, last, said, answers>>

\* AddDenyPatterns (/deny).
AddDeny ==
  /\ Set
  /\ \E r \in Denials : policy' = [policy EXCEPT !.deny = @ \cup {r}]
  /\ UNCHANGED <<scope, template, gate, work, last, said, answers>>

Init ==
  /\ policy = Configured /\ scope = Entries /\ template \in Modes
  /\ gate = [s \in Sessions |-> None] /\ work = [w \in Workers |-> Idle]
  /\ last = None /\ said = {} /\ answers = 0 /\ sets = 0

Next ==
  \/ \E w \in Workers : Call(w) \/ Answer(w) \/ AddAlwaysAllow(w)
  \/ \E s \in Sessions : DeriveForSession(s) \/ Plan(s)
  \/ SetMode \/ AddDeny

Spec == Init /\ [][Next]_vars

-----------------------------------------------------------------------------
\* An answer covers a call: it was given for this very request, or it was widened by
\* the operator to the session, the verb, the tool or, always, to the pattern or the
\* directory, and in that operation.
Covers(a, s, c) ==
  \/ a.answer = "always" /\ a.kind \in {"bash", "generic", "write"} /\ a.call.tool = c.tool
     /\ c.key \in a.call.glob
  \/ /\ a.answer = "always" /\ a.kind = "path_scope"
     /\ \E n \in DOMAIN c.dirs : c.dirs[n] = expandAlwaysAllowPattern(a.call)
     /\ a.call.kind = "write" \/ c.kind = "read"
  \/ /\ a.session = s
     /\ \/ a.call = c /\ a.answer # "deny"
        \/ a.answer = "verb" /\ a.call.tool = c.tool /\ a.call.verb = c.verb /\ c.verb # None /\ c.safe
        \/ a.answer = "tool" /\ c.sess \in {a.call.sess, a.call.tool}

\* A call is allowed because the configuration or the mode of its own session says
\* so, or because an operator said so of it or of something that covers it: a
\* session's answers stay in the session and an "always" grants the operation it was
\* asked for.  A control-plane write and a mutation are allowed only by an answer to
\* their own prompt (gateRequest, DeriveForSession, prompt, RecordMutationVerdict).
Granted ==
  LET c == last.call s == last.session own == {a \in said : a.session = s /\ a.call = c} IN
  IF c.kind = "mutating" THEN \E a \in own : a.answer = "once"
  ELSE IF c.control THEN \E a \in own : a.answer # "deny"
  ELSE \/ \E a \in said : Covers(a, s, c)
       \/ gate[s].mode = "yolo"
       \/ gate[s].mode = "acceptEdits" /\ c.kind = "write"
       \/ \E r \in Allow : r.tool \in {"", c.tool} /\ c.key \in r.keys
       \/ c.kind = "read" /\ "read" \in AccessFor(Entries, c)

AllowedOnSomeonesWord == last' # last /\ last' # None => Granted'
==============================================================================
