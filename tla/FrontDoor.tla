------------------------------ MODULE FrontDoor ------------------------------
(***************************************************************************)
(* Who is behind a request: the inject listener (internal/inject) and the  *)
(* attach listener (internal/attach), from the users file that names       *)
(* people, over the bind policy, to the caller a handler acts for.         *)
(* Handlers themselves are SessionOps, Monitor and the attach modules;     *)
(* here one is what it answers.                                            *)
(***************************************************************************)
EXTENDS Naturals, Sequences

CONSTANTS
  Configs,   \* how an operator may start a listener (ListenerType below)
  Sides,     \* what X-Attach-Token may hold
  Tokens,    \* bearer tokens that appear on requests, Shared among them
  Names,     \* identities a relay may assert
  Shared,    \* the listener's own bearer token
  None       \* an absent header, an absent caller

VARIABLES
  cfg,       \* how the listener was started
  up,        \* "new", "refused" or "up"
  req,       \* the last request
  status,    \* what its client was answered
  acted      \* whom its handler acted for: [as, by], or None

vars == <<cfg, up, req, status, acted>>

Nobody == [as |-> None, by |-> None]
SharedCredentialIdentity == "shared-bearer-token"
Anonymous == "anon"

Ids(rows) == {rows[i].id : i \in DOMAIN rows}

InjectRoutes == {"inject", "resume", "abort", "ack-effects", "monitor-ack", "pause",
                 "extend-token", "stop", "parks", "healthz"}
AttachRoutes == {"read", "write", "card"}

\* What a handler returns: nil, a wrapped sentinel, or any other error.
Outcomes == {"ok", "unavailable", "bad", "conflict", "notfound", "error"}

\* A listener: its users file (rows of [id, token], or None), the identities listed
\* as relays, whether it has a token of its own and binds beyond loopback; the
\* attach listener may enforce authentication or be read-only.
ListenerType(c) ==
  /\ c.surface \in {"inject", "attach"} /\ c.shared \in BOOLEAN /\ c.open \in BOOLEAN
  /\ c.enforce \in BOOLEAN /\ c.readOnly \in BOOLEAN
  /\ c.proxies \subseteq Names \cup {""}

Requests == [route : InjectRoutes \cup AttachRoutes, side : Sides \cup {None},
             bearer : Tokens \cup {None}, asserted : Names \cup {None},
             body : {"ok", "garbled", "lacking", "empty", "ack_by"}, foreign : BOOLEAN]

TypeOK ==
  /\ ListenerType(cfg) /\ up \in {"new", "refused", "up"}
  /\ req \in Requests \cup {None}
  /\ status \in {None, 200, 202, 400, 401, 403, 404, 409, 500, 503}
  /\ acted \in [as : Names \cup {SharedCredentialIdentity, Anonymous, None}, by : Names \cup {None}]

-----------------------------------------------------------------------------
(* The users file. *)

\* Every row names one identity with one token, and neither appears twice.
LoadUsersFile(rows) ==
  /\ \A i \in DOMAIN rows : rows[i].id # "" /\ rows[i].token # ""
  /\ \A i, j \in DOMAIN rows : i # j => rows[i].token # rows[j].token /\ rows[i].id # rows[j].id

\* The tables NewBearerTokenAuth builds; a later row overwrites an earlier one.
Latest(rows, P(_)) == {i \in DOMAIN rows : P(rows[i]) /\ \A j \in DOMAIN rows : j > i => ~P(rows[j])}

\* X-Attach-Token wins over Authorization.
extractToken(r) == IF r.side # None THEN r.side ELSE r.bearer

Authenticate(r) ==
  LET rows == cfg.file
      hit == Latest(rows, LAMBDA row : row.token = extractToken(r))
  IN IF extractToken(r) = None \/ hit = {} THEN None ELSE rows[CHOOSE i \in hit : TRUE].id

CanProxyAs(id) == id \in cfg.proxies
LookupIdentity(id) == id \in Ids(cfg.file)

\* injectAuthenticator: a relay list without a table, or naming a stranger to it,
\* stops the daemon before it listens.
injectAuthenticator ==
  IF cfg.file = None THEN cfg.proxies = {}
  ELSE LoadUsersFile(cfg.file) /\ cfg.proxies \subseteq Ids(cfg.file)

-----------------------------------------------------------------------------
(* Starting a listener. *)

CheckBindPolicy == cfg.open => cfg.shared
listenerAuthenticated == cfg.shared \/ cfg.enforce

Accepted ==
  IF cfg.surface = "inject" THEN injectAuthenticator /\ CheckBindPolicy
  ELSE (cfg.file # None => LoadUsersFile(cfg.file)) /\ (cfg.open => listenerAuthenticated)

Boot ==
  /\ up = "new"
  /\ up' = IF Accepted THEN "up" ELSE "refused"
  /\ UNCHANGED <<cfg, req, status, acted>>

-----------------------------------------------------------------------------
(* The inject listener. *)

authOK(r) == cfg.shared => r.bearer = Shared

\* Mutant: a person's own token does not open an attributed route.
attributedAuthOKSharedOnly(r) == authOK(r)

attributedAuthOK(r) ==
  authOK(r) \/ (cfg.file # None /\ Authenticate(r) # None)

\* Mutant: with no shared token configured, anything counts as presenting it.
sharedTokenPresentedLoose(r) == authOK(r)

sharedTokenPresented(r) == cfg.shared /\ authOK(r)

\* The caller of an attributed route, or None when it is refused.
callerContext(r) ==
  IF cfg.file = None THEN [as |-> SharedCredentialIdentity, by |-> None]
  ELSE LET caller == Authenticate(r) IN
    IF caller = None THEN
      IF sharedTokenPresented(r) /\ r.asserted = None
      THEN [as |-> SharedCredentialIdentity, by |-> None] ELSE Nobody
    ELSE IF r.asserted = None THEN [as |-> caller, by |-> None]
    ELSE IF CanProxyAs(caller) /\ LookupIdentity(r.asserted)
         THEN [as |-> r.asserted, by |-> caller] ELSE Nobody

Answer(r, code, who) == req' = r /\ status' = code /\ acted' = who /\ UNCHANGED <<cfg, up>>
Refuse(r, code) == Answer(r, code, Nobody)

Code == [unavailable |-> 503, bad |-> 400, conflict |-> 409, notfound |-> 404]

\* The answer to what the handler returned; an error the route does not tell apart
\* is a 500.
Status(ok, told, outcome) ==
  IF outcome = "ok" THEN ok ELSE IF outcome \in told THEN Code[outcome] ELSE 500

\* A route that takes the shared token alone: the handler acts for whoever holds it.
ForToken(r, bad, code) ==
  IF ~authOK(r) THEN Refuse(r, 401)
  ELSE IF r.body \in bad THEN Refuse(r, 400)
  ELSE Answer(r, code, [as |-> SharedCredentialIdentity, by |-> None])

\* A route whose handler records who acted.
ForCaller(r, bad, code) ==
  IF ~attributedAuthOK(r) THEN Refuse(r, 401)
  ELSE IF r.body \in bad THEN Refuse(r, 400)
  ELSE LET who == callerContext(r) IN
       IF who = Nobody THEN Refuse(r, 403) ELSE Answer(r, code, who)

\* Bodies a route turns away; "lacking" lacks a field the route requires.
Unreadable == {"garbled", "empty"}

handleInject(r, outcome) ==
  /\ r.route = "inject"
  /\ ForToken(r, Unreadable \cup {"ack_by"},
              Status(202, {"unavailable", "bad", "conflict"}, outcome))

handleResume(r, outcome) ==
  /\ r.route = "resume"
  /\ ForCaller(r, Unreadable \cup {"lacking"},
               Status(202, {"unavailable", "bad", "conflict"}, outcome))

handleAbort(r, outcome) ==
  /\ r.route = "abort"
  /\ ForToken(r, Unreadable \cup {"lacking"}, Status(202, {"bad", "conflict"}, outcome))

handleAckEffects(r, outcome) ==
  /\ r.route = "ack-effects"
  /\ ForToken(r, Unreadable \cup {"lacking"}, Status(202, {"bad"}, outcome))

\* The one body that is refused for naming who acts.
handleMonitorAck(r, outcome) ==
  /\ r.route = "monitor-ack"
  /\ ForCaller(r, Unreadable \cup {"lacking", "ack_by"},
               Status(200, {"unavailable", "bad", "conflict"}, outcome))

handlePause(r, outcome) ==
  /\ r.route = "pause"
  /\ ForToken(r, Unreadable \cup {"lacking"},
              Status(200, {"unavailable", "bad", "conflict"}, outcome))

handleExtendToken(r, outcome) ==
  /\ r.route = "extend-token"
  /\ ForToken(r, Unreadable \cup {"lacking"}, Status(200, {"bad", "conflict"}, outcome))

\* An empty body is a valid stop.
handleStop(r, outcome) ==
  /\ r.route = "stop"
  /\ ForToken(r, {"garbled"}, Status(202, {}, outcome))

\* GET /parks reads for anybody who may answer; nobody is recorded.
handleParks(r, outcome) ==
  /\ r.route = "parks"
  /\ Refuse(r, IF attributedAuthOK(r)
               THEN Status(200, {"unavailable", "bad", "notfound"}, outcome) ELSE 401)

\* GET /healthz asks for no credential.
handleHealthz(r, outcome) ==
  /\ r.route = "healthz" /\ outcome \in {"ok", "unavailable"}
  /\ Refuse(r, IF outcome = "ok" THEN 200 ELSE 503)

-----------------------------------------------------------------------------
(* The attach listener: token, caller, browser guard, handler. *)

checkAttachToken(r) == extractToken(r) = Shared

Middleware(r) ==
  IF cfg.shared /\ ~checkAttachToken(r) THEN 401
  ELSE IF cfg.readOnly /\ r.route = "write" THEN 403 ELSE 200

\* The base caller: None when enforcement turns the request away.
BaseCaller(r) ==
  LET caller == IF cfg.file = None THEN Anonymous ELSE Authenticate(r) IN
  IF caller # None THEN caller ELSE IF cfg.enforce THEN None ELSE Anonymous

resolveProxyAssertion(requester, asserted) ==
  IF cfg.file # None /\ CanProxyAs(requester) /\ LookupIdentity(asserted)
  THEN [as |-> asserted, by |-> requester] ELSE Nobody

callerMiddleware(r) ==
  LET base == BaseCaller(r) IN
  IF base = None THEN Nobody
  ELSE IF r.asserted = None THEN [as |-> base, by |-> None]
  ELSE resolveProxyAssertion(base, r.asserted)

\* A page of another origin may not write.
browserWriteGuard(r) == r.route = "write" /\ r.foreign

\* The agent card is served before any of this.
cardBypass(r, outcome) ==
  IF r.route = "card" THEN Refuse(r, 200)
  ELSE IF Middleware(r) # 200 THEN Refuse(r, Middleware(r))
  ELSE LET who == callerMiddleware(r) IN
    IF who = Nobody THEN Refuse(r, 401)
    ELSE IF browserWriteGuard(r) THEN Refuse(r, 403)
    ELSE Answer(r, Status(200, {}, outcome), who)

-----------------------------------------------------------------------------
Init == cfg \in Configs /\ up = "new" /\ req = None /\ status = None /\ acted = Nobody

\* Requests that differ only in what their route does not read are one.
Relevant(r) ==
  /\ r.route \in {"parks", "healthz", "read", "write", "card"} => r.body = "ok"
  /\ r.route \notin {"write"} => ~r.foreign

\* A listener keeps nothing between requests, so a behaviour serves one.
Serve ==
  /\ up = "up" /\ req = None
  /\ \E r \in Requests, outcome \in Outcomes :
       /\ Relevant(r)
       /\ \/ /\ cfg.surface = "inject"
             /\ \/ handleInject(r, outcome) \/ handleResume(r, outcome)
                \/ handleAbort(r, outcome) \/ handleAckEffects(r, outcome)
                \/ handleMonitorAck(r, outcome) \/ handlePause(r, outcome)
                \/ handleExtendToken(r, outcome) \/ handleStop(r, outcome)
                \/ handleParks(r, outcome) \/ handleHealthz(r, outcome)
          \/ cfg.surface = "attach" /\ r.route \in AttachRoutes /\ cardBypass(r, outcome)

Next == Boot \/ Serve
Spec == Init /\ [][Next]_vars

-----------------------------------------------------------------------------
\* The rows a token stands for.
Holders(token) == {cfg.file[i].id : i \in {j \in DOMAIN cfg.file : cfg.file[j].token = token}}

\* A handler acts for a person only if the request carried that person's token and
\* nobody else's, or the token of one listed relay that asserted a person of the
\* table; for the shared credential only if it was presented or the listener names
\* nobody; for the anonymous caller only where no table is enforced
\* (callerContext, callerMiddleware, LoadUsersFile, sharedTokenPresented).
CallerProven ==
  acted # Nobody =>
    LET owner == IF acted.by = None THEN acted.as ELSE acted.by
        presented == {req.side, req.bearer} \ {None}
    IN /\ acted.by # None => acted.by \in cfg.proxies /\ acted.as \in Ids(cfg.file)
       /\ owner = Anonymous => ~(cfg.enforce /\ cfg.file # None)
       /\ owner = SharedCredentialIdentity =>
            \/ Shared \in presented
            \/ ~cfg.shared /\ (cfg.file = None \/ req.route \notin {"resume", "monitor-ack"})
       /\ owner \notin {Anonymous, SharedCredentialIdentity} =>
            \E t \in presented : Holders(t) = {owner}

\* A credential the operator issued opens the doors it was issued for: the shared
\* token every route of the inject listener, a person's token the attributed ones,
\* in whichever of the two combinations the listener was configured
\* (attributedAuthOK and callerContext read the same header).
IssuedCredentialsWork ==
  (/\ up = "up" /\ cfg.surface = "inject" /\ req # None
   /\ req.side = None /\ req.asserted = None
   /\ \/ cfg.shared /\ req.bearer = Shared
      \/ /\ cfg.file # None /\ req.route \in {"resume", "monitor-ack", "parks"}
         /\ req.bearer # None /\ Holders(req.bearer) # {})
  => status \notin {401, 403}
=============================================================================
