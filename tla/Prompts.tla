------------------------------- MODULE Prompts -------------------------------
(***************************************************************************)
(* /perms/stream and /perms/respond (internal/attach): prompts shown to    *)
(* every attached operator and answered by one of them.  Two sources stand *)
(* behind the routes: the PromptBroker, which blocks a tool call until it  *)
(* is answered, and parkPerms, which polls the session's durable approval  *)
(* parks and answers them with a resume.                                   *)
(***************************************************************************)
EXTENDS Naturals, Sequences, FiniteSets, SequencesExt

CONSTANTS
  Source,      \* "broker" or "parks" (permsSourceFor)
  Prompts,     \* request ids, or interrupt ids of parks
  Inputs,      \* the parks that ask for input: no prompt is made of them
  Streams,     \* connections to /perms/stream
  Operators,   \* calls of /perms/respond
  Answers,     \* decisions an operator may send
  Capacity,    \* of a subscriber's channel (16 in the code)
  None

VARIABLES
  ask,         \* per prompt: "new", "sending", "waiting", "done"
  todo,        \* per prompt: subscribers AskApproval has still to send to
  response,    \* per prompt: its response channel of capacity one
  got,         \* per prompt: what its call was decided by, or None
  pending,     \* the broker's table; the open parks of the session
  subs,        \* the broker's subscribers
  chan,        \* per stream: [queue, closed]
  stream,      \* per stream: "off", "on", "leaving", "gone"
  sent,        \* per stream: what parkPerms has sent it
  shown,       \* per stream: what its client has seen
  skipped,     \* per stream: prompts a full channel turned away
  call,        \* per operator: [pc, id, answer]
  closed,      \* PromptBroker.Close ran
  crashed      \* a goroutine panicked

vars == <<ask, todo, response, got, pending, subs, chan, stream, sent, shown, skipped, call, closed, crashed>>

Grants == {"allow-session", "allow-session-verb", "allow-session-tool", "allow-always"}

TypeOK ==
  /\ ask \in [Prompts -> {"new", "sending", "waiting", "done"}]
  /\ todo \in [Prompts -> SUBSET Streams] /\ pending \subseteq Prompts /\ subs \subseteq Streams
  /\ \A p \in Prompts : {response[p], got[p]} \subseteq Answers \cup {"closed", "cancelled", None}
  /\ \A s \in Streams : Len(chan[s].queue) <= Capacity /\ chan[s].closed \in BOOLEAN
  /\ stream \in [Streams -> {"off", "on", "leaving", "gone"}]
  /\ sent \in [Streams -> SUBSET Prompts] /\ shown \in [Streams -> SUBSET Prompts]
  /\ skipped \in [Streams -> SUBSET Prompts]
  /\ \A o \in Operators : call[o].pc \in {"new", "found", "acked", "refused"}
  /\ closed \in BOOLEAN /\ crashed \in BOOLEAN

Room(s) == Len(chan[s].queue) < Capacity
Push(s, p) == chan' = [chan EXCEPT ![s].queue = Append(@, p)]
\* What of a list fits where there is room for n.
Fits(q, n) == SubSeq(q, 1, Min({n, Len(q)}))
Waiting == {p \in Prompts : ask[p] \in {"sending", "waiting"}}

-----------------------------------------------------------------------------
(* PromptBroker. *)

\* AskApproval under the lock: the table and the list of subscribers to tell.
AskApproval(p) ==
  /\ Source = "broker" /\ ask[p] = "new"
  /\ IF closed THEN /\ ask' = [ask EXCEPT ![p] = "done"] /\ got' = [got EXCEPT ![p] = "closed"]
                    /\ UNCHANGED <<pending, todo>>
     ELSE /\ ask' = [ask EXCEPT ![p] = "sending"] /\ pending' = pending \cup {p}
          /\ todo' = [todo EXCEPT ![p] = subs] /\ UNCHANGED got
  /\ UNCHANGED <<response, subs, chan, stream, sent, shown, skipped, call, closed, crashed>>

\* One send of the fan-out, without the lock; a send on a closed channel panics.
FanOut(p) ==
  /\ ask[p] = "sending" /\ UNCHANGED <<response, got, pending, subs, stream, sent, shown, call, closed>>
  /\ IF todo[p] = {} THEN /\ ask' = [ask EXCEPT ![p] = "waiting"]
                          /\ UNCHANGED <<todo, chan, skipped, crashed>>
     ELSE \E s \in todo[p] :
       /\ todo' = [todo EXCEPT ![p] = @ \ {s}] /\ UNCHANGED ask
       /\ IF chan[s].closed THEN crashed' = TRUE /\ UNCHANGED <<chan, skipped>>
          ELSE IF Room(s) THEN Push(s, p) /\ UNCHANGED <<skipped, crashed>>
          ELSE skipped' = [skipped EXCEPT ![s] = @ \cup {p}] /\ UNCHANGED <<chan, crashed>>

\* AskApproval's select: a response, or the call's context ended.
Decide(p) ==
  /\ ask[p] = "waiting" /\ ask' = [ask EXCEPT ![p] = "done"] /\ pending' = pending \ {p}
  /\ \/ /\ response[p] # None /\ got' = [got EXCEPT ![p] = response[p]]
        /\ response' = [response EXCEPT ![p] = None]
     \/ got' = [got EXCEPT ![p] = "cancelled"] /\ UNCHANGED response
  /\ UNCHANGED <<todo, subs, chan, stream, sent, shown, skipped, call, closed, crashed>>

\* Mutant: the channel is seeded, and the subscriber listed only for prompts to come
\* while one is being announced.
SubscribeUnseeded(s) ==
  /\ subs' = subs \cup {s} /\ chan' = [chan EXCEPT ![s] = [queue |-> <<>>, closed |-> FALSE]]
  /\ skipped' = skipped

\* Subscribe under the lock: what is pending goes into the channel, in map order,
\* as far as it fits.
Subscribe(s) ==
  /\ subs' = subs \cup {s}
  /\ \E q \in SetToSeqs(pending) :
       /\ chan' = [chan EXCEPT ![s] = [queue |-> Fits(q, Capacity), closed |-> FALSE]]
       /\ skipped' = [skipped EXCEPT ![s] = {q[i] : i \in Capacity + 1 .. Len(q)}]

unsubscribe(s) == subs' = subs \ {s}

Respond(o) ==
  LET p == call[o].id IN
  IF response[p] = None
  THEN /\ response' = [response EXCEPT ![p] = call[o].answer]
       /\ call' = [call EXCEPT ![o].pc = "acked"]
  ELSE call' = [call EXCEPT ![o].pc = "refused"] /\ UNCHANGED response

\* Close under the lock; every pending call is told, every subscriber hung up on.
Close ==
  /\ Source = "broker" /\ ~closed /\ closed' = TRUE /\ pending' = {} /\ subs' = {}
  /\ response' = [p \in Prompts |-> IF p \in pending /\ response[p] = None THEN "closed" ELSE response[p]]
  /\ chan' = [s \in Streams |-> IF s \in subs THEN [chan[s] EXCEPT !.closed = TRUE] ELSE chan[s]]
  /\ UNCHANGED <<ask, todo, got, stream, sent, shown, skipped, call, crashed>>

-----------------------------------------------------------------------------
(* parkPerms. *)

\* A turn parks; an operator or a timer elsewhere resolves one.
Park(p) ==
  /\ Source = "parks" /\ ask[p] = "new" /\ ask' = [ask EXCEPT ![p] = "waiting"]
  /\ pending' = pending \cup {p}
  /\ UNCHANGED <<todo, response, got, subs, chan, stream, sent, shown, skipped, call, closed, crashed>>

Elsewhere(p) ==
  /\ Source = "parks" /\ p \in pending /\ pending' = pending \ {p}
  /\ ask' = [ask EXCEPT ![p] = "done"] /\ got' = [got EXCEPT ![p] = "cancelled"]
  /\ UNCHANGED <<todo, response, subs, chan, stream, sent, shown, skipped, call, closed, crashed>>

\* pending and permFrame: only an approval makes a prompt.
permFrames == pending \ Inputs

\* Mutant: a prompt that did not fit counts as sent.
tickForgets(s) ==
  /\ \E q \in SetToSeqs(permFrames \ sent[s]) :
       chan' = [chan EXCEPT ![s].queue = @ \o Fits(q, Capacity - Len(@))]
  /\ sent' = [sent EXCEPT ![s] = (@ \cup permFrames) \cap permFrames]

\* One poll: what is open and not sent yet goes out as far as it fits, the rest waits
\* for the next poll; what is no longer open is forgotten.
tick(s) ==
  /\ \E q \in SetToSeqs(permFrames \ sent[s]) :
       LET fits == Fits(q, Capacity - Len(chan[s].queue)) IN
       /\ chan' = [chan EXCEPT ![s].queue = @ \o fits]
       /\ sent' = [sent EXCEPT ![s] = (@ \cup Range(fits)) \cap permFrames]

Poll(s) ==
  /\ Source = "parks" /\ stream[s] = "on" /\ tick(s)
  /\ UNCHANGED <<ask, todo, response, got, pending, subs, stream, shown, skipped, call, closed, crashed>>

\* mustBeOpenApproval passed or could not read; the resume path matches the
\* interrupt against the session and answers it, or refuses.
RespondPark(o) ==
  LET p == call[o].id IN
  IF p \in pending
  THEN /\ pending' = pending \ {p} /\ ask' = [ask EXCEPT ![p] = "done"]
       /\ got' = [got EXCEPT ![p] = call[o].answer] /\ call' = [call EXCEPT ![o].pc = "acked"]
  ELSE call' = [call EXCEPT ![o].pc = "refused"] /\ UNCHANGED <<pending, ask, got>>

-----------------------------------------------------------------------------
(* The routes. *)

\* doPermsStream: subscribe, forward frames, clean up on the way out.
Connect(s) ==
  /\ stream[s] = "off" /\ stream' = [stream EXCEPT ![s] = "on"]
  /\ IF Source = "parks" THEN UNCHANGED <<subs, chan, skipped>>
     ELSE IF closed THEN /\ chan' = [chan EXCEPT ![s].closed = TRUE] /\ UNCHANGED <<subs, skipped>>
     ELSE Subscribe(s)
  /\ UNCHANGED <<ask, todo, response, got, pending, sent, shown, call, closed, crashed>>

Forward(s) ==
  /\ stream[s] = "on" /\ chan[s].queue # <<>>
  /\ shown' = [shown EXCEPT ![s] = @ \cup {Head(chan[s].queue)}]
  /\ chan' = [chan EXCEPT ![s].queue = Tail(@)]
  /\ UNCHANGED <<ask, todo, response, got, pending, subs, stream, sent, skipped, call, closed, crashed>>

\* The client went, the listener closes, or the channel was closed and drained.
Hangup(s) ==
  /\ stream[s] = "on" /\ stream' = [stream EXCEPT ![s] = "leaving"]
  /\ UNCHANGED <<ask, todo, response, got, pending, subs, chan, sent, shown, skipped, call, closed, crashed>>

\* The deferred cleanup.  A channel that was closed already panics in the handler,
\* where net/http recovers it; one handed out by a closed broker has no cleanup.
Cleanup(s) ==
  /\ stream[s] = "leaving" /\ stream' = [stream EXCEPT ![s] = "gone"]
  /\ IF Source = "parks" THEN UNCHANGED <<subs, chan>>
     ELSE unsubscribe(s) /\ chan' = [chan EXCEPT ![s].closed = TRUE]
  /\ UNCHANGED <<ask, todo, response, got, pending, sent, shown, skipped, call, closed, crashed>>

\* The first half of RespondPrompt: the table is read, or the open parks, which a
\* store that cannot be read lets pass.  A mutation takes no answer that grants more.
Look(o) ==
  /\ call[o].pc = "new"
  /\ \E p \in Prompts, d \in Answers, readable \in BOOLEAN :
       LET listed == IF Source = "broker" THEN p \in pending ELSE p \in permFrames \/ ~readable
           takes == Source = "broker" \/ d \notin Grants
       IN call' = [call EXCEPT ![o] = [pc |-> IF listed /\ takes THEN "found" ELSE "refused",
                                       id |-> p, answer |-> d]]
  /\ UNCHANGED <<ask, todo, response, got, pending, subs, chan, stream, sent, shown, skipped, closed, crashed>>

Deliver(o) ==
  /\ call[o].pc = "found"
  /\ \/ Source = "broker" /\ Respond(o) /\ UNCHANGED <<pending, ask, got>>
     \/ Source = "parks" /\ RespondPark(o) /\ UNCHANGED response
  /\ UNCHANGED <<todo, subs, chan, stream, sent, shown, skipped, closed, crashed>>

Init ==
  /\ ask = [p \in Prompts |-> "new"] /\ todo = [p \in Prompts |-> {}]
  /\ response = [p \in Prompts |-> None] /\ got = [p \in Prompts |-> None]
  /\ pending = {} /\ subs = {} /\ chan = [s \in Streams |-> [queue |-> <<>>, closed |-> FALSE]]
  /\ stream = [s \in Streams |-> "off"] /\ sent = [s \in Streams |-> {}]
  /\ shown = [s \in Streams |-> {}] /\ skipped = [s \in Streams |-> {}]
  /\ call = [o \in Operators |-> [pc |-> "new", id |-> None, answer |-> None]]
  /\ closed = FALSE /\ crashed = FALSE

Next ==
  /\ ~crashed
  /\ \/ \E p \in Prompts : AskApproval(p) \/ FanOut(p) \/ Decide(p) \/ Park(p) \/ Elsewhere(p)
     \/ \E s \in Streams : Connect(s) \/ Forward(s) \/ Hangup(s) \/ Cleanup(s) \/ Poll(s)
     \/ \E o \in Operators : Look(o) \/ Deliver(o)
     \/ Close

Spec == Init /\ [][Next]_vars

-----------------------------------------------------------------------------
Held(s) == shown[s] \cup Range(chan[s].queue)

\* An operator who is connected has been shown every prompt that waits for an answer,
\* or it is on its way: in the channel, about to be sent, or, where the channel was
\* full, counted as skipped and, for parks, not yet counted as sent.  It does not
\* matter who came first (AskApproval, Subscribe, tick).
EveryoneIsShown ==
  \A s \in Streams : stream[s] = "on" /\ ~closed =>
    IF Source = "parks" THEN sent[s] \subseteq Held(s)
    ELSE \A p \in Waiting : p \in Held(s) \cup skipped[s] \/ s \in todo[p]

\* An answer that was acknowledged is the answer the call acts on, or will: nobody is
\* told "acknowledged" for a decision that is dropped (Respond, RespondPrompt).
AckMeansDecided ==
  \A o \in Operators : call[o].pc = "acked" =>
    LET p == call[o].id IN
    \/ got[p] = call[o].answer
    \/ response[p] = call[o].answer /\ ask[p] # "done"
==============================================================================
