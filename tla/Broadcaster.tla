------------------------------ MODULE Broadcaster ------------------------------
(***************************************************************************)
(* One session's attach broadcaster (internal/attach/broadcaster.go) over  *)
(* its event log (internal/eventlog/{sql,service,atomic}.go): a pump that  *)
(* watches the log and fans out, one replay goroutine per subscriber that  *)
(* catches it up, both sending into the subscriber's bounded channel, and  *)
(* the shutdown that must outlive them all.                                *)
(*                                                                         *)
(* A step is one critical section of broadcaster.mu or one query of the    *)
(* log.  The session's own rows are numbered 1..head.  Whether a client    *)
(* has read enough for its channel to have room is a choice at every send, *)
(* and so is the failure of a query.  Fields of a subscriber that was hung *)
(* up are reset.                                                           *)
(***************************************************************************)
EXTENDS Naturals

CONSTANTS
  Subs,       \* clients, each subscribing once: a reconnect is another one
  MaxReplay,  \* maxReplayEvents
  Pumps,      \* bound on the pumps started, one generation each
  MaxSeq      \* bound on the log

VARIABLES
  head,                     \* overlay rows of the session
  shut, cancel, pumpGen,    \* b.closed; whose cancel b.cancel is, 0 for nil; generations so far
  pump, replay,             \* the goroutines
  st, since, lastSent, got, \* subscribers, and (history) the entries sent to each
  emitter,                  \* the agent holds Emit
  closer                    \* Close: "no", "wait", "done"

subscriber == <<st, since, lastSent, got>>
vars == <<head, shut, cancel, pumpGen, pump, replay, subscriber, emitter, closer>>

\* A goroutine: its state, its cursor and the end of the rows it queried.
Routine(phases) == [st : phases, at : 0..MaxSeq, to : 0..MaxSeq]
At(phase) == [st |-> phase, at |-> 0, to |-> 0]
Attached == {s \in Subs : st[s] = "open"}

TypeOK ==
  /\ head \in 0..MaxSeq /\ shut \in BOOLEAN /\ pumpGen \in 0..Pumps /\ cancel \in {0, pumpGen}
  /\ pump \in [1..Pumps -> Routine({"off", "rows", "sweep", "gone"})]
  /\ replay \in [Subs -> Routine({"off", "wire", "ask", "rows", "tail", "gone"})]
  /\ st \in [Subs -> {"new", "booted", "open", "shut"}] /\ emitter \in BOOLEAN
  /\ since \in [Subs -> 0..MaxSeq] /\ lastSent \in [Subs -> 0..MaxSeq]
  /\ got \in [Subs -> SUBSET (1..MaxSeq)] /\ closer \in {"no", "wait", "done"}

Init ==
  /\ head = 0 /\ shut = FALSE /\ cancel = 0 /\ pumpGen = 0
  /\ pump = [g \in 1..Pumps |-> At("off")] /\ replay = [s \in Subs |-> At("off")]
  /\ st = [s \in Subs |-> "new"] /\ since = [s \in Subs |-> 0] /\ lastSent = [s \in Subs |-> 0]
  /\ got = [s \in Subs |-> {}] /\ emitter = FALSE /\ closer = "no"

\* service.AppendEvent: the event row and its overlay row commit in one
\* transaction, so a failed append leaves nothing behind.
AppendEvent ==
  /\ head < MaxSeq /\ head' = head + 1
  /\ UNCHANGED <<shut, cancel, pumpGen, pump, replay, subscriber, emitter, closer>>

\* The end of the rows a query past a cursor returns.
queryRows(at) == head

-----------------------------------------------------------------------------
\* Subscribing.

\* NthNewestSeq: the row with exactly MaxReplay newer ones, 0 when there is none.
NthNewestSeq == IF head > MaxReplay THEN head - MaxReplay ELSE 0

\* clampReplaySince; a failed probe leaves the client's cursor.
clampReplaySince(c) == {c, IF NthNewestSeq > c THEN NthNewestSeq ELSE c}

\* The cursor, and the boot frames into a channel nobody else holds yet.
Subscribe(s) ==
  /\ st[s] = "new" /\ st' = [st EXCEPT ![s] = "booted"]
  /\ \E c \in 0..head : \E from \in clampReplaySince(c) :
       since' = [since EXCEPT ![s] = from] /\ lastSent' = [lastSent EXCEPT ![s] = from]
  /\ UNCHANGED <<head, shut, cancel, pumpGen, pump, replay, got, emitter, closer>>

\* Mutant: a subscriber may join a closed broadcaster.
registerLate(s) ==
  /\ st[s] = "booted" /\ cancel = 0 /\ pumpGen < Pumps
  /\ st' = [st EXCEPT ![s] = "open"] /\ pumpGen' = pumpGen + 1 /\ cancel' = pumpGen'
  /\ pump' = [pump EXCEPT ![pumpGen'] = [st |-> "rows", at |-> since[s], to |-> since[s]]]
  /\ replay' = [replay EXCEPT ![s].st = "wire"]
  /\ UNCHANGED <<head, shut, since, lastSent, got, emitter, closer>>

\* register: one critical section refuses after Close, publishes the subscriber,
\* starts the pump for the first one, and counts both goroutines.
register(s) ==
  /\ st[s] = "booted"
  /\ IF shut
     THEN /\ st' = [st EXCEPT ![s] = "shut"] /\ since' = [since EXCEPT ![s] = 0]
          /\ lastSent' = [lastSent EXCEPT ![s] = 0] /\ UNCHANGED <<cancel, pumpGen, pump, replay>>
     ELSE /\ st' = [st EXCEPT ![s] = "open"] /\ UNCHANGED <<since, lastSent>>
          /\ replay' = [replay EXCEPT ![s].st = IF cancel = 0 THEN "wire" ELSE "ask"]
          /\ IF cancel = 0
             THEN /\ pumpGen < Pumps /\ pumpGen' = pumpGen + 1 /\ cancel' = pumpGen'
                  /\ pump' = [pump EXCEPT ![pumpGen'] = [st |-> "rows", at |-> since[s], to |-> since[s]]]
             ELSE UNCHANGED <<cancel, pumpGen, pump>>
  /\ UNCHANGED <<head, shut, got, emitter, closer>>

\* The first subscriber's call hands the agent Emit, outside the lock.
setOperatorEmitter(s) ==
  /\ replay[s].st = "wire" /\ emitter' = TRUE /\ replay' = [replay EXCEPT ![s].st = "ask"]
  /\ UNCHANGED <<head, shut, cancel, pumpGen, pump, subscriber, closer>>

-----------------------------------------------------------------------------
\* Sending, under the lock.

HungUp(gone) ==
  /\ st' = [s \in Subs |-> IF s \in gone THEN "shut" ELSE st[s]]
  /\ since' = [s \in Subs |-> IF s \in gone THEN 0 ELSE since[s]]

\* detachLocked, for a set of open subscribers: the last one out cancels the pump
\* and takes the emitter away.
detachLocked(gone) ==
  /\ HungUp(gone)
  /\ IF gone # {} /\ Attached \subseteq gone /\ cancel # 0
     THEN cancel' = 0 /\ emitter' = FALSE ELSE UNCHANGED <<cancel, emitter>>

Lose(gone) ==
  /\ detachLocked(gone)
  /\ lastSent' = [s \in Subs |-> IF s \in gone THEN 0 ELSE lastSent[s]]
  /\ got' = [s \in Subs |-> IF s \in gone THEN {} ELSE got[s]]

\* Mutant: only the client's cursor is looked at.
sendTwice(to, n) ==
  LET due == {s \in to : n > since[s]}
  IN  \E full \in SUBSET due :
        /\ detachLocked(full)
        /\ lastSent' = [s \in Subs |-> IF s \in full THEN 0 ELSE IF s \in due THEN n ELSE lastSent[s]]
        /\ got' = [s \in Subs |-> IF s \in full THEN {} ELSE IF s \in due THEN got[s] \cup {n} ELSE got[s]]

\* send: a frame at or below the high-water mark is skipped, one that finds the
\* channel full drops the subscriber.
send(to, n) ==
  LET due == {s \in to : n > lastSent[s]}
  IN  \E full \in SUBSET due :
        /\ detachLocked(full)
        /\ lastSent' = [s \in Subs |-> IF s \in full THEN 0 ELSE IF s \in due THEN n ELSE lastSent[s]]
        /\ got' = [s \in Subs |-> IF s \in full THEN {} ELSE IF s \in due THEN got[s] \cup {n} ELSE got[s]]

\* sendTyped: no number and no dedup, the same drop.
sendTyped(to) == \E full \in SUBSET to : Lose(full)

\* Emit: a typed frame to everybody attached.  The wait of a terminal frame for
\* the log only delays it.
Emit ==
  /\ emitter /\ sendTyped(Attached)
  /\ UNCHANGED <<head, shut, pumpGen, pump, replay, closer>>

-----------------------------------------------------------------------------
\* The replay goroutine.

\* Since: one query, bounded by the current end of the log.
Since(s) ==
  /\ replay[s].st = "ask"
  /\ replay' = [replay EXCEPT ![s] = IF st[s] = "open"
                                     THEN [st |-> "rows", at |-> since[s], to |-> queryRows(since[s])]
                                     ELSE At("gone")]
  /\ UNCHANGED <<head, shut, cancel, pumpGen, pump, subscriber, emitter, closer>>

\* One row; a subscriber that is gone ends the goroutine.
replayRow(s) ==
  /\ replay[s].st = "rows" /\ replay[s].at < replay[s].to
  /\ IF st[s] = "open" THEN send({s}, replay[s].at + 1) ELSE UNCHANGED <<subscriber, cancel, emitter>>
  /\ replay' = [replay EXCEPT ![s] = IF st'[s] = "open"
                                     THEN [st |-> "rows", at |-> replay[s].at + 1, to |-> replay[s].to]
                                     ELSE At("gone")]
  /\ UNCHANGED <<head, shut, pumpGen, pump, closer>>

\* The goroutine ends and hangs its subscriber up.
Detach(s) ==
  /\ replay' = [replay EXCEPT ![s] = At("gone")] /\ Lose({s} \cap Attached)
  /\ UNCHANGED <<head, shut, pumpGen, pump, closer>>

\* A query or a row's hydration fails, or the request's context cut it short.
replayFails(s) == replay[s].st \in {"ask", "rows"} /\ Detach(s)

\* Caught up: wait for Close, or for the request to end, then detach.
replayThenTail(s) ==
  \/ /\ replay[s].st = "rows" /\ replay[s].at = replay[s].to
     /\ replay' = [replay EXCEPT ![s] = At("tail")]
     /\ UNCHANGED <<head, shut, cancel, pumpGen, pump, subscriber, emitter, closer>>
  \/ replay[s].st = "tail" /\ shut /\ Detach(s)
clientLeaves(s) == replay[s].st = "tail" /\ Detach(s)

-----------------------------------------------------------------------------
\* The pump.
Cut(g) == cancel # g
Dying(g) == pump' = [pump EXCEPT ![g] = At("sweep")]

\* Watch: the next query, or the end once the context is cancelled.
Watch(g) ==
  /\ pump[g].st = "rows" /\ pump[g].at = pump[g].to
  /\ IF Cut(g) THEN Dying(g)
     ELSE pump[g].to < head /\ pump' = [pump EXCEPT ![g].to = queryRows(pump[g].at)]
  /\ UNCHANGED <<head, shut, cancel, pumpGen, replay, subscriber, emitter, closer>>

\* A row goes to everybody attached; with nobody left the pump ends.
pumpRow(g) ==
  /\ pump[g].st = "rows" /\ pump[g].at < pump[g].to
  /\ send(Attached, pump[g].at + 1)
  /\ IF \A s \in Subs : st'[s] # "open" THEN Dying(g) ELSE pump' = [pump EXCEPT ![g].at = @ + 1]
  /\ UNCHANGED <<head, shut, pumpGen, replay, closer>>

\* A query or a row fails, or the cancelled context cuts it short.
pumpFails(g) ==
  /\ pump[g].st = "rows" /\ Dying(g)
  /\ UNCHANGED <<head, shut, cancel, pumpGen, replay, subscriber, emitter, closer>>

\* Mutant: a pump that dies leaves its subscribers and its cancel behind.
sweepNothing(g) ==
  /\ pump[g].st = "sweep" /\ pump' = [pump EXCEPT ![g] = At("gone")]
  /\ UNCHANGED <<head, shut, cancel, pumpGen, replay, subscriber, emitter, closer>>
\* Mutant: a pump that dies late takes its successor's cancel along.
sweepAnyone(g) ==
  /\ pump[g].st = "sweep" /\ pump' = [pump EXCEPT ![g] = At("gone")]
  /\ cancel' = 0 /\ emitter' = FALSE
  /\ UNCHANGED <<head, shut, pumpGen, replay, subscriber, closer>>

\* The deferred sweep: only the current pump, still holding its cancel, hangs
\* everybody up and clears the way for the next one.
sweep(g) ==
  /\ pump[g].st = "sweep" /\ pump' = [pump EXCEPT ![g] = At("gone")]
  /\ IF pumpGen = g /\ cancel # 0 THEN Lose(Attached)
     ELSE UNCHANGED <<subscriber, cancel, emitter>>
  /\ UNCHANGED <<head, shut, pumpGen, replay, closer>>

-----------------------------------------------------------------------------
\* Close refuses newcomers, wakes and hangs up everybody, cancels the pump ...
Close ==
  /\ ~shut /\ shut' = TRUE /\ closer' = "wait" /\ cancel' = 0 /\ HungUp(Attached)
  /\ lastSent' = [s \in Subs |-> IF s \in Attached THEN 0 ELSE lastSent[s]]
  /\ got' = [s \in Subs |-> IF s \in Attached THEN {} ELSE got[s]]
  /\ UNCHANGED <<head, pumpGen, pump, replay, emitter>>

Busy ==
  \/ \E g \in 1..Pumps : pump[g].st \notin {"off", "gone"}
  \/ \E s \in Subs : replay[s].st \notin {"off", "gone"}
\* ... and returns once every goroutine is gone.
CloseReturns ==
  /\ closer = "wait" /\ ~Busy /\ closer' = "done"
  /\ UNCHANGED <<head, shut, cancel, pumpGen, pump, replay, subscriber, emitter>>

PumpStep(g) == Watch(g) \/ pumpRow(g) \/ sweep(g)
ReplayStep(s) == setOperatorEmitter(s) \/ Since(s) \/ replayRow(s) \/ replayThenTail(s)
Next ==
  \/ AppendEvent \/ Emit \/ Close \/ CloseReturns
  \/ \E g \in 1..Pumps : PumpStep(g) \/ pumpFails(g)
  \/ \E s \in Subs : Subscribe(s) \/ register(s) \/ ReplayStep(s) \/ replayFails(s) \/ clientLeaves(s)
Spec == Init /\ [][Next]_vars
\* Goroutines run.  Nothing makes a client read, subscribe or leave.
FairSpec ==
  /\ Spec
  /\ \A g \in 1..Pumps : WF_vars(PumpStep(g))
  /\ \A s \in Subs : WF_vars(ReplayStep(s))

-----------------------------------------------------------------------------
\* What the channels carry, as EventFeed sees it.
stream == [s \in Subs |-> IF st[s] \in {"new", "booted"} THEN "none" ELSE st[s]]
cursor == [s \in Subs |-> IF st[s] = "open" THEN lastSent[s] ELSE 0]
Feed == INSTANCE EventFeed WITH sent <- got
FeedInit == Feed!Init
FeedStep == Feed!Next \/ UNCHANGED Feed!feed

\* Broadcaster implements EventFeed: whatever pump and replay race to send, a
\* subscriber's channel carries entries past its cursor, in order, once each,
\* and nothing after it was closed (send, lastSent, detachLocked).
ImplementsFeed == FeedInit /\ [][FeedStep]_vars

\* Once Close has returned no goroutine of the broadcaster reads the event log,
\* then or later: register refuses under the lock that Close took.
QuietAfterClose == closer = "done" => ~Busy

\* Typed events reach the audience: with somebody attached and every Subscribe
\* call through its wiring, the agent holds the emitter (detachLocked, Subscribe).
AudienceIsWired ==
  Attached # {} /\ (\A s \in Subs : replay[s].st # "wire") => emitter

\* A subscriber gets what was logged past its cursor or is hung up: a pump that
\* dies, even late, strands nobody (the sweep and its generation guard).
Owed(s, n) == st[s] = "open" /\ head >= n
Served(s, n) == lastSent[s] >= n \/ st[s] # "open"
NobodyWaits == \A s \in Subs : \A n \in 1..MaxSeq : Owed(s, n) => Served(s, n)
NobodyStranded == []<>NobodyWaits

\* Subscribe replays every frame past the cursor before it switches to the live
\* tail: what an open subscriber was sent has no holes.
ReplayHasNoHoles ==
  \A s \in Attached : got[s] = {n \in 1..MaxSeq : since[s] < n /\ n <= lastSent[s]}
=============================================================================
