---------------------------- MODULE SessionRegistry ----------------------------
(***************************************************************************)
(* The attach server's session registry (internal/attach/registry.go), its *)
(* ACL store, the pool of broadcasters and the handlers that use them, for *)
(* one session triple.  Requests look the session up, resume it when it    *)
(* was evicted, stream it, amend its ACL or delete it, while the idle      *)
(* sweep evicts it and the server closes.                                  *)
(*                                                                         *)
(* A step is one critical section of SessionRegistry.mu or                 *)
(* broadcasterPool.mu, one store call or one wait.  An Entry is numbered   *)
(* as its agent was built, which is the order of Entry.regSeq; the entry   *)
(* is idle whenever the sweep finds it so.                                 *)
(***************************************************************************)
EXTENDS Naturals

CONSTANTS
  Requests,   \* HTTP requests being served, each slot again and again
  Callers, Owner, Admins,
  Amendments, \* the ACLs a PUT may send
  MaxBuilt,   \* bound on the agents built
  MaxFeeds,   \* bound on the broadcasters built
  None

VARIABLES
  entry,             \* byTriple's Entry for the session, 0 for none
  acl, row,          \* its Entry.acl; the persisted row
  built, running,    \* agents so far; those whose wake loop is not cancelled
  flight,            \* the leader of resumeFlight
  fed, feeds, feed,  \* broadcasters: bcasts[key], how many, and each one's entry and state
  poolUp,            \* bcasts is not nil
  rq,                \* requests
  sweeper, shutter   \* SweepIdle's goroutine; Server.Close

vars == <<entry, acl, row, built, running, flight, fed, feeds, feed, poolUp, rq, sweeper, shutter>>
registry == <<entry, acl, row, built, running, flight>>
pool == <<fed, feeds, feed, poolUp>>

ACLs == [owner : Callers, viewers : SUBSET Callers, contributors : SUBSET Callers]
Kinds == {"events", "acl", "delete"}

\* A request: its step, its kind and caller, the Entry it resolved or the agent
\* it built, the persisted ACL it read, and the broadcaster it waits for.
Idle == [pc |-> "idle", kind |-> "events", who |-> Owner, ent |-> 0, saw |-> None, on |-> 0]
Sweeping(pc, n, b) == [pc |-> pc, ent |-> n, on |-> b]

TypeOK ==
  /\ entry \in 0..built /\ built \in 0..MaxBuilt /\ running \subseteq 1..built
  /\ acl \in ACLs \cup {None} /\ row \in ACLs \cup {None}
  /\ flight \in Requests \cup {None} /\ feeds \in 0..MaxFeeds /\ fed \in 0..feeds
  /\ feed \in [1..MaxFeeds -> [ent : 0..MaxBuilt, st : {"none", "up", "closing", "down"}]]
  /\ poolUp \in BOOLEAN /\ shutter \in {"no", "join", "pool", "done"}
  /\ rq \in [Requests -> [pc : {"idle", "miss", "flight", "resumed", "wait", "have", "swap",
                                "put", "set", "retire", "rowdel", "built"},
                          kind : Kinds, who : Callers, ent : 0..MaxBuilt,
                          saw : ACLs \cup {None}, on : 0..MaxFeeds]]
  /\ sweeper \in [pc : {"idle", "hook", "wait", "off"}, ent : 0..MaxBuilt, on : 0..MaxFeeds]

\* A daemon that starts over a store that holds the session, or does not.
Init ==
  /\ entry = 0 /\ acl = None /\ built = 0 /\ running = {}
  /\ row \in {None, [owner |-> Owner, viewers |-> {}, contributors |-> {}]}
  /\ flight = None /\ fed = 0 /\ feeds = 0 /\ poolUp = TRUE
  /\ feed = [b \in 1..MaxFeeds |-> [ent |-> 0, st |-> "none"]]
  /\ rq = [q \in Requests |-> Idle] /\ sweeper = Sweeping("idle", 0, 0) /\ shutter = "no"

Set(q, r) == rq' = [rq EXCEPT ![q] = r]
Goto(q, pc) == Set(q, [rq[q] EXCEPT !.pc = pc])
Done(q) == Set(q, Idle)

\* auth.Authorize.
Authorize(c, action, a) ==
  \/ c \in Admins
  \/ c = a.owner
  \/ action = "read" /\ c \in a.viewers \cup a.contributors
  \/ action = "write" /\ c \in a.contributors

Needs(kind) == IF kind = "events" THEN "read" ELSE "admin"

-----------------------------------------------------------------------------
\* Broadcasters.

\* broadcaster.Close has been called on b; its goroutines drain later.
Closing(b) == feed' = [feed EXCEPT ![b].st = "closing"]
Drained(b) == b # 0 => feed[b].st = "down"

Drain(b) ==
  /\ feed[b].st = "closing" /\ feed' = [feed EXCEPT ![b].st = "down"]
  /\ UNCHANGED <<registry, fed, feeds, poolUp, rq, sweeper, shutter>>

\* broadcasterPool.Retire: remove and close the broadcaster bound to this very
\* entry.  The one closed, 0 for none, is what the caller then waits for.
Retire(n, b) ==
  IF poolUp /\ fed # 0 /\ feed[fed].ent = n
  THEN b = fed /\ fed' = 0 /\ Closing(fed) ELSE b = 0 /\ UNCHANGED <<fed, feed>>

-----------------------------------------------------------------------------
\* Lookups.

\* authorize: a caller's own action against the ACL of the entry it resolved.  A
\* denial answers like a miss.  Only a PUT asks again who the caller is.
authorize(r, n, a) ==
  IF Authorize(r.who, Needs(r.kind), a)
  THEN [r EXCEPT !.pc = "have", !.ent = n, !.saw = None, !.who = IF r.kind = "acl" THEN @ ELSE Owner]
  ELSE Idle

\* lookupGated; lookupSingleGated is the same for one app.
lookupGated(q, kind, c) ==
  /\ rq[q] = Idle /\ shutter # "done"
  /\ LET r == [Idle EXCEPT !.kind = kind, !.who = c, !.pc = "miss"] IN
     Set(q, IF entry = 0 THEN r ELSE authorize(r, entry, acl))
  /\ UNCHANGED <<registry, pool, sweeper, shutter>>

\* resumeGateFor: what the persisted row alone says of the caller.
resumeGate(c) == IF row = None THEN FALSE ELSE Authorize(c, "read", row)

\* resumeAndRegister's read of the row and the caller's gate, before and
\* outside the flight.  Then singleflight: lead one, or wait for its leader.
Gate(q) ==
  /\ rq[q].pc = "miss"
  /\ \/ ~resumeGate(rq[q].who) /\ Done(q) /\ UNCHANGED flight
     \/ /\ resumeGate(rq[q].who)
        /\ IF flight = None
           THEN flight' = q /\ Set(q, [rq[q] EXCEPT !.pc = "flight", !.saw = row])
           ELSE UNCHANGED flight /\ Goto(q, "wait")
  /\ UNCHANGED <<entry, acl, row, built, running, pool, sweeper, shutter>>

\* The flight lands: everybody in it resolves to n, or nobody does.
Land(n, a) ==
  rq' = [q \in Requests |->
    IF rq[q].pc \in {"flight", "resumed", "wait"}
    THEN IF n = 0 THEN Idle ELSE authorize(rq[q], n, a) ELSE rq[q]]

\* The leader's recheck of the map, then SessionResumer.Resume, which builds the
\* agent and starts its wake loop, or fails.
Resume(q) ==
  /\ rq[q].pc = "flight"
  /\ \/ entry # 0 /\ Land(entry, acl) /\ flight' = None /\ UNCHANGED <<built, running>>
     \/ entry = 0 /\ Land(0, None) /\ flight' = None /\ UNCHANGED <<built, running>>
     \/ /\ entry = 0 /\ built < MaxBuilt /\ built' = built + 1 /\ running' = running \cup {built'}
        /\ Set(q, [rq[q] EXCEPT !.pc = "resumed", !.ent = built']) /\ UNCHANGED flight
  /\ UNCHANGED <<entry, acl, row, pool, sweeper, shutter>>

\* registerResumed under the persisted ACL; an entry that got there first wins.
registerResumed(q) ==
  /\ rq[q].pc = "resumed" /\ flight' = None
  /\ IF entry # 0 THEN Land(entry, acl) /\ UNCHANGED <<entry, acl>>
     ELSE /\ entry' = rq[q].ent /\ acl' = rq[q].saw
          /\ Land(rq[q].ent, rq[q].saw)
  /\ UNCHANGED <<row, built, running, pool, sweeper, shutter>>

-----------------------------------------------------------------------------
\* POST /sessions: the session's id is fresh, so this happens once and first.

createSession(q) ==
  /\ rq[q] = Idle /\ row = None /\ built = 0 /\ shutter = "no"
  /\ built' = 1 /\ running' = {1} /\ Set(q, [rq[q] EXCEPT !.pc = "built", !.ent = 1])
  /\ UNCHANGED <<entry, acl, row, flight, pool, sweeper, shutter>>

\* Mutant: a failed registration leaves the factory's wake loop running.
registerLeaking(q) ==
  /\ rq[q].pc = "built" /\ Done(q)
  /\ \/ /\ entry' = rq[q].ent /\ row' = [owner |-> rq[q].who, viewers |-> {}, contributors |-> {}]
        /\ acl' = row' /\ UNCHANGED running
     \/ UNCHANGED <<entry, acl, row, running>>
  /\ UNCHANGED <<built, flight, pool, sweeper, shutter>>

\* registerWithACL: the entry and its row appear together under the lock; a
\* failed Put takes the entry back and the handler cancels the wake loop.
registerWithACL(q) ==
  /\ rq[q].pc = "built" /\ Done(q)
  /\ \/ /\ entry' = rq[q].ent /\ row' = [owner |-> rq[q].who, viewers |-> {}, contributors |-> {}]
        /\ acl' = row' /\ UNCHANGED running
     \/ running' = running \ {rq[q].ent} /\ UNCHANGED <<entry, acl, row>>
  /\ UNCHANGED <<built, flight, pool, sweeper, shutter>>

-----------------------------------------------------------------------------
\* GET events.

\* A fresh broadcaster for n under the key.
newBroadcaster(n) ==
  /\ feeds < MaxFeeds /\ feeds' = feeds + 1 /\ fed' = feeds'

\* Mutant: any other entry replaces the pooled broadcaster.
ForAnyOther(q) ==
  /\ rq[q].pc = "have" /\ rq[q].kind = "events"
  /\ LET n == rq[q].ent IN
     IF ~poolUp THEN Done(q) /\ UNCHANGED pool
     ELSE IF fed # 0 /\ feed[fed].ent = n
     THEN Done(q) /\ UNCHANGED pool
     ELSE /\ newBroadcaster(n) /\ UNCHANGED poolUp
          /\ feed' = [b \in 1..MaxFeeds |-> CASE b = feeds' -> [ent |-> n, st |-> "up"]
                                               [] b = fed -> [feed[b] EXCEPT !.st = "closing"]
                                               [] OTHER -> feed[b]]
          /\ IF fed = 0 THEN Done(q) ELSE Set(q, [rq[q] EXCEPT !.pc = "swap", !.on = fed])
  /\ UNCHANGED <<registry, sweeper, shutter>>

\* broadcasterPool.For: a caller whose entry is no newer is handed the pooled
\* broadcaster; a newer one replaces it and waits for the old one to close.  The
\* stream that follows is the broadcaster's (Broadcaster) and frees the slot here.
For(q) ==
  /\ rq[q].pc = "have" /\ rq[q].kind = "events"
  /\ LET n == rq[q].ent IN
     IF ~poolUp THEN Done(q) /\ UNCHANGED pool
     ELSE IF fed # 0 /\ n <= feed[fed].ent
     THEN Done(q) /\ UNCHANGED pool
     ELSE /\ newBroadcaster(n) /\ UNCHANGED poolUp
          /\ feed' = [b \in 1..MaxFeeds |-> CASE b = feeds' -> [ent |-> n, st |-> "up"]
                                               [] b = fed -> [feed[b] EXCEPT !.st = "closing"]
                                               [] OTHER -> feed[b]]
          /\ IF fed = 0 THEN Done(q) ELSE Set(q, [rq[q] EXCEPT !.pc = "swap", !.on = fed])
  /\ UNCHANGED <<registry, sweeper, shutter>>

Swapped(q) ==
  /\ rq[q].pc = "swap" /\ Drained(rq[q].on) /\ Done(q)
  /\ UNCHANGED <<registry, pool, sweeper, shutter>>

-----------------------------------------------------------------------------
\* PUT acl: SetACL looks the entry up again, writes the row, then the entry.

doSetSessionACL(q) ==
  /\ rq[q].pc = "have" /\ rq[q].kind = "acl" /\ UNCHANGED <<registry, pool, sweeper, shutter>>
  /\ IF entry = 0 THEN Done(q)
     ELSE \E a \in Amendments :
            /\ a.owner = acl.owner \/ rq[q].who \in Admins
            /\ Set(q, [rq[q] EXCEPT !.pc = "put", !.ent = entry, !.saw = a])

SetACLPut(q) ==
  /\ rq[q].pc = "put"
  /\ \/ row' = rq[q].saw /\ Goto(q, "set")
     \/ Done(q) /\ UNCHANGED row
  /\ UNCHANGED <<entry, acl, built, running, flight, pool, sweeper, shutter>>

setACL(q) ==
  /\ rq[q].pc = "set" /\ acl' = (IF rq[q].ent = entry THEN rq[q].saw ELSE acl) /\ Done(q)
  /\ UNCHANGED <<entry, row, built, running, flight, pool, sweeper, shutter>>

-----------------------------------------------------------------------------
\* DELETE: retire the broadcaster, then the entry, its wake loop and its row.

doDeleteSession(q) ==
  /\ rq[q].pc = "have" /\ rq[q].kind = "delete"
  /\ \E b \in 0..MaxFeeds :
       Retire(rq[q].ent, b) /\ Set(q, [rq[q] EXCEPT !.pc = "retire", !.on = b])
  /\ UNCHANGED <<registry, feeds, poolUp, sweeper, shutter>>

HardDelete(q) ==
  /\ rq[q].pc = "retire" /\ Drained(rq[q].on)
  /\ entry' = 0 /\ acl' = None /\ Set(q, [rq[q] EXCEPT !.pc = "rowdel", !.ent = entry, !.on = 0])
  /\ UNCHANGED <<row, built, running, flight, pool, sweeper, shutter>>

DeleteRow(q) ==
  /\ rq[q].pc = "rowdel" /\ running' = running \ {rq[q].ent} /\ Done(q)
  /\ row' \in {None, row}
  /\ UNCHANGED <<entry, acl, built, flight, pool, sweeper, shutter>>

-----------------------------------------------------------------------------
\* The idle sweep, and the end of the server.

EvictBefore ==
  /\ sweeper.pc = "idle" /\ entry # 0 /\ sweeper' = Sweeping("hook", entry, 0) /\ entry' = 0 /\ acl' = None
  /\ UNCHANGED <<row, built, running, flight, pool, rq, shutter>>

\* Outside the lock: cancelOnEvict, then the evict hook.
evictHook ==
  /\ sweeper.pc = "hook" /\ running' = running \ {sweeper.ent}
  /\ \E b \in 0..MaxFeeds : Retire(sweeper.ent, b) /\ sweeper' = Sweeping("wait", sweeper.ent, b)
  /\ UNCHANGED <<entry, acl, row, built, flight, feeds, poolUp, rq, shutter>>

\* The retirement has drained and the row's last-touched time is written; the
\* goroutine takes the next tick, or sees its context cancelled.
SweepIdle ==
  /\ \/ sweeper.pc = "wait" /\ Drained(sweeper.on) /\ sweeper' = Sweeping("idle", 0, 0)
     \/ sweeper.pc = "idle" /\ shutter = "join" /\ sweeper' = Sweeping("off", 0, 0)
  /\ UNCHANGED <<registry, pool, rq, shutter>>

\* Server.Close: stop the sweep and join it, close the pool, shut down.
ServerClose ==
  /\ shutter = "no" /\ shutter' = "join" /\ UNCHANGED <<registry, pool, rq, sweeper>>

poolClose ==
  /\ shutter = "join" /\ sweeper.pc = "off" /\ shutter' = "pool" /\ poolUp' = FALSE /\ fed' = 0
  /\ IF fed = 0 THEN UNCHANGED feed ELSE Closing(fed)
  /\ UNCHANGED <<registry, feeds, rq, sweeper>>

\* Mutant: pool.Close waits only for the broadcasters it found in the map.
retiringIgnored == {}

\* The broadcasters under the pool's retiring group: removed, not yet drained.
retiring == {rq[q].on : q \in {p \in Requests : rq[p].pc \in {"swap", "retire"}}} \ {0}

\* The map's own broadcasters, which nobody else removed.
Snapshot == {b \in 1..feeds : \A q \in Requests : ~(rq[q].pc \in {"swap", "retire"} /\ rq[q].on = b)}

poolClosed ==
  /\ shutter = "pool" /\ \A b \in Snapshot \cup retiring : feed[b].st = "down"
  /\ shutter' = "done" /\ UNCHANGED <<registry, pool, rq, sweeper>>

Request(q) ==
  \/ \E kind \in Kinds, c \in Callers : lookupGated(q, kind, c)
  \/ Gate(q) \/ Resume(q) \/ registerResumed(q)
  \/ createSession(q) \/ registerWithACL(q) \/ For(q) \/ Swapped(q)
  \/ doSetSessionACL(q) \/ SetACLPut(q) \/ setACL(q)
  \/ doDeleteSession(q) \/ HardDelete(q) \/ DeleteRow(q)

Next ==
  \/ \E q \in Requests : Request(q)
  \/ \E b \in 1..MaxFeeds : Drain(b)
  \/ EvictBefore \/ evictHook \/ SweepIdle \/ ServerClose \/ poolClose \/ poolClosed

Spec == Init /\ [][Next]_vars

-----------------------------------------------------------------------------
\* Once Server.Close has closed the pool nobody reads the event log any more:
\* a broadcaster swapped out by For or retired by a DELETE is not in the map,
\* and is waited for all the same (broadcaster.go, pool.Close).
PoolQuiesces == shutter = "done" => \A b \in 1..feeds : feed[b].st = "down"

\* The broadcaster of the entry that is registered is only ever hung up by that
\* session's own DELETE or by the end of the server: neither a request that
\* resolved an older entry (For's directed comparison) nor an eviction that
\* finishes after the session was resumed (Retire's identity check) ends it.
LiveStreamKept ==
  \A b \in 1..feeds :
    (entry # 0 /\ feed[b].ent = entry /\ feed[b].st # "up") =>
      ~poolUp \/ \E q \in Requests : rq[q].pc = "retire" /\ rq[q].on = b

\* A wake loop that runs belongs to the registered entry or to somebody who is
\* about to register or cancel it: no path of create, resume, evict or delete
\* leaves an agent behind that nothing can reach.
AgentsAccounted ==
  \A n \in running :
    \/ n = entry
    \/ sweeper.pc = "hook" /\ sweeper.ent = n
    \/ \E q \in Requests : rq[q].pc \in {"resumed", "built", "rowdel"} /\ rq[q].ent = n
=============================================================================
