-------------------------------- MODULE Peers --------------------------------
(***************************************************************************)
(* The hub's peer registry (internal/attach): peers register under a name, *)
(* keep a lease alive with heartbeats and are pruned without; every change *)
(* is written to a state file that a restart reloads.  With it the client  *)
(* loop of a peer (client_register.go) over a connection that loses        *)
(* requests and answers.                                                   *)
(***************************************************************************)
EXTENDS Naturals, FiniteSets, Functions

CONSTANTS
  Names,      \* the peers
  Ids,        \* 1 .. how many registrations a behaviour makes (bound)
  TTLs, DefaultTTL, \* lease lengths a peer may ask for (0: none asked); the hub's own
  Ceilings,   \* the maxTTL a hub may be started with
  Fraction,   \* heartbeats per lease (3 in the code)
  MaxNow, MaxFaults, \* bounds: the clock; lost messages, failed writes and restarts
  None

VARIABLES
  now,
  maxTTL,     \* the hub's ceiling
  byID,       \* registration id -> [name, ttl, exp]: a function on a subset of Ids
  nextId,
  seq,        \* the registry's persistSeq
  written,    \* the persister's
  file,       \* the state file: a set of [id, name, ttl, exp]
  failed,     \* sequence numbers whose write failed
  call,       \* per actor: its request [pc, op, snap, id]
  peer,       \* per peer: [pc, first, cur, due]
  faults

vars == <<now, maxTTL, byID, nextId, seq, written, file, failed, call, peer, faults>>

Pruner == "pruner"
Actors == Names \cup {Pruner}
Resting == [pc |-> "rest", op |-> None, snap |-> None, id |-> None]
Record(id, p) == [id |-> id, name |-> p.name, ttl |-> p.ttl, exp |-> p.exp]
Records(reg) == {Record(id, reg[id]) : id \in DOMAIN reg}
Fault == faults < MaxFaults /\ faults' = faults + 1

TypeOK ==
  /\ now \in 0 .. MaxNow /\ maxTTL \in Ceilings /\ DOMAIN byID \subseteq Ids
  /\ \A id \in DOMAIN byID : byID[id].name \in Names /\ byID[id].ttl \in Nat /\ byID[id].exp \in Nat
  /\ \A a \in Actors : call[a].pc \in {"rest", "sent", "persist", "answer"}
  /\ \A n \in Names : peer[n].pc \in {"off", "loop", "again", "stopping", "stopped"}
  /\ written <= seq /\ failed \subseteq 1 .. seq

-----------------------------------------------------------------------------
(* The hub: each operation changes the tables and takes a snapshot under the *)
(* lock, and writes the file after it.                                       *)

Drop(reg, ids) == Restrict(reg, DOMAIN reg \ ids)
Named(n) == {id \in DOMAIN byID : byID[id].name = n}
Clamp(ttl) == IF ttl > maxTTL THEN maxTTL ELSE ttl

\* snapshotLocked: what is to be written, stamped in the order of the changes.
Snapshot(a, op, reg, id) ==
  /\ byID' = reg /\ seq' = seq + 1
  /\ call' = [call EXCEPT ![a] = [pc |-> "persist", op |-> op, id |-> id,
                                  snap |-> [seq |-> seq + 1, recs |-> Records(reg)]]]

\* Upsert by name: the older registration of the name goes.
RegisterOwned(n) ==
  /\ nextId \in Ids /\ nextId' = nextId + 1
  /\ \E t \in TTLs :
       LET ttl == Clamp(IF t = 0 THEN DefaultTTL ELSE t)
           p == [name |-> n, ttl |-> ttl, exp |-> now + ttl]
           reg == Drop(byID, Named(n))
       IN Snapshot(n, "register", [id \in DOMAIN reg \cup {nextId} |-> IF id = nextId THEN p ELSE reg[id]], nextId)

\* The lease keeps its length; an id the hub does not know is answered 404.
Heartbeat(n) ==
  LET id == peer[n].cur IN
  IF id \in DOMAIN byID
  THEN Snapshot(n, "heartbeat", [byID EXCEPT ![id].exp = now + byID[id].ttl], id)
  ELSE call' = [call EXCEPT ![n] = [Resting EXCEPT !.pc = "answer", !.op = "heartbeat"]] /\ UNCHANGED <<byID, seq>>

Deregister(n, id) ==
  IF id \in DOMAIN byID THEN Snapshot(n, "deregister", Drop(byID, {id}), None)
  ELSE call' = [call EXCEPT ![n] = [Resting EXCEPT !.pc = "answer", !.op = "deregister"]] /\ UNCHANGED <<byID, seq>>

Expired == {id \in DOMAIN byID : byID[id].exp < now}
Prune ==
  /\ call[Pruner] = Resting /\ Expired # {}
  /\ Snapshot(Pruner, "prune", Drop(byID, Expired), None)
  /\ UNCHANGED <<now, maxTTL, nextId, written, file, failed, peer, faults>>

\* An operator with admin rights removes a peer (their request takes the pruner's place).
Remove(n) ==
  /\ call[Pruner] = Resting /\ Named(n) # {} /\ Fault
  /\ Snapshot(Pruner, "prune", Drop(byID, Named(n)), None)
  /\ UNCHANGED <<now, maxTTL, nextId, written, file, failed, peer>>

\* Mutant: the file takes whatever comes last.
writeAny(snap) == written' = snap.seq /\ file' = snap.recs

\* The persister's write: a snapshot older than the file is dropped.
write(snap) ==
  IF snap.seq <= written THEN UNCHANGED <<written, file>>
  ELSE written' = snap.seq /\ file' = snap.recs

\* persist: a write that fails is logged and the request is answered all the same.
Persist(a) ==
  /\ call[a].pc = "persist"
  /\ \/ write(call[a].snap) /\ UNCHANGED <<failed, faults>>
     \/ call[a].snap.seq > written /\ Fault /\ failed' = failed \cup {call[a].snap.seq} /\ UNCHANGED <<written, file>>
  /\ call' = [call EXCEPT ![a] = IF a = Pruner THEN Resting ELSE [@ EXCEPT !.pc = "answer", !.snap = None]]
  /\ UNCHANGED <<now, maxTTL, byID, nextId, seq, peer>>

\* Mutant: what the file says is believed.
loadPeerStateAsIs(recs, ceiling) == {r \in recs : r.exp > now}

\* Leases that ran out are left behind, the others are cut to the new ceiling,
\* counted from the last heartbeat.
loadPeerState(recs, ceiling) ==
  {r \in {IF r0.ttl > ceiling THEN [r0 EXCEPT !.ttl = ceiling, !.exp = (r0.exp - r0.ttl) + ceiling] ELSE r0 :
            r0 \in recs} : r.exp > now}

\* The process dies with whatever it was writing (the temporary file is renamed or
\* not) and is started again, perhaps with another ceiling; what was loaded is
\* written before anybody is served.
Restart ==
  /\ Fault
  /\ \E ceiling \in Ceilings :
       LET loaded == loadPeerState(file, ceiling) IN
       /\ maxTTL' = ceiling /\ file' = loaded
       /\ byID' = [id \in {r.id : r \in loaded} |->
                     LET r == CHOOSE x \in loaded : x.id = id IN [name |-> r.name, ttl |-> r.ttl, exp |-> r.exp]]
  /\ seq' = 1 /\ written' = 1 /\ failed' = {}
  /\ call' = [a \in Actors |-> IF call[a].pc \in {"rest", "sent"} THEN call[a]
                               ELSE IF a = Pruner THEN Resting
                               ELSE [Resting EXCEPT !.pc = "answer", !.op = call[a].op]]
  /\ UNCHANGED <<now, nextId, peer>>

-----------------------------------------------------------------------------
(* The peer. *)

Send(n, op, id) == call' = [call EXCEPT ![n] = [Resting EXCEPT !.pc = "sent", !.op = op, !.id = id]]

\* RegisterAndHeartbeat: without a first registration there is no loop.
Start(n) ==
  /\ peer[n].pc = "off" /\ call[n] = Resting /\ Send(n, "register", None)
  /\ UNCHANGED <<now, maxTTL, byID, nextId, seq, written, file, failed, peer, faults>>

Cadence(left) == IF left \div Fraction < 1 THEN 1 ELSE left \div Fraction

\* heartbeatLoop after its sleep: a heartbeat; after one that failed, a registration.
Beat(n) ==
  /\ call[n] = Resting
  /\ \/ peer[n].pc = "loop" /\ now >= peer[n].due /\ Send(n, "heartbeat", peer[n].cur)
     \/ peer[n].pc = "again" /\ Send(n, "register", None)
  /\ UNCHANGED <<now, maxTTL, byID, nextId, seq, written, file, failed, peer, faults>>

\* The cancel function: the loop is told to stop and the id of the first
\* registration is given back.  A request of the loop that is under way is given up
\* before the hub saw it or after it was served.
Cancel(n) ==
  /\ peer[n].pc \in {"loop", "again"} /\ call[n].pc # "persist"
  /\ peer' = [peer EXCEPT ![n].pc = "stopping"] /\ Send(n, "deregister", peer[n].first)
  /\ UNCHANGED <<now, maxTTL, byID, nextId, seq, written, file, failed, faults>>

\* The hub gets the request.
Serve(n) ==
  /\ call[n].pc = "sent"
  /\ \/ call[n].op = "register" /\ RegisterOwned(n)
     \/ call[n].op = "heartbeat" /\ Heartbeat(n) /\ UNCHANGED nextId
     \/ call[n].op = "deregister" /\ Deregister(n, call[n].id) /\ UNCHANGED nextId
  /\ UNCHANGED <<now, maxTTL, written, file, failed, peer, faults>>

\* The request or its answer is lost: the client sees an error.
Lose(n) ==
  /\ call[n].pc = "sent" \/ (call[n].pc = "answer" /\ call[n].id # None)
  /\ Fault
  /\ call' = [call EXCEPT ![n] = [Resting EXCEPT !.pc = "answer", !.op = call[n].op]]
  /\ UNCHANGED <<now, maxTTL, byID, nextId, seq, written, file, failed, peer>>

\* The answer: no id is an error (or, for a deregistration, nothing to tell).
Answered(n) ==
  LET id == call[n].id
      next == now + Cadence(IF id \in DOMAIN byID THEN byID[id].exp - now ELSE DefaultTTL)
      op == call[n].op
  IN /\ call[n].pc = "answer" /\ call' = [call EXCEPT ![n] = Resting]
     /\ peer' = [peer EXCEPT ![n] =
          CASE op = "deregister" -> [@ EXCEPT !.pc = "stopped"]
            [] op = "heartbeat" -> IF id = None THEN [@ EXCEPT !.pc = "again"] ELSE [@ EXCEPT !.due = next]
            [] op = "register" ->
                 IF id # None THEN [pc |-> "loop", cur |-> id, due |-> next,
                                    first |-> IF @.pc = "off" THEN id ELSE @.first]
                 ELSE IF @.pc = "off" THEN [@ EXCEPT !.pc = "stopped"]
                 ELSE [@ EXCEPT !.pc = "loop", !.due = next]]
     /\ UNCHANGED <<now, maxTTL, byID, nextId, seq, written, file, failed, faults>>

Tick ==
  /\ now < MaxNow /\ now' = now + 1
  /\ UNCHANGED <<maxTTL, byID, nextId, seq, written, file, failed, call, peer, faults>>

Init ==
  /\ now = 0 /\ maxTTL \in Ceilings /\ byID = [id \in {} |-> None] /\ nextId = 1
  /\ seq = 1 /\ written = 1 /\ file = {} /\ failed = {} /\ call = [a \in Actors |-> Resting]
  /\ peer = [n \in Names |-> [pc |-> "off", first |-> None, cur |-> None, due |-> 0]]
  /\ faults = 0

Next ==
  \/ \E n \in Names : Start(n) \/ Beat(n) \/ Cancel(n) \/ Serve(n) \/ Lose(n) \/ Answered(n) \/ Remove(n)
  \/ \E a \in Actors : Persist(a)
  \/ Prune \/ Restart \/ Tick

Spec == Init /\ [][Next]_vars

-----------------------------------------------------------------------------
\* Once nobody is writing, the file is what the registry says, or the newest write
\* failed and was logged: requests whose writes race cannot leave an older state, or
\* one that never existed, for the next start to load (write, snapshotLocked).
DiskFollowsMemory ==
  (\A a \in Actors : call[a].pc # "persist")
  => (written = seq /\ file = Records(byID)) \/ seq \in failed

\* No lease is longer than the running configuration admits, whoever granted it and
\* however often it was renewed; and a name has one registration (loadPeerState,
\* RegisterOwned, Heartbeat).
LeaseWithinConfig ==
  /\ \A id \in DOMAIN byID : byID[id].ttl <= maxTTL /\ byID[id].exp <= now + maxTTL
  /\ \A n \in Names : Cardinality(Named(n)) <= 1
==============================================================================
