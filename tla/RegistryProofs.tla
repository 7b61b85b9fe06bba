----------------------------- MODULE RegistryProofs -----------------------------
\* Proofs about the session registry (SessionRegistry): the inductive invariant that
\* relates the registered entry, the agents that were built, the requests in flight, the
\* sweep and the pool of broadcasters, that every step keeps it, and what follows from it.
EXTENDS SessionRegistry, TLAPS

\* Somebody in the callers' set owns the session and amends it properly, and no
\* request is called None.
Serving ==
  /\ Owner \in Callers /\ Amendments \subseteq ACLs /\ None \notin Requests
  /\ MaxBuilt \in Nat \ {0} /\ MaxFeeds \in Nat

RequestRecord ==
  [pc : {"idle", "miss", "flight", "resumed", "wait", "have", "swap", "put", "set", "retire", "rowdel", "built"},
   kind : Kinds, who : Callers, ent : 0..MaxBuilt, saw : ACLs \cup {None}, on : 0..MaxFeeds]
FeedRecord == [ent : 0..MaxBuilt, st : {"none", "up", "closing", "down"}]
SweepRecord == [pc : {"idle", "hook", "wait", "off"}, ent : 0..MaxBuilt, on : 0..MaxFeeds]

\* TypeOK, with the records named.
Types ==
  /\ entry \in 0..built /\ built \in 0..MaxBuilt /\ running \subseteq 1..built
  /\ acl \in ACLs \cup {None} /\ row \in ACLs \cup {None}
  /\ flight \in Requests \cup {None} /\ feeds \in 0..MaxFeeds /\ fed \in 0..feeds
  /\ feed \in [1..MaxFeeds -> FeedRecord]
  /\ poolUp \in BOOLEAN /\ shutter \in {"no", "join", "pool", "done"}
  /\ rq \in [Requests -> RequestRecord] /\ sweeper \in SweepRecord

\* The registered entry is the newest agent, and nobody carries a newer one.
NewestInv ==
  /\ entry # 0 => entry = built
  /\ sweeper.ent <= built
  /\ \A q \in Requests : rq[q].ent <= built
  /\ \A b \in 1..MaxFeeds : feed[b].ent <= built

\* One flight at a time; nobody resumes a session without a row, and before the
\* first agent is built nobody has resolved one.
FlightInv ==
  /\ \A q \in Requests : rq[q].pc \in {"flight", "resumed"} => flight = q
  /\ built = 0 => \A q \in Requests : /\ rq[q].pc \in {"idle", "miss", "flight", "wait"}
                                      /\ row = None => rq[q].pc \in {"idle", "miss"}

\* An agent that was built and is not registered yet is the newest, nobody else
\* knows of it, and nothing is registered meanwhile.  The one a POST builds is the
\* first, and until it has a row nobody gets past a lookup.
UnregisteredInv ==
  \A q \in Requests :
    /\ rq[q].pc \in {"resumed", "built"} =>
         /\ entry = 0 /\ rq[q].ent = built /\ built # 0 /\ sweeper.ent # built
         /\ \A p \in Requests \ {q} : rq[p].ent # built
         /\ \A b \in 1..MaxFeeds : feed[b].ent # built
    /\ rq[q].pc = "built" =>
         /\ row = None /\ built = 1
         /\ \A p \in Requests \ {q} : rq[p].pc \in {"idle", "miss"}

\* What the sweep still has to hang up is not what is registered.
EvictInv == sweeper.pc = "hook" => sweeper.ent \notin {0, entry}

\* A closed pool stays closed.
ClosedInv == (shutter \in {"pool", "done"} => ~poolUp) /\ PoolQuiesces

RegistryInv ==
  /\ Types /\ NewestInv /\ FlightInv /\ UnregisteredInv /\ EvictInv /\ ClosedInv
  /\ AgentsAccounted /\ LiveStreamKept

LEMMA RegistryTypes ==
  ASSUME Serving, Types
  PROVE  /\ entry \in 0..MaxBuilt /\ entry <= built /\ built \in Nat /\ built <= MaxBuilt /\ 0 \notin running
         /\ acl \in ACLs \cup {None} /\ row \in ACLs \cup {None}
         /\ sweeper.ent \in Nat /\ feeds \in Nat /\ fed \in Nat /\ fed <= feeds /\ feeds <= MaxFeeds
         /\ \A q \in Requests : rq[q] \in RequestRecord /\ rq[q].ent \in Nat
         /\ \A b \in 1..MaxFeeds : feed[b] \in FeedRecord /\ feed[b].ent \in Nat
  BY DEF Serving, Types, RequestRecord, FeedRecord, SweepRecord

\* A request's own step reaches no other request.
LEMMA RequestSet ==
  ASSUME Types, NEW q \in Requests, NEW r \in RequestRecord, Set(q, r)
  PROVE  /\ rq' \in [Requests -> RequestRecord] /\ rq'[q] = r
         /\ \A p \in Requests \ {q} : rq'[p] = rq[p]
  BY Zenon DEF Types, Set

LEMMA IdleRequest ==
  ASSUME Serving
  PROVE  Idle \in RequestRecord /\ Idle.pc = "idle" /\ Idle.ent = 0
  BY DEF Serving, Idle, RequestRecord, Kinds

\* Whoever is let in holds the entry that was resolved; whoever is not holds nothing.
LEMMA Authorized ==
  ASSUME Serving, NEW r \in RequestRecord, NEW n \in 0..MaxBuilt, NEW a
  PROVE  /\ authorize(r, n, a) \in RequestRecord
         /\ \/ authorize(r, n, a).pc = "have" /\ authorize(r, n, a).ent = n
            \/ authorize(r, n, a).pc = "idle" /\ authorize(r, n, a).ent = 0
  <1> DEFINE w == [r EXCEPT !.pc = "have", !.ent = n, !.saw = None,
                            !.who = IF r.kind = "acl" THEN @ ELSE Owner]
  <1>1. w \in RequestRecord /\ w.pc = "have" /\ w.ent = n
    BY Zenon DEF Serving, RequestRecord
  <1> HIDE DEF w
  <1>2. authorize(r, n, a) \in {w, Idle}
    BY Zenon DEF authorize, w
  <1> QED
    BY Zenon, <1>1, <1>2, IdleRequest

\* When a flight lands, everybody in it holds the entry or nothing.
LEMMA Landed ==
  ASSUME Serving, Types, NEW n \in 0..MaxBuilt, NEW a, Land(n, a)
  PROVE  /\ rq' \in [Requests -> RequestRecord]
         /\ \A p \in Requests : rq[p].pc \in {"flight", "resumed", "wait"} =>
              \/ rq'[p].pc = "have" /\ rq'[p].ent = n /\ n # 0
              \/ rq'[p].pc = "idle" /\ rq'[p].ent = 0
         /\ \A p \in Requests : rq[p].pc \notin {"flight", "resumed", "wait"} => rq'[p] = rq[p]
  <1>1. \A p \in Requests : rq[p] \in RequestRecord
    BY Zenon DEF Types
  <1> QED
    BY <1>1, Authorized, IdleRequest DEF Land

\* While an agent waits for its registration nobody else comes to know of it.
LEMMA UnregisteredKeeps ==
  ASSUME UnregisteredInv, NEW q \in Requests,
         rq[q].pc \notin {"resumed", "built"}, rq'[q].pc \notin {"resumed", "built"},
         \A p \in Requests \ {q} : rq'[p] = rq[p],
         UNCHANGED built, entry' \in {0, entry},
         rq'[q].ent \in {0, entry, rq[q].ent}, sweeper'.ent \in {0, entry, sweeper.ent},
         \A b \in 1..MaxFeeds : feed'[b].ent \in {rq[q].ent, feed[b].ent},
         row' = row \/ rq[q].pc \notin {"idle", "miss"},
         entry = 0 /\ row = None /\ rq[q].pc \in {"idle", "miss"} => rq'[q].pc \in {"idle", "miss"}
  PROVE  UnregisteredInv'
  <1> SUFFICES ASSUME NEW p \in Requests, rq'[p].pc \in {"resumed", "built"}
               PROVE  /\ entry' = 0 /\ rq'[p].ent = built' /\ built' # 0 /\ sweeper'.ent # built'
                      /\ \A o \in Requests \ {p} : rq'[o].ent # built'
                      /\ \A b \in 1..MaxFeeds : feed'[b].ent # built'
                      /\ rq'[p].pc = "built" =>
                           /\ row' = None /\ built' = 1
                           /\ \A o \in Requests \ {p} : rq'[o].pc \in {"idle", "miss"}
    BY Zenon DEF UnregisteredInv
  <1>1. p # q /\ rq'[p] = rq[p] /\ rq[p].pc \in {"resumed", "built"}
    OBVIOUS
  <1>2. /\ entry = 0 /\ rq[p].ent = built /\ built # 0 /\ sweeper.ent # built
        /\ \A o \in Requests \ {p} : rq[o].ent # built
        /\ \A b \in 1..MaxFeeds : feed[b].ent # built
    BY Zenon, <1>1 DEF UnregisteredInv
  <1>3. rq[p].pc = "built" => /\ row = None /\ built = 1
                              /\ \A o \in Requests \ {p} : rq[o].pc \in {"idle", "miss"}
    BY Zenon, <1>1 DEF UnregisteredInv
  <1> QED
    BY <1>1, <1>2, <1>3

\* A request that only looks up, waits, amends an ACL or leaves keeps the invariant.
LEMMA RequestMoves ==
  ASSUME Serving, RegistryInv, NEW q \in Requests, NEW r \in RequestRecord, Set(q, r),
         UNCHANGED <<entry, built, running, fed, feeds, feed, poolUp, sweeper, shutter>>,
         acl' \in ACLs \cup {None}, row' \in ACLs \cup {None},
         rq[q].pc \notin {"flight", "wait", "resumed", "built", "retire", "rowdel"},
         r.pc \notin {"resumed", "built"}, r.ent \in {0, entry, rq[q].ent},
         \/ r.pc = "flight" /\ flight = None /\ flight' = q
         \/ r.pc # "flight" /\ flight' = flight,
         row' # row => rq[q].pc = "put",
         entry = 0 /\ row = None /\ rq[q].pc \in {"idle", "miss"} => r.pc \in {"idle", "miss"},
         rq[q].pc \in {"idle", "miss"} /\ entry = 0 => r.pc \in {"idle", "miss", "flight", "wait"}
  PROVE  RegistryInv'
  <1>1. /\ rq' \in [Requests -> RequestRecord] /\ rq'[q] = r
        /\ \A p \in Requests \ {q} : rq'[p] = rq[p]
    BY Zenon, RequestSet DEF RegistryInv
  <1>2. Types'
    BY Zenon, <1>1 DEF RegistryInv, Types
  <1>3. NewestInv'
    BY <1>1, RegistryTypes DEF RegistryInv, NewestInv
  <1>4. FlightInv'
    <2>1. \A p \in Requests : rq'[p].pc \in {"flight", "resumed"} => flight' = p
      BY <1>1 DEF RegistryInv, FlightInv, Serving
    <2>2. ASSUME built = 0
          PROVE  \A p \in Requests : /\ rq'[p].pc \in {"idle", "miss", "flight", "wait"}
                                     /\ row' = None => rq'[p].pc \in {"idle", "miss"}
      <3>1. entry = 0 /\ rq[q].pc \in {"idle", "miss"} /\ row' = row
        BY <2>2, RegistryTypes DEF RegistryInv, FlightInv
      <3> QED
        BY Zenon, <1>1, <2>2, <3>1 DEF RegistryInv, FlightInv
    <2> QED
      BY Zenon, <2>1, <2>2 DEF FlightInv
  <1>5. UnregisteredInv'
    <2>1. sweeper' = sweeper /\ \A b \in 1..MaxFeeds : feed'[b].ent = feed[b].ent
      OBVIOUS
    <2> QED
      BY Zenon, <1>1, <2>1, UnregisteredKeeps DEF RegistryInv
  <1>6. EvictInv' /\ ClosedInv'
    BY Zenon DEF RegistryInv, EvictInv, ClosedInv, PoolQuiesces
  <1>7. AgentsAccounted'
    BY <1>1 DEF RegistryInv, AgentsAccounted
  <1>8. LiveStreamKept'
    BY <1>1 DEF RegistryInv, LiveStreamKept
  <1> QED
    BY Zenon, <1>2, <1>3, <1>4, <1>5, <1>6, <1>7, <1>8 DEF RegistryInv

\* A lookup, a gate, a wait for the old broadcaster, an amendment.
LEMMA QuietRequests ==
  ASSUME Serving, RegistryInv, NEW q \in Requests,
         \/ \E kind \in Kinds, c \in Callers : lookupGated(q, kind, c)
         \/ Gate(q) \/ Swapped(q)
         \/ doSetSessionACL(q) \/ SetACLPut(q) \/ setACL(q)
  PROVE  RegistryInv'
  <1> USE DEF registry, pool
  <1>0. /\ rq[q] \in RequestRecord /\ entry \in 0..MaxBuilt /\ entry <= built /\ row \in ACLs \cup {None}
        /\ acl \in ACLs \cup {None}
    BY DEF RegistryInv, Types, RequestRecord, Serving
  <1>1. ASSUME NEW kind \in Kinds, NEW c \in Callers, lookupGated(q, kind, c)
        PROVE  RegistryInv'
    <2> DEFINE r == [Idle EXCEPT !.kind = kind, !.who = c, !.pc = "miss"]
               w == IF entry = 0 THEN r ELSE authorize(r, entry, acl)
    <2>1. r \in RequestRecord /\ r.pc = "miss" /\ r.ent = 0
      BY Zenon, IdleRequest DEF RequestRecord
    <2>2. /\ rq[q].pc = "idle" /\ Set(q, w)
          /\ UNCHANGED <<entry, acl, row, built, running, flight, fed, feeds, feed, poolUp, sweeper, shutter>>
      BY Zenon, <1>1, IdleRequest DEF lookupGated
    <2> HIDE DEF r
    <2>3. /\ w \in RequestRecord /\ w.ent \in {0, entry} /\ w.pc \in {"miss", "idle", "have"}
          /\ entry = 0 => w.pc = "miss"
      BY <1>0, <2>1, Authorized
    <2> HIDE DEF w
    <2> QED
      BY Zenon, <1>0, <2>2, <2>3, RequestMoves
  <1>2. CASE Gate(q)
    <2>1. /\ rq[q].pc = "miss"
          /\ UNCHANGED <<entry, acl, row, built, running, fed, feeds, feed, poolUp, sweeper, shutter>>
      BY Zenon, <1>2 DEF Gate
    <2>2. CASE Done(q) /\ UNCHANGED flight
      BY Zenon, <1>0, <2>1, <2>2, IdleRequest, RequestMoves DEF Done
    <2>3. CASE row # None /\ flight = None /\ flight' = q
               /\ Set(q, [rq[q] EXCEPT !.pc = "flight", !.saw = row])
      <3> DEFINE r == [rq[q] EXCEPT !.pc = "flight", !.saw = row]
      <3>1. r \in RequestRecord /\ r.pc = "flight" /\ r.ent = rq[q].ent
        BY Zenon, <1>0 DEF RequestRecord
      <3> HIDE DEF r
      <3>2. Set(q, r)
        BY Zenon, <2>3 DEF r
      <3> QED
        BY Zenon, <1>0, <2>1, <2>3, <3>1, <3>2, RequestMoves
    <2>4. CASE row # None /\ UNCHANGED flight /\ Goto(q, "wait")
      <3> DEFINE r == [rq[q] EXCEPT !.pc = "wait"]
      <3>1. r \in RequestRecord /\ r.pc = "wait" /\ r.ent = rq[q].ent
        BY Zenon, <1>0 DEF RequestRecord
      <3> HIDE DEF r
      <3>2. Set(q, r)
        BY Zenon, <2>4 DEF r, Goto
      <3> QED
        BY Zenon, <1>0, <2>1, <2>4, <3>1, <3>2, RequestMoves
    <2> QED
      BY Zenon, <1>2, <2>2, <2>3, <2>4 DEF Gate, resumeGate
  <1>3. CASE Swapped(q)
    BY Zenon, <1>0, <1>3, IdleRequest, RequestMoves DEF Swapped, Done
  <1>4. CASE doSetSessionACL(q)
    <2>1. /\ rq[q].pc = "have"
          /\ UNCHANGED <<entry, acl, row, built, running, flight, fed, feeds, feed, poolUp, sweeper, shutter>>
      BY Zenon, <1>4 DEF doSetSessionACL
    <2>2. CASE Done(q)
      BY Zenon, <1>0, <2>1, <2>2, IdleRequest, RequestMoves DEF Done
    <2>3. ASSUME NEW a \in Amendments,
                 Set(q, [rq[q] EXCEPT !.pc = "put", !.ent = entry, !.saw = a])
          PROVE  RegistryInv'
      <3> DEFINE r == [rq[q] EXCEPT !.pc = "put", !.ent = entry, !.saw = a]
      <3>1. r \in RequestRecord /\ r.pc = "put" /\ r.ent = entry
        BY Zenon, <1>0 DEF RequestRecord, Serving
      <3> HIDE DEF r
      <3>2. Set(q, r)
        BY Zenon, <2>3 DEF r
      <3> QED
        BY Zenon, <1>0, <2>1, <3>1, <3>2, RequestMoves
    <2> QED
      BY Zenon, <1>4, <2>2, <2>3 DEF doSetSessionACL
  <1>5. CASE SetACLPut(q)
    <2>1. /\ rq[q].pc = "put"
          /\ UNCHANGED <<entry, acl, built, running, flight, fed, feeds, feed, poolUp, sweeper, shutter>>
      BY Zenon, <1>5 DEF SetACLPut
    <2>2. CASE Done(q) /\ UNCHANGED row
      BY Zenon, <1>0, <2>1, <2>2, IdleRequest, RequestMoves DEF Done
    <2>3. CASE row' = rq[q].saw /\ Goto(q, "set")
      <3> DEFINE r == [rq[q] EXCEPT !.pc = "set"]
      <3>1. r \in RequestRecord /\ r.pc = "set" /\ r.ent = rq[q].ent /\ rq[q].saw \in ACLs \cup {None}
        BY Zenon, <1>0 DEF RequestRecord
      <3> HIDE DEF r
      <3>2. Set(q, r)
        BY Zenon, <2>3 DEF r, Goto
      <3> QED
        BY Zenon, <1>0, <2>1, <2>3, <3>1, <3>2, RequestMoves
    <2> QED
      BY Zenon, <1>5, <2>2, <2>3 DEF SetACLPut
  <1>6. CASE setACL(q)
    <2>1. rq[q].saw \in ACLs \cup {None}
      BY Zenon, <1>0 DEF RequestRecord
    <2> QED
      BY Zenon, <1>0, <1>6, <2>1, IdleRequest, RequestMoves DEF setACL, Done
  <1> QED
    BY Zenon, <1>1, <1>2, <1>3, <1>4, <1>5, <1>6

\* A flight that lands on what is registered, or on nothing, and one that builds.
LEMMA ResumeKeeps == ASSUME Serving, RegistryInv, NEW q \in Requests, Resume(q) PROVE RegistryInv'
  <1> USE DEF pool
  <1>0. /\ rq[q].pc = "flight" /\ rq[q] \in RequestRecord /\ entry \in 0..MaxBuilt /\ entry <= built /\ flight = q
        /\ UNCHANGED <<entry, acl, row, fed, feeds, feed, poolUp, sweeper, shutter>>
    BY DEF RegistryInv, Types, RequestRecord, Serving, FlightInv, Resume
  <1>1. CASE /\ flight' = None /\ UNCHANGED <<built, running>>
             /\ (entry # 0 /\ Land(entry, acl)) \/ (entry = 0 /\ Land(0, None))
    <2>1. PICK n \in {0, entry}, a \in {acl, None} : Land(n, a)
      BY Zenon, <1>1
    <2>2. /\ rq' \in [Requests -> RequestRecord]
          /\ \A p \in Requests : rq[p].pc \in {"flight", "resumed", "wait"} =>
               \/ rq'[p].pc = "have" /\ rq'[p].ent = n /\ n # 0
               \/ rq'[p].pc = "idle" /\ rq'[p].ent = 0
          /\ \A p \in Requests : rq[p].pc \notin {"flight", "resumed", "wait"} => rq'[p] = rq[p]
      BY <1>0, <2>1, Landed DEF RegistryInv, Serving
    <2>3. \A p \in Requests : rq[p].pc \notin {"resumed", "built"}
      BY Zenon, <1>0 DEF RegistryInv, FlightInv, UnregisteredInv
    <2>4. Types'
      BY Zenon, <1>0, <1>1, <2>2 DEF RegistryInv, Types
    <2>10. NewestInv'
      BY <1>0, <1>1, <2>2 DEF RegistryInv, Types, NewestInv
    <2>5. FlightInv'
      <3>1. built = 0 => n = 0
        BY <1>0 DEF RegistryInv, Types
      <3> QED
        BY Zenon, <1>0, <1>1, <2>2, <2>3, <3>1 DEF RegistryInv, FlightInv
    <2>6. UnregisteredInv'
      BY Zenon, <2>2, <2>3 DEF UnregisteredInv
    <2>7. EvictInv' /\ ClosedInv'
      BY Zenon, <1>0 DEF RegistryInv, EvictInv, ClosedInv, PoolQuiesces
    <2>8. AgentsAccounted'
      BY <1>0, <1>1, <2>2, <2>3 DEF RegistryInv, AgentsAccounted
    <2>9. LiveStreamKept'
      BY <1>0, <1>1, <2>2 DEF RegistryInv, LiveStreamKept
    <2> QED
      BY Zenon, <2>4, <2>5, <2>6, <2>7, <2>8, <2>9, <2>10 DEF RegistryInv
  <1>2. CASE /\ entry = 0 /\ built < MaxBuilt /\ built' = built + 1 /\ running' = running \cup {built'}
             /\ Set(q, [rq[q] EXCEPT !.pc = "resumed", !.ent = built']) /\ UNCHANGED flight
    <2> DEFINE r == [rq[q] EXCEPT !.pc = "resumed", !.ent = built']
    <2>1. built \in Nat /\ built' \in 0..MaxBuilt
      BY <1>2 DEF RegistryInv, Types, Serving
    <2>2. r \in RequestRecord /\ r.pc = "resumed" /\ r.ent = built'
      BY Zenon, <1>0, <2>1 DEF RequestRecord
    <2>3. Set(q, r)
      BY Zenon, <1>2
    <2> HIDE DEF r
    <2>4. /\ rq' \in [Requests -> RequestRecord] /\ rq'[q] = r
          /\ \A p \in Requests \ {q} : rq'[p] = rq[p]
      BY Zenon, <2>2, <2>3, RequestSet DEF RegistryInv
    <2>5. Types'
      BY <1>0, <1>2, <2>1, <2>4 DEF RegistryInv, Types
    <2>11. NewestInv'
      BY <1>0, <1>2, <2>1, <2>2, <2>4, RegistryTypes DEF RegistryInv, NewestInv
    <2>6. FlightInv'
      BY <1>0, <1>2, <2>1, <2>2, <2>4 DEF RegistryInv, FlightInv
    <2>7. UnregisteredInv'
      <3>1. \A p \in Requests \ {q} : rq'[p].pc \notin {"resumed", "built"}
        BY <1>0, <2>4 DEF RegistryInv, FlightInv, UnregisteredInv
      <3>2. /\ sweeper'.ent # built' /\ \A p \in Requests \ {q} : rq'[p].ent # built'
            /\ \A b \in 1..MaxFeeds : feed'[b].ent # built'
        BY <1>0, <1>2, <2>1, <2>4 DEF RegistryInv, NewestInv, Types, RequestRecord
      <3> QED
        BY <1>0, <1>2, <2>1, <2>2, <2>4, <3>1, <3>2 DEF UnregisteredInv
    <2>8. EvictInv' /\ ClosedInv'
      BY <1>0 DEF RegistryInv, EvictInv, ClosedInv, PoolQuiesces
    <2>9. AgentsAccounted'
      BY <1>0, <1>2, <2>2, <2>4 DEF RegistryInv, AgentsAccounted
    <2>10. LiveStreamKept'
      BY Zenon, <1>0, <1>2 DEF RegistryInv, LiveStreamKept
    <2> QED
      BY Zenon, <2>5, <2>6, <2>7, <2>8, <2>9, <2>10, <2>11 DEF RegistryInv
  <1>3. \/ entry # 0 /\ Land(entry, acl) /\ flight' = None /\ UNCHANGED <<built, running>>
        \/ entry = 0 /\ Land(0, None) /\ flight' = None /\ UNCHANGED <<built, running>>
        \/ /\ entry = 0 /\ built < MaxBuilt /\ built' = built + 1 /\ running' = running \cup {built'}
           /\ Set(q, [rq[q] EXCEPT !.pc = "resumed", !.ent = built']) /\ UNCHANGED flight
    BY Zenon DEF Resume
  <1> QED
    BY Zenon, <1>1, <1>2, <1>3

\* The agent a flight built is registered: nothing was registered meanwhile, so
\* nobody's agent is lost and no stream of the new entry exists yet.
LEMMA RegisterKeeps ==
  ASSUME Serving, RegistryInv, NEW q \in Requests, registerResumed(q)
  PROVE  RegistryInv'
  <1> USE DEF pool
  <1>0. /\ rq[q].pc = "resumed" /\ flight' = None
        /\ UNCHANGED <<row, built, running, fed, feeds, feed, poolUp, sweeper, shutter>>
    BY Zenon DEF registerResumed
  <1>1. /\ entry = 0 /\ rq[q].ent = built /\ built # 0 /\ sweeper.ent # built
        /\ \A b \in 1..MaxFeeds : feed[b].ent # built
    BY Zenon, <1>0 DEF RegistryInv, UnregisteredInv
  <1>2. \A p \in Requests \ {q} : rq[p].pc \notin {"resumed", "built"}
    BY Zenon, <1>0 DEF RegistryInv, UnregisteredInv, FlightInv
  <1>3. entry' = built /\ acl' = rq[q].saw /\ Land(built, rq[q].saw)
    BY Zenon, <1>1 DEF registerResumed
  <1>4. /\ built \in 0..MaxBuilt /\ rq[q].saw \in ACLs \cup {None}
        /\ \A b \in 1..feeds : b \in 1..MaxFeeds
    BY RegistryTypes DEF RegistryInv, RequestRecord, Serving
  <1>5. /\ rq' \in [Requests -> RequestRecord]
        /\ \A p \in Requests : rq[p].pc \in {"flight", "resumed", "wait"} =>
             \/ rq'[p].pc = "have" /\ rq'[p].ent = built
             \/ rq'[p].pc = "idle" /\ rq'[p].ent = 0
        /\ \A p \in Requests : rq[p].pc \notin {"flight", "resumed", "wait"} => rq'[p] = rq[p]
    BY Zenon, <1>3, <1>4, Landed DEF RegistryInv
  <1>6. Types'
    BY <1>0, <1>3, <1>4, <1>5 DEF RegistryInv, Types
  <1>7. NewestInv'
    BY <1>0, <1>3, <1>5, RegistryTypes DEF RegistryInv, NewestInv
  <1>8. FlightInv' /\ UnregisteredInv'
    BY <1>0, <1>1, <1>2, <1>5 DEF FlightInv, UnregisteredInv
  <1>9. EvictInv' /\ ClosedInv'
    BY Zenon, <1>0, <1>1, <1>3 DEF RegistryInv, EvictInv, ClosedInv, PoolQuiesces
  <1>10. AgentsAccounted'
    <2> SUFFICES ASSUME NEW n \in running, n # built
                 PROVE  \/ sweeper.pc = "hook" /\ sweeper.ent = n
                        \/ \E p \in Requests : rq'[p].pc \in {"resumed", "built", "rowdel"} /\ rq'[p].ent = n
      BY <1>0, <1>3 DEF AgentsAccounted
    <2>1. n # 0
      BY RegistryTypes DEF RegistryInv
    <2> QED
      BY <1>1, <1>2, <1>5, <2>1 DEF RegistryInv, AgentsAccounted
  <1>11. LiveStreamKept'
    BY Zenon, <1>0, <1>1, <1>3, <1>4 DEF LiveStreamKept
  <1> QED
    BY Zenon, <1>6, <1>7, <1>8, <1>9, <1>10, <1>11 DEF RegistryInv

\* A POST builds the first agent, then registers it under its row or cancels it.
LEMMA CreateKeeps ==
  ASSUME Serving, RegistryInv, NEW q \in Requests, createSession(q) \/ registerWithACL(q)
  PROVE  RegistryInv'
  <1> USE DEF pool
  <1>1. CASE createSession(q)
    <2> DEFINE r == [rq[q] EXCEPT !.pc = "built", !.ent = 1]
    <2>1. /\ rq[q] \in RequestRecord /\ row = None /\ built = 0 /\ built' = 1 /\ running' = {1}
          /\ Set(q, r)
          /\ UNCHANGED <<entry, acl, row, flight, fed, feeds, feed, poolUp, sweeper, shutter>>
      BY Zenon, <1>1, RegistryTypes DEF createSession, RegistryInv
    <2>2. r \in RequestRecord /\ r.pc = "built" /\ r.ent = 1
      <3>1. 1 \in 0..MaxBuilt
        BY DEF Serving
      <3> QED
        BY Zenon, <2>1, <3>1 DEF RequestRecord
    <2> HIDE DEF r
    <2>3. /\ rq' \in [Requests -> RequestRecord] /\ rq'[q] = r
          /\ \A p \in Requests \ {q} : rq'[p] = rq[p]
      BY Zenon, <2>1, <2>2, RequestSet DEF RegistryInv
    <2>4. /\ \A p \in Requests \ {q} : rq[p].pc \in {"idle", "miss"} /\ rq[p].ent = 0
          /\ entry = 0 /\ sweeper.ent = 0 /\ \A b \in 1..MaxFeeds : feed[b].ent = 0
      BY <2>1, RegistryTypes DEF RegistryInv, FlightInv, NewestInv
    <2>5. Types'
      BY <2>1, <2>3, <2>4 DEF RegistryInv, Types, Serving
    <2>6. NewestInv'
      BY <2>1, <2>2, <2>3, <2>4 DEF NewestInv
    <2>7. FlightInv' /\ UnregisteredInv'
      BY <2>1, <2>2, <2>3, <2>4 DEF FlightInv, UnregisteredInv
    <2>8. EvictInv' /\ ClosedInv'
      BY <2>1 DEF RegistryInv, EvictInv, ClosedInv, PoolQuiesces
    <2>9. AgentsAccounted'
      BY <2>1, <2>2, <2>3 DEF AgentsAccounted
    <2>10. LiveStreamKept'
      BY <2>1, <2>4 DEF LiveStreamKept
    <2> QED
      BY Zenon, <2>5, <2>6, <2>7, <2>8, <2>9, <2>10 DEF RegistryInv
  <1>2. CASE registerWithACL(q)
    <2>1. /\ rq[q].pc = "built" /\ Set(q, Idle)
          /\ UNCHANGED <<built, flight, fed, feeds, feed, poolUp, sweeper, shutter>>
      BY <1>2 DEF registerWithACL, Done
    <2>2. /\ rq' \in [Requests -> RequestRecord] /\ rq'[q].pc = "idle" /\ rq'[q].ent = 0
          /\ \A p \in Requests \ {q} : rq'[p] = rq[p]
      BY <2>1, IdleRequest, RequestSet DEF RegistryInv
    <2>3. /\ entry = 0 /\ rq[q].ent = 1 /\ built = 1 /\ sweeper.ent # 1 /\ row = None
          /\ \A p \in Requests \ {q} : rq[p].pc \in {"idle", "miss"}
          /\ \A b \in 1..MaxFeeds : feed[b].ent # 1
      BY <2>1 DEF RegistryInv, UnregisteredInv
    <2>4. /\ \A b \in 1..feeds : b \in 1..MaxFeeds
          /\ [owner |-> rq[q].who, viewers |-> {}, contributors |-> {}] \in ACLs
      BY RegistryTypes DEF RegistryInv, RequestRecord, Serving, ACLs
    <2>5. /\ entry' \in {0, 1} /\ acl' \in ACLs \cup {None} /\ row' \in ACLs \cup {None}
          /\ running' \subseteq running /\ (entry' = 1 \/ 1 \notin running')
      BY Zenon, <1>2, <2>3, <2>4, RegistryTypes DEF registerWithACL, RegistryInv
    <2>6. Types'
      BY <2>1, <2>2, <2>3, <2>5 DEF RegistryInv, Types
    <2>7. NewestInv'
      BY <2>1, <2>2, <2>3, <2>5 DEF RegistryInv, NewestInv
    <2>8. FlightInv' /\ UnregisteredInv'
      BY <2>1, <2>2, <2>3 DEF FlightInv, UnregisteredInv
    <2>9. EvictInv' /\ ClosedInv'
      BY <2>1, <2>3, <2>5 DEF RegistryInv, EvictInv, ClosedInv, PoolQuiesces
    <2>10. AgentsAccounted'
      <3>1. \A n \in running : n = 1
        BY <2>3, RegistryTypes DEF RegistryInv, Types
      <3> QED
        BY <2>5, <3>1 DEF AgentsAccounted
    <2>11. LiveStreamKept'
      BY Zenon, <2>1, <2>3, <2>4, <2>5 DEF LiveStreamKept
    <2> QED
      BY Zenon, <2>6, <2>7, <2>8, <2>9, <2>10, <2>11 DEF RegistryInv
  <1> QED
    BY Zenon, <1>1, <1>2

\* Only the broadcaster bound to this very entry is retired.
LEMMA Retired ==
  ASSUME Serving, Types, NEW n, NEW b \in 0..MaxFeeds, Retire(n, b)
  PROVE  /\ feed' \in [1..MaxFeeds -> FeedRecord] /\ fed' \in {0, fed}
         /\ \A x \in 1..MaxFeeds : /\ feed'[x].ent = feed[x].ent
                                   /\ \/ feed'[x] = feed[x]
                                      \/ x = b /\ feed[x].ent = n /\ poolUp
  <1>1. /\ feed \in [1..MaxFeeds -> FeedRecord]
        /\ fed # 0 => fed \in 1..MaxFeeds
    BY DEF Types, FeedRecord, Serving
  <1>2. CASE poolUp /\ fed # 0 /\ feed[fed].ent = n
    <2> DEFINE r == [feed[fed] EXCEPT !.st = "closing"]
    <2>1. r \in FeedRecord /\ r.ent = feed[fed].ent
      BY <1>1, <1>2 DEF FeedRecord
    <2>2. b = fed /\ fed' = 0 /\ feed' = [feed EXCEPT ![fed] = r]
      BY <1>2 DEF Retire, Closing
    <2> HIDE DEF r
    <2> QED
      BY <1>1, <1>2, <2>1, <2>2
  <1>3. CASE ~(poolUp /\ fed # 0 /\ feed[fed].ent = n)
    BY Zenon, <1>1, <1>3 DEF Retire
  <1> QED
    BY Zenon, <1>2, <1>3

\* A stream is handed the pooled broadcaster, or a new one that replaces an older
\* entry's: never the registered entry's, which is the newest.
LEMMA ForKeeps == ASSUME Serving, RegistryInv, NEW q \in Requests, For(q) PROVE RegistryInv'
  <1> USE DEF registry, pool
  <1> DEFINE n == rq[q].ent
  <1>0. /\ rq[q].pc = "have" /\ rq[q] \in RequestRecord /\ n \in 0..MaxBuilt /\ n <= built
        /\ UNCHANGED <<entry, acl, row, built, running, flight, sweeper, shutter>>
    BY Zenon, RegistryTypes DEF For, RegistryInv, NewestInv, RequestRecord
  <1>1. CASE Done(q) /\ UNCHANGED <<fed, feeds, feed, poolUp>>
    BY Zenon, <1>0, <1>1, IdleRequest, RequestMoves, RegistryTypes DEF Done, RegistryInv
  <1>2. ASSUME poolUp, fed = 0 \/ ~(n <= feed[fed].ent), newBroadcaster(n), UNCHANGED poolUp,
               feed' = [b \in 1..MaxFeeds |-> CASE b = feeds' -> [ent |-> n, st |-> "up"]
                                                [] b = fed -> [feed[b] EXCEPT !.st = "closing"]
                                                [] OTHER -> feed[b]],
               IF fed = 0 THEN Done(q) ELSE Set(q, [rq[q] EXCEPT !.pc = "swap", !.on = fed])
        PROVE  RegistryInv'
    <2>1. /\ feeds \in Nat /\ fed \in 0..feeds /\ feeds < MaxFeeds /\ feeds' = feeds + 1 /\ fed' = feeds'
          /\ feeds' \in 1..MaxFeeds /\ fed \in 0..MaxFeeds /\ fed # feeds' /\ (fed # 0 => fed \in 1..MaxFeeds)
      BY <1>2 DEF newBroadcaster, RegistryInv, Types, Serving
    <2>2. /\ feed' \in [1..MaxFeeds -> FeedRecord]
          /\ feed'[feeds'].ent = n /\ feed'[feeds'].st = "up"
          /\ fed # 0 => feed'[fed].ent = feed[fed].ent /\ feed[fed].ent < n
          /\ \A b \in 1..MaxFeeds \ {feeds', fed} : feed'[b] = feed[b]
      <3> DEFINE up == [ent |-> n, st |-> "up"]
                 old(b) == [feed[b] EXCEPT !.st = "closing"]
      <3>1. up \in FeedRecord /\ up.ent = n /\ up.st = "up"
        BY <1>0 DEF FeedRecord
      <3>2. \A b \in 1..MaxFeeds : /\ feed[b] \in FeedRecord /\ old(b) \in FeedRecord
                                   /\ old(b).ent = feed[b].ent /\ feed[b].ent \in Nat
        BY RegistryTypes DEF RegistryInv, FeedRecord
      <3>3. feed' = [b \in 1..MaxFeeds |-> CASE b = feeds' -> up [] b = fed -> old(b) [] OTHER -> feed[b]]
        BY Zenon, <1>2
      <3> HIDE DEF up, old
      <3> QED
        BY <1>0, <1>2, <2>1, <3>1, <3>2, <3>3
    <2>3. PICK r \in RequestRecord : Set(q, r) /\ r.ent \in {0, n} /\ r.pc \in {"idle", "swap"}
      <3> DEFINE w == [rq[q] EXCEPT !.pc = "swap", !.on = fed]
      <3>1. w \in RequestRecord /\ w.ent = n /\ w.pc = "swap"
        BY Zenon, <1>0, <2>1 DEF RequestRecord
      <3> HIDE DEF w
      <3>2. Set(q, Idle) \/ Set(q, w)
        BY Zenon, <1>2 DEF Done, w
      <3> QED
        BY <3>1, <3>2, IdleRequest
    <2>4. /\ rq' \in [Requests -> RequestRecord] /\ rq'[q] = r
          /\ \A p \in Requests \ {q} : rq'[p] = rq[p]
      BY Zenon, <2>3, RequestSet DEF RegistryInv
    <2>5. Types'
      <3>1. feeds' \in 0..MaxFeeds /\ fed' \in 0..feeds' /\ poolUp' \in BOOLEAN
        BY <1>2, <2>1 DEF RegistryInv, Types
      <3> QED
        BY Zenon, <1>0, <2>2, <2>4, <3>1 DEF RegistryInv, Types
    <2>6. NewestInv'
      BY <1>0, <2>1, <2>2, <2>3, <2>4, RegistryTypes DEF RegistryInv, NewestInv
    <2>7. FlightInv'
      BY Zenon, <1>0, <2>3, <2>4 DEF RegistryInv, FlightInv
    <2>8. UnregisteredInv'
      <3>1. \A b \in 1..MaxFeeds : feed'[b].ent \in {n, feed[b].ent}
        BY <2>1, <2>2
      <3> QED
        BY Zenon, <1>0, <2>3, <2>4, <3>1, UnregisteredKeeps DEF RegistryInv
    <2>9. EvictInv' /\ ClosedInv'
      BY Zenon, <1>0, <1>2 DEF RegistryInv, EvictInv, ClosedInv, PoolQuiesces
    <2>10. AgentsAccounted'
      BY <1>0, <2>4 DEF RegistryInv, AgentsAccounted
    <2>11. LiveStreamKept'
      <3> SUFFICES ASSUME NEW b \in 1..feeds', entry # 0, feed'[b].ent = entry, feed'[b].st # "up"
                   PROVE  \E p \in Requests : rq'[p].pc = "retire" /\ rq'[p].on = b
        BY <1>0 DEF LiveStreamKept
      <3>1. b \in 1..MaxFeeds /\ b # feeds' /\ b \in 1..feeds
        BY <2>1, <2>2 DEF Serving
      <3>2. b # fed
        BY <1>0, <2>1, <2>2, <3>1, RegistryTypes DEF RegistryInv, NewestInv
      <3>3. feed'[b] = feed[b]
        BY Zenon, <2>2, <3>1, <3>2
      <3>4. PICK p \in Requests : rq[p].pc = "retire" /\ rq[p].on = b
        BY Zenon, <1>2, <3>1, <3>3 DEF RegistryInv, LiveStreamKept
      <3> QED
        BY Zenon, <1>0, <2>4, <3>4
    <2> QED
      BY Zenon, <2>5, <2>6, <2>7, <2>8, <2>9, <2>10, <2>11 DEF RegistryInv
  <1> QED
    BY Zenon, <1>1, <1>2 DEF For

\* A DELETE hangs the session's stream up, then takes the entry, then cancels the
\* agent whose entry it took.
LEMMA DeleteKeeps ==
  ASSUME Serving, RegistryInv, NEW q \in Requests,
         doDeleteSession(q) \/ HardDelete(q) \/ DeleteRow(q)
  PROVE  RegistryInv'
  <1> USE DEF registry, pool
  <1>0. rq[q] \in RequestRecord /\ entry \in 0..MaxBuilt /\ \A b \in 1..feeds : b \in 1..MaxFeeds
    BY RegistryTypes DEF RegistryInv, Serving
  <1>1. CASE doDeleteSession(q)
    <2>1. PICK b \in 0..MaxFeeds : /\ Retire(rq[q].ent, b)
                                   /\ Set(q, [rq[q] EXCEPT !.pc = "retire", !.on = b])
      BY Zenon, <1>1 DEF doDeleteSession
    <2>2. /\ rq[q].pc = "have"
          /\ UNCHANGED <<entry, acl, row, built, running, flight, feeds, poolUp, sweeper, shutter>>
      BY Zenon, <1>1 DEF doDeleteSession
    <2> DEFINE r == [rq[q] EXCEPT !.pc = "retire", !.on = b]
    <2>3. r \in RequestRecord /\ r.pc = "retire" /\ r.on = b /\ r.ent = rq[q].ent
      BY Zenon, <1>0 DEF RequestRecord
    <2> HIDE DEF r
    <2>4. /\ rq' \in [Requests -> RequestRecord] /\ rq'[q] = r
          /\ \A p \in Requests \ {q} : rq'[p] = rq[p]
      BY Zenon, <2>1, <2>3, RequestSet DEF RegistryInv, r
    <2>5. /\ feed' \in [1..MaxFeeds -> FeedRecord] /\ fed' \in {0, fed}
          /\ \A x \in 1..MaxFeeds : /\ feed'[x].ent = feed[x].ent
                                    /\ feed'[x] = feed[x] \/ (x = b /\ poolUp)
      BY <2>1, Retired DEF RegistryInv
    <2>6. Types'
      <3>1. fed' \in 0..feeds
        BY <2>5, RegistryTypes DEF RegistryInv
      <3> QED
        BY Zenon, <2>2, <2>4, <2>5, <3>1 DEF RegistryInv, Types
    <2>7. NewestInv' /\ FlightInv'
      BY Zenon, <2>2, <2>3, <2>4, <2>5 DEF RegistryInv, NewestInv, FlightInv
    <2>8. UnregisteredInv'
      BY Zenon, <2>2, <2>3, <2>4, <2>5, UnregisteredKeeps DEF RegistryInv
    <2>9. EvictInv' /\ ClosedInv'
      BY Zenon, <1>0, <2>2, <2>5 DEF RegistryInv, EvictInv, ClosedInv, PoolQuiesces
    <2>10. AgentsAccounted'
      BY <2>2, <2>4 DEF RegistryInv, AgentsAccounted
    <2>11. LiveStreamKept'
      <3> SUFFICES ASSUME NEW x \in 1..feeds, entry # 0 /\ feed'[x].ent = entry /\ feed'[x].st # "up", poolUp
                   PROVE  \E p \in Requests : rq'[p].pc = "retire" /\ rq'[p].on = x
        BY Zenon, <2>2 DEF LiveStreamKept
      <3>1. CASE feed'[x] = feed[x]
        <4>1. PICK p \in Requests : rq[p].pc = "retire" /\ rq[p].on = x
          BY Zenon, <3>1 DEF RegistryInv, LiveStreamKept
        <4>2. p # q
          BY Zenon, <2>2, <4>1
        <4> QED
          BY Zenon, <2>4, <4>1, <4>2
      <3>2. CASE x = b
        BY Zenon, <2>3, <2>4, <3>2
      <3> QED
        BY Zenon, <1>0, <2>5, <3>1, <3>2
    <2> QED
      BY Zenon, <2>6, <2>7, <2>8, <2>9, <2>10, <2>11 DEF RegistryInv
  <1>2. CASE HardDelete(q)
    <2> DEFINE r == [rq[q] EXCEPT !.pc = "rowdel", !.ent = entry, !.on = 0]
    <2>1. /\ rq[q].pc = "retire" /\ entry' = 0 /\ acl' = None /\ Set(q, r)
          /\ UNCHANGED <<row, built, running, flight, fed, feeds, feed, poolUp, sweeper, shutter>>
      BY Zenon, <1>2 DEF HardDelete
    <2>2. r \in RequestRecord /\ r.pc = "rowdel" /\ r.ent = entry
      <3>1. 0 \in 0..MaxFeeds
        BY DEF Serving
      <3> QED
        BY Zenon, <1>0, <3>1 DEF RequestRecord
    <2> HIDE DEF r
    <2>3. /\ rq' \in [Requests -> RequestRecord] /\ rq'[q] = r
          /\ \A p \in Requests \ {q} : rq'[p] = rq[p]
      BY Zenon, <2>1, <2>2, RequestSet DEF RegistryInv
    <2>4. Types'
      BY <2>1, <2>3 DEF RegistryInv, Types
    <2>5. NewestInv' /\ FlightInv'
      BY Zenon, <2>1, <2>2, <2>3, RegistryTypes DEF RegistryInv, NewestInv, FlightInv
    <2>6. UnregisteredInv'
      <3>1. sweeper'.ent = sweeper.ent /\ \A b \in 1..MaxFeeds : feed'[b].ent = feed[b].ent
        BY Zenon, <2>1
      <3> QED
        BY Zenon, <2>1, <2>2, <2>3, <3>1, UnregisteredKeeps DEF RegistryInv
    <2>7. EvictInv' /\ ClosedInv'
      BY Zenon, <2>1 DEF RegistryInv, EvictInv, ClosedInv, PoolQuiesces
    <2>8. AgentsAccounted'
      BY <2>1, <2>2, <2>3 DEF RegistryInv, AgentsAccounted
    <2>9. LiveStreamKept'
      BY <2>1 DEF LiveStreamKept
    <2> QED
      BY Zenon, <2>4, <2>5, <2>6, <2>7, <2>8, <2>9 DEF RegistryInv
  <1>3. CASE DeleteRow(q)
    <2>1. /\ rq[q].pc = "rowdel" /\ running' = running \ {rq[q].ent} /\ row' \in {None, row}
          /\ Set(q, Idle)
          /\ UNCHANGED <<entry, acl, built, flight, fed, feeds, feed, poolUp, sweeper, shutter>>
      BY Zenon, <1>3 DEF DeleteRow, Done
    <2>2. /\ rq' \in [Requests -> RequestRecord] /\ rq'[q].pc = "idle" /\ rq'[q].ent = 0
          /\ \A p \in Requests \ {q} : rq'[p] = rq[p]
      BY <2>1, IdleRequest, RequestSet DEF RegistryInv
    <2>3. Types'
      BY Zenon, <2>1, <2>2 DEF RegistryInv, Types
    <2>4. NewestInv' /\ FlightInv'
      BY <2>1, <2>2, RegistryTypes DEF RegistryInv, NewestInv, FlightInv
    <2>5. UnregisteredInv'
      <3>1. sweeper'.ent = sweeper.ent /\ \A b \in 1..MaxFeeds : feed'[b].ent = feed[b].ent
        BY Zenon, <2>1
      <3> QED
        BY Zenon, <2>1, <2>2, <3>1, UnregisteredKeeps DEF RegistryInv
    <2>6. EvictInv' /\ ClosedInv'
      BY Zenon, <2>1 DEF RegistryInv, EvictInv, ClosedInv, PoolQuiesces
    <2>7. AgentsAccounted'
      BY <2>1, <2>2 DEF RegistryInv, AgentsAccounted
    <2>8. LiveStreamKept'
      BY <2>1, <2>2 DEF RegistryInv, LiveStreamKept
    <2> QED
      BY Zenon, <2>3, <2>4, <2>5, <2>6, <2>7, <2>8 DEF RegistryInv
  <1> QED
    BY Zenon, <1>1, <1>2, <1>3

\* The drain of a broadcaster, the sweep and the end of the server leave the
\* requests alone.
LEMMA ServerKeeps ==
  ASSUME Serving, RegistryInv,
         \/ \E b \in 1..MaxFeeds : Drain(b)
         \/ EvictBefore \/ evictHook \/ SweepIdle
         \/ ServerClose \/ poolClose \/ poolClosed
  PROVE  RegistryInv'
  <1> USE DEF registry, pool, Sweeping
  <1>0. /\ feed \in [1..MaxFeeds -> FeedRecord] /\ entry \in 0..MaxBuilt
        /\ \A b \in 1..feeds : b \in 1..MaxFeeds
        /\ sweeper \in [pc : {"idle", "hook", "wait", "off"}, ent : 0..MaxBuilt, on : 0..MaxFeeds]
        /\ 0 \in 0..MaxFeeds /\ 0 \in 0..MaxBuilt /\ 0 \in 0..feeds
    BY DEF RegistryInv, Types, SweepRecord, Serving
  <1>1. ASSUME NEW b \in 1..MaxFeeds, Drain(b) PROVE RegistryInv'
    <2> DEFINE r == [feed[b] EXCEPT !.st = "down"]
    <2>1. /\ feed[b].st = "closing" /\ feed' = [feed EXCEPT ![b] = r]
          /\ UNCHANGED <<entry, acl, row, built, running, flight, fed, feeds, poolUp, rq, sweeper, shutter>>
      BY Zenon, <1>1 DEF Drain
    <2>2. r \in FeedRecord /\ r.ent = feed[b].ent /\ r.st = "down"
      BY Zenon, <1>0 DEF FeedRecord
    <2> HIDE DEF r
    <2>3. /\ feed' \in [1..MaxFeeds -> FeedRecord]
          /\ \A x \in 1..MaxFeeds : /\ feed'[x].ent = feed[x].ent
                                    /\ feed'[x] = feed[x] \/ (feed[x].st # "up" /\ feed'[x].st = "down")
      BY Zenon, <1>0, <2>1, <2>2
    <2>4. Types'
      BY Zenon, <2>1, <2>3 DEF RegistryInv, Types
    <2>5. NewestInv' /\ FlightInv' /\ EvictInv'
      BY Zenon, <2>1, <2>3 DEF RegistryInv, NewestInv, FlightInv, EvictInv
    <2>6. UnregisteredInv'
      BY <2>1, <2>3 DEF RegistryInv, UnregisteredInv
    <2>7. ClosedInv'
      BY Zenon, <1>0, <2>1, <2>3 DEF RegistryInv, ClosedInv, PoolQuiesces
    <2>8. AgentsAccounted'
      BY Zenon, <2>1 DEF RegistryInv, AgentsAccounted
    <2>9. LiveStreamKept'
      BY <1>0, <2>1, <2>3 DEF RegistryInv, LiveStreamKept
    <2> QED
      BY Zenon, <2>4, <2>5, <2>6, <2>7, <2>8, <2>9 DEF RegistryInv
  <1>2. CASE EvictBefore
    <2>1. /\ sweeper.pc = "idle" /\ entry # 0 /\ entry' = 0 /\ acl' = None
          /\ sweeper' = [pc |-> "hook", ent |-> entry, on |-> 0]
          /\ UNCHANGED <<row, built, running, flight, fed, feeds, feed, poolUp, rq, shutter>>
      BY Zenon, <1>2 DEF EvictBefore
    <2>2. Types'
      BY <1>0, <2>1 DEF RegistryInv, Types, SweepRecord
    <2>3. NewestInv' /\ FlightInv' /\ EvictInv' /\ UnregisteredInv'
      BY Zenon, <1>0, <2>1, RegistryTypes DEF RegistryInv, NewestInv, FlightInv, EvictInv, UnregisteredInv
    <2>4. ClosedInv' /\ LiveStreamKept'
      BY Zenon, <2>1 DEF RegistryInv, ClosedInv, PoolQuiesces, LiveStreamKept
    <2>5. AgentsAccounted'
      BY Zenon, <2>1 DEF RegistryInv, AgentsAccounted
    <2> QED
      BY Zenon, <2>2, <2>3, <2>4, <2>5 DEF RegistryInv
  <1>3. CASE evictHook
    <2>1. PICK b \in 0..MaxFeeds : /\ Retire(sweeper.ent, b)
                                   /\ sweeper' = [pc |-> "wait", ent |-> sweeper.ent, on |-> b]
      BY Zenon, <1>3 DEF evictHook
    <2>2. /\ sweeper.pc = "hook" /\ running' = running \ {sweeper.ent}
          /\ UNCHANGED <<entry, acl, row, built, flight, feeds, poolUp, rq, shutter>>
      BY Zenon, <1>3 DEF evictHook
    <2>3. /\ feed' \in [1..MaxFeeds -> FeedRecord] /\ fed' \in {0, fed}
          /\ \A x \in 1..MaxFeeds : /\ feed'[x].ent = feed[x].ent
                                    /\ feed'[x] = feed[x] \/ (feed[x].ent = sweeper.ent /\ poolUp)
      BY Zenon, <2>1, Retired DEF RegistryInv
    <2>4. Types'
      <3>1. fed' \in 0..feeds
        BY <2>3, RegistryTypes DEF RegistryInv
      <3> QED
        BY Zenon, <1>0, <2>1, <2>2, <2>3, <3>1 DEF RegistryInv, Types, SweepRecord
    <2>5. NewestInv' /\ FlightInv' /\ EvictInv'
      BY Zenon, <2>1, <2>2, <2>3 DEF RegistryInv, NewestInv, FlightInv, EvictInv
    <2>6. UnregisteredInv'
      BY <2>1, <2>2, <2>3 DEF RegistryInv, UnregisteredInv
    <2>7. ClosedInv'
      BY Zenon, <1>0, <2>2, <2>3 DEF RegistryInv, ClosedInv, PoolQuiesces
    <2>8. AgentsAccounted'
      BY Zenon, <2>1, <2>2 DEF RegistryInv, AgentsAccounted
    <2>9. LiveStreamKept'
      BY <1>0, <2>2, <2>3 DEF RegistryInv, EvictInv, LiveStreamKept
    <2> QED
      BY Zenon, <2>4, <2>5, <2>6, <2>7, <2>8, <2>9 DEF RegistryInv
  <1>4. CASE SweepIdle
    <2>1. /\ sweeper.pc # "hook" /\ \E pc \in {"idle", "off"} : sweeper' = [pc |-> pc, ent |-> 0, on |-> 0]
          /\ UNCHANGED <<entry, acl, row, built, running, flight, fed, feeds, feed, poolUp, rq, shutter>>
      BY Zenon, <1>4 DEF SweepIdle
    <2>2. Types'
      BY <1>0, <2>1 DEF RegistryInv, Types, SweepRecord
    <2>3. NewestInv' /\ FlightInv' /\ EvictInv' /\ UnregisteredInv'
      BY <1>0, <2>1, RegistryTypes DEF RegistryInv, NewestInv, FlightInv, EvictInv, UnregisteredInv
    <2>4. ClosedInv' /\ LiveStreamKept'
      BY Zenon, <2>1 DEF RegistryInv, ClosedInv, PoolQuiesces, LiveStreamKept
    <2>5. AgentsAccounted'
      BY Zenon, <2>1 DEF RegistryInv, AgentsAccounted
    <2> QED
      BY Zenon, <2>2, <2>3, <2>4, <2>5 DEF RegistryInv
  <1>5. CASE ServerClose \/ poolClosed
    <2>1. /\ shutter' \in {"join", "done"} /\ (shutter' = "done" => shutter = "pool")
          /\ UNCHANGED <<entry, acl, row, built, running, flight, fed, feeds, feed, poolUp, rq, sweeper>>
      BY Zenon, <1>5 DEF ServerClose, poolClosed
    <2>2. Types' /\ NewestInv' /\ EvictInv'
      BY Zenon, <2>1 DEF RegistryInv, Types, NewestInv, EvictInv
    <2>3. FlightInv' /\ UnregisteredInv'
      BY Zenon, <2>1 DEF RegistryInv, FlightInv, UnregisteredInv
    <2>4. ASSUME shutter' = "done" PROVE \A b \in 1..feeds : feed[b].st = "down"
      <3>1. poolClosed
        BY Zenon, <1>5, <2>4 DEF ServerClose
      <3>2. \A b \in 1..feeds : b \in Snapshot \cup retiring
        BY RegistryTypes DEF RegistryInv, Snapshot, retiring
      <3> QED
        BY Zenon, <3>1, <3>2 DEF poolClosed
    <2>5. ClosedInv'
      BY Zenon, <2>1, <2>4 DEF RegistryInv, ClosedInv, PoolQuiesces
    <2>6. AgentsAccounted' /\ LiveStreamKept'
      BY <2>1 DEF RegistryInv, AgentsAccounted, LiveStreamKept
    <2> QED
      BY Zenon, <2>2, <2>3, <2>5, <2>6 DEF RegistryInv
  <1>6. CASE poolClose
    <2>1. /\ shutter' = "pool" /\ poolUp' = FALSE /\ fed' = 0
          /\ feed' = feed \/ (fed # 0 /\ feed' = [feed EXCEPT ![fed].st = "closing"])
          /\ UNCHANGED <<entry, acl, row, built, running, flight, feeds, rq, sweeper>>
      BY Zenon, <1>6 DEF poolClose, Closing
    <2>2. /\ feed' \in [1..MaxFeeds -> FeedRecord]
          /\ \A x \in 1..MaxFeeds : feed'[x].ent = feed[x].ent
      <3> DEFINE r == [feed[fed] EXCEPT !.st = "closing"]
      <3>1. fed # 0 => fed \in 1..MaxFeeds
        BY RegistryTypes DEF RegistryInv, Serving
      <3>2. fed # 0 => r \in FeedRecord /\ r.ent = feed[fed].ent
        BY Zenon, <1>0, <3>1 DEF FeedRecord
      <3>3. feed' = feed \/ (fed # 0 /\ feed' = [feed EXCEPT ![fed] = r])
        BY Zenon, <2>1
      <3> HIDE DEF r
      <3> QED
        BY Zenon, <1>0, <3>1, <3>2, <3>3
    <2>3. Types'
      BY Zenon, <1>0, <2>1, <2>2 DEF RegistryInv, Types
    <2>4. NewestInv' /\ FlightInv' /\ EvictInv'
      BY Zenon, <2>1, <2>2 DEF RegistryInv, NewestInv, FlightInv, EvictInv
    <2>5. UnregisteredInv'
      BY <2>1, <2>2 DEF RegistryInv, UnregisteredInv
    <2>6. ClosedInv' /\ LiveStreamKept'
      BY Zenon, <2>1 DEF ClosedInv, PoolQuiesces, LiveStreamKept
    <2>7. AgentsAccounted'
      BY Zenon, <2>1 DEF RegistryInv, AgentsAccounted
    <2> QED
      BY Zenon, <2>3, <2>4, <2>5, <2>6, <2>7 DEF RegistryInv
  <1> QED
    BY Zenon, <1>1, <1>2, <1>3, <1>4, <1>5, <1>6

LEMMA InitRegistry == ASSUME Serving, Init PROVE RegistryInv
  <1>1. Types
    BY IdleRequest DEF Serving, Init, Types, Sweeping, ACLs, RequestRecord, FeedRecord, SweepRecord
  <1>2. NewestInv /\ FlightInv /\ UnregisteredInv /\ EvictInv
    BY IdleRequest DEF Init, Sweeping, NewestInv, FlightInv, UnregisteredInv, EvictInv
  <1>3. ClosedInv /\ AgentsAccounted /\ LiveStreamKept
    BY Zenon DEF Init, ClosedInv, PoolQuiesces, AgentsAccounted, LiveStreamKept
  <1> QED
    BY Zenon, <1>1, <1>2, <1>3 DEF RegistryInv

LEMMA NextRegistry == ASSUME Serving, RegistryInv, [Next]_vars PROVE RegistryInv'
  <1>1. ASSUME NEW q \in Requests, Request(q) PROVE RegistryInv'
    BY Zenon, <1>1, QuietRequests, ResumeKeeps, RegisterKeeps, CreateKeeps, ForKeeps, DeleteKeeps
       DEF Request
  <1>2. CASE UNCHANGED vars
    BY <1>2 DEF vars, RegistryInv, Types, NewestInv, FlightInv, UnregisteredInv, EvictInv, ClosedInv,
                PoolQuiesces, AgentsAccounted, LiveStreamKept
  <1> QED
    BY Zenon, <1>1, <1>2, ServerKeeps DEF Next

\* However many requests create, resume, stream, amend and delete a session while it
\* is evicted and the server closes: every running wake loop can be reached, the
\* registered entry's stream is ended by its own DELETE or by the server only, and a
\* closed pool reads nothing (registry.go, broadcasterPool).
THEOREM RegistryKeepsItsOwn ==
  ASSUME Serving
  PROVE  Spec => [](TypeOK /\ AgentsAccounted /\ LiveStreamKept /\ PoolQuiesces)
  <1>0. Types => TypeOK
    BY Zenon DEF Types, TypeOK, RequestRecord, FeedRecord, SweepRecord
  <1>1. RegistryInv => TypeOK /\ AgentsAccounted /\ LiveStreamKept /\ PoolQuiesces
    BY Zenon, <1>0 DEF RegistryInv, ClosedInv
  <1>2. Init => RegistryInv
    BY Zenon, InitRegistry
  <1>3. RegistryInv /\ [Next]_vars => RegistryInv'
    BY Zenon, NextRegistry
  <1> QED
    BY <1>1, <1>2, <1>3, PTL DEF Spec

=============================================================================
