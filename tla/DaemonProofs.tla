----------------------------- MODULE DaemonProofs -----------------------------
(***************************************************************************)
(* What four components of the daemon guarantee, for any number of         *)
(* subscribers, calls and runs.                                            *)
(*                                                                         *)
(* A broadcaster: its steps are steps of EventFeed, an attached audience   *)
(* is wired to the agent, and nothing moves once Close has returned.  The  *)
(* goroutines read only rows that exist (RowsInv), a subscriber is         *)
(* attached only while a pump's cancel is held (WiredInv), and a closed    *)
(* broadcaster starts no goroutine (CloseInv).                             *)
(*                                                                         *)
(* Then the A2A task store, an AG-UI thread and an A2A call, each an       *)
(* instance with an inductive invariant of its own: TaskInv, ThreadInv,    *)
(* ClientInv.                                                              *)
(***************************************************************************)
EXTENDS Broadcaster, TLAPS

\* The bounds of the model are natural numbers.
Bounded == MaxReplay \in Nat /\ Pumps \in Nat /\ MaxSeq \in Nat

\* Cursors and query results never pass the end of the log.
RowsInv ==
  /\ \A s \in Subs : since[s] <= head /\ replay[s].to <= head
  /\ \A g \in 1..Pumps : pump[g].to <= head

\* While somebody is attached the current pump's cancel is held, and whoever set
\* it has handed the agent the emitter or is about to.
WiredInv ==
  /\ Attached # {} => cancel # 0
  /\ cancel # 0 /\ (\A s \in Subs : replay[s].st # "wire") => emitter

\* A subscriber that has yet to register has no goroutine.
FreshInv == \A s \in Subs : st[s] \in {"new", "booted"} => replay[s].st = "off"

\* Close comes first, then its wait.
CloseInv == (shut <=> closer # "no") /\ QuietAfterClose

IInv == TypeOK /\ RowsInv /\ WiredInv /\ FreshInv /\ CloseInv

-----------------------------------------------------------------------------
\* Hanging up some of the attached keeps the audience wired: the last one out
\* takes cancel and emitter along.
LEMMA DetachWired ==
  ASSUME WiredInv, NEW gone \in SUBSET Attached, detachLocked(gone),
         \A s \in Subs : replay[s].st = "wire" => replay'[s].st = "wire"
  PROVE  WiredInv'
  <1>1. Attached' = Attached \ gone
    BY DEF Attached, detachLocked, HungUp
  <1> QED
    BY <1>1 DEF WiredInv, detachLocked

\* The subscriber fields keep their types when some are hung up.
LEMMA DetachTypes ==
  ASSUME Bounded, TypeOK, NEW gone \in SUBSET Attached, detachLocked(gone), UNCHANGED pumpGen
  PROVE  /\ st' \in [Subs -> {"new", "booted", "open", "shut"}] /\ since' \in [Subs -> 0..MaxSeq]
         /\ cancel' \in {0, pumpGen'} /\ emitter' \in BOOLEAN
         /\ \A s \in Subs : since'[s] \in {0, since[s]}
  <1>1. /\ st' = [s \in Subs |-> IF s \in gone THEN "shut" ELSE st[s]]
        /\ since' = [s \in Subs |-> IF s \in gone THEN 0 ELSE since[s]]
        /\ 0 \in 0..MaxSeq
    BY DEF Bounded, detachLocked, HungUp
  <1>2. st' \in [Subs -> {"new", "booted", "open", "shut"}] /\ since' \in [Subs -> 0..MaxSeq]
    BY Zenon, <1>1 DEF TypeOK
  <1>3. cancel' \in {0, pumpGen'} /\ emitter' \in BOOLEAN
    BY Zenon DEF TypeOK, detachLocked
  <1>4. \A s \in Subs : since'[s] \in {0, since[s]}
    BY Zenon, <1>1
  <1> QED
    BY Zenon, <1>2, <1>3, <1>4

\* send keeps its types and is one Publish of the feed.
LEMMA SendStep ==
  ASSUME Bounded, TypeOK, NEW to \in SUBSET Attached, NEW n \in 1..MaxSeq, n <= head, send(to, n),
         UNCHANGED <<head, pumpGen>>
  PROVE  /\ lastSent' \in [Subs -> 0..MaxSeq] /\ got' \in [Subs -> SUBSET (1..MaxSeq)]
         /\ \E gone \in SUBSET Attached : detachLocked(gone)
         /\ Feed!Next
  <1>1. PICK full \in SUBSET {s \in to : n > lastSent[s]} :
          /\ detachLocked(full)
          /\ lastSent' = [s \in Subs |-> IF s \in full THEN 0
                            ELSE IF s \in {r \in to : n > lastSent[r]} THEN n ELSE lastSent[s]]
          /\ got' = [s \in Subs |-> IF s \in full THEN {}
                       ELSE IF s \in {r \in to : n > lastSent[r]} THEN got[s] \cup {n} ELSE got[s]]
    BY Zenon DEF send
  <1> DEFINE due == {s \in to : n > lastSent[s]} \ full
  <1>2. full \in SUBSET Attached /\ full \in SUBSET Subs /\ due \in SUBSET Subs /\ due \cap full = {}
        /\ n \in 0..MaxSeq
    BY DEF Bounded, Attached
  <1>3. lastSent' \in [Subs -> 0..MaxSeq] /\ got' \in [Subs -> SUBSET (1..MaxSeq)]
    BY <1>1 DEF Bounded, TypeOK
  <1>4. \A s \in due : st[s] = "open" /\ lastSent[s] < n
    BY Zenon DEF TypeOK, Attached
  <1>5. \A s \in full : st[s] = "open"
    BY DEF Attached
  <1>6. Feed!Publish(n, due, full)
    <2>1. st' = [s \in Subs |-> IF s \in full THEN "shut" ELSE st[s]]
      BY <1>1 DEF detachLocked, HungUp
    <2>2. \A s \in due : stream[s] = "open" /\ cursor[s] < n
      BY Zenon, <1>4, <1>2 DEF stream, cursor
    <2>3. \A s \in full : stream[s] = "open"
      BY Zenon, <1>5, <1>2 DEF stream
    <2>4. cursor' = [s \in Subs |-> IF s \in due THEN n ELSE IF s \in full THEN 0 ELSE cursor[s]]
      BY Zenon, <1>1, <1>2, <1>4, <2>1 DEF cursor
    <2>5. got' = [s \in Subs |-> IF s \in due THEN got[s] \cup {n} ELSE IF s \in full THEN {} ELSE got[s]]
      BY Zenon, <1>1, <1>2
    <2>6. stream' = [s \in Subs |-> IF s \in full THEN "shut" ELSE stream[s]]
      BY Zenon, <2>1 DEF stream
    <2> QED
      BY Zenon, <2>2, <2>3, <2>4, <2>5, <2>6 DEF Feed!Publish
  <1>7. Feed!Next
    BY <1>2, <1>6 DEF Feed!Next
  <1> QED
    BY Zenon, <1>1, <1>2, <1>3, <1>7

\* Hanging up is a Publish of nothing.
LEMMA LoseStep ==
  ASSUME Bounded, TypeOK, NEW gone \in SUBSET Attached,
         st' = [s \in Subs |-> IF s \in gone THEN "shut" ELSE st[s]],
         lastSent' = [s \in Subs |-> IF s \in gone THEN 0 ELSE lastSent[s]],
         got' = [s \in Subs |-> IF s \in gone THEN {} ELSE got[s]], UNCHANGED head
  PROVE  /\ lastSent' \in [Subs -> 0..MaxSeq] /\ got' \in [Subs -> SUBSET (1..MaxSeq)]
         /\ Feed!Next
  <1>1. 0 \in 0..MaxSeq /\ 0 <= head
    BY DEF Bounded, TypeOK
  <1>2. lastSent' \in [Subs -> 0..MaxSeq] /\ got' \in [Subs -> SUBSET (1..MaxSeq)]
    BY Zenon, <1>1 DEF TypeOK
  <1>3. gone \in SUBSET Subs /\ \A s \in gone : stream[s] = "open"
    BY Zenon DEF Attached, stream
  <1>4. /\ cursor' = [s \in Subs |-> IF s \in {} THEN 0 ELSE IF s \in gone THEN 0 ELSE cursor[s]]
        /\ got' = [s \in Subs |-> IF s \in {} THEN got[s] \cup {0} ELSE IF s \in gone THEN {} ELSE got[s]]
        /\ stream' = [s \in Subs |-> IF s \in gone THEN "shut" ELSE stream[s]]
    BY Zenon DEF cursor, stream, Attached
  <1>5. Feed!Publish(0, {}, gone)
    BY Zenon, <1>1, <1>3, <1>4 DEF Feed!Publish
  <1> QED
    BY Zenon, <1>1, <1>2, <1>3, <1>5 DEF Feed!Next

-----------------------------------------------------------------------------
\* Goroutines go on or end: none starts, none reads past the log, none leaves
\* the wiring.
Winding ==
  /\ pump' \in [1..Pumps -> Routine({"off", "rows", "sweep", "gone"})]
  /\ replay' \in [Subs -> Routine({"off", "wire", "ask", "rows", "tail", "gone"})]
  /\ \A g \in 1..Pumps :
       pump'[g].to <= head /\ (pump[g].st \in {"off", "gone"} => pump'[g].st \in {"off", "gone"})
  /\ \A s \in Subs :
       /\ replay'[s].to <= head /\ (replay[s].st = "wire" => replay'[s].st = "wire")
       /\ replay[s].st = "off" => replay'[s].st = "off"
       /\ replay[s].st = "gone" => replay'[s].st = "gone"

\* The fields of a goroutine's record.
LEMMA Fields ==
  ASSUME NEW P, NEW p \in Routine(P), NEW x
  PROVE  /\ [p EXCEPT !.st = x] = [st |-> x, at |-> p.at, to |-> p.to]
         /\ [p EXCEPT !.at = x] = [st |-> p.st, at |-> x, to |-> p.to]
         /\ [p EXCEPT !.to = x] = [st |-> p.st, at |-> p.at, to |-> x]
  BY DEF Routine

\* One goroutine goes on or ends.
LEMMA WindPump ==
  ASSUME Bounded, IInv, NEW g \in 1..Pumps, pump[g].st \notin {"off", "gone"}, UNCHANGED replay,
         NEW r \in Routine({"off", "rows", "sweep", "gone"}), r.to <= head,
         pump' = [pump EXCEPT ![g] = r]
  PROVE  Winding
  BY Zenon DEF IInv, TypeOK, RowsInv, Winding

\* ... a pump above, a replay here.
LEMMA WindReplay ==
  ASSUME Bounded, IInv, NEW s \in Subs, replay[s].st \notin {"off", "gone", "wire"}, UNCHANGED pump,
         NEW r \in Routine({"off", "wire", "ask", "rows", "tail", "gone"}), r.to <= head,
         replay' = [replay EXCEPT ![s] = r]
  PROVE  Winding
  BY Zenon DEF IInv, TypeOK, RowsInv, Winding

\* A step that winds goroutines and hangs some of the attached up.
LEMMA DetachKeeps ==
  ASSUME Bounded, IInv, Winding, UNCHANGED <<head, shut, pumpGen, closer>>,
         NEW gone \in SUBSET Attached, detachLocked(gone),
         lastSent' \in [Subs -> 0..MaxSeq], got' \in [Subs -> SUBSET (1..MaxSeq)]
  PROVE  IInv'
  <1>1. /\ st' \in [Subs -> {"new", "booted", "open", "shut"}] /\ since' \in [Subs -> 0..MaxSeq]
        /\ cancel' \in {0, pumpGen'} /\ emitter' \in BOOLEAN
        /\ \A s \in Subs : since'[s] \in {0, since[s]}
    BY Zenon, DetachTypes DEF IInv
  <1>2. TypeOK'
    BY Zenon, <1>1 DEF IInv, TypeOK, Winding
  <1>3. RowsInv'
    <2>1. \A s \in Subs : since[s] <= head /\ 0 <= head
      BY DEF Bounded, IInv, TypeOK, RowsInv
    <2>2. \A s \in Subs : since'[s] <= head
      BY Zenon, <1>1, <2>1
    <2> QED
      BY Zenon, <2>2 DEF RowsInv, Winding
  <1>4. WiredInv'
    BY Zenon, DetachWired DEF IInv, Winding
  <1>5. CloseInv'
    BY Zenon DEF IInv, CloseInv, QuietAfterClose, Busy, Winding
  <1>6. FreshInv'
    BY Zenon DEF IInv, TypeOK, FreshInv, Winding, detachLocked, HungUp
  <1> QED
    BY Zenon, <1>2, <1>3, <1>4, <1>5, <1>6 DEF IInv

\* The same step, with the hung-up ones' fields reset.
LEMMA LoseKeeps ==
  ASSUME Bounded, IInv, Winding, UNCHANGED <<head, shut, pumpGen, closer>>,
         NEW gone \in SUBSET Attached, Lose(gone)
  PROVE  IInv' /\ FeedStep
  <1>1. lastSent' \in [Subs -> 0..MaxSeq] /\ got' \in [Subs -> SUBSET (1..MaxSeq)] /\ Feed!Next
    BY Zenon, LoseStep DEF Lose, detachLocked, HungUp, IInv
  <1> QED
    BY Zenon, <1>1, DetachKeeps DEF Lose, FeedStep

\* The same step, with a row sent.
LEMMA SendKeeps ==
  ASSUME Bounded, IInv, Winding, UNCHANGED <<head, shut, pumpGen, closer>>,
         NEW to \in SUBSET Attached, NEW n \in 1..MaxSeq, n <= head, send(to, n)
  PROVE  IInv' /\ FeedStep
  <1>1. /\ lastSent' \in [Subs -> 0..MaxSeq] /\ got' \in [Subs -> SUBSET (1..MaxSeq)]
        /\ \E gone \in SUBSET Attached : detachLocked(gone)
        /\ Feed!Next
    BY SendStep DEF IInv
  <1> QED
    BY Zenon, <1>1, DetachKeeps DEF FeedStep

\* The same step, with nobody hung up.
LEMMA StillKeeps ==
  ASSUME Bounded, IInv, Winding, UNCHANGED <<head, shut, pumpGen, closer>>, UNCHANGED <<subscriber, cancel, emitter>>
  PROVE  IInv' /\ FeedStep
  <1>1. TypeOK'
    BY Zenon DEF IInv, TypeOK, Winding, subscriber
  <1>2. RowsInv'
    BY DEF IInv, RowsInv, Winding, subscriber
  <1>3. WiredInv'
    BY Zenon DEF IInv, WiredInv, Attached, Winding, subscriber
  <1>4. CloseInv' /\ FreshInv'
    BY Zenon DEF IInv, CloseInv, QuietAfterClose, Busy, FreshInv, Winding, subscriber
  <1>5. UNCHANGED Feed!feed
    BY DEF Feed!feed, stream, cursor, subscriber
  <1> QED
    BY <1>1, <1>2, <1>3, <1>4, <1>5 DEF IInv, FeedStep

\* The state a broadcaster is created in.
LEMMA InitIInv == ASSUME Bounded PROVE Init => IInv
  <1> SUFFICES ASSUME Init PROVE IInv
    OBVIOUS
  <1>1. 0 \in 0..MaxSeq /\ 0 \in 0..Pumps
    BY DEF Bounded
  <1>2. At("off") = [st |-> "off", at |-> 0, to |-> 0]
    BY DEF At
  <1>3. TypeOK
    <2>1. /\ pump \in [1..Pumps -> Routine({"off", "rows", "sweep", "gone"})]
          /\ replay \in [Subs -> Routine({"off", "wire", "ask", "rows", "tail", "gone"})]
      BY <1>1, <1>2 DEF Init, Routine
    <2>2. got \in [Subs -> SUBSET (1..MaxSeq)]
      BY Zenon DEF Init
    <2> QED
      BY Zenon, <1>1, <2>1, <2>2 DEF Init, TypeOK
  <1>4. RowsInv /\ WiredInv /\ FreshInv /\ CloseInv
    BY <1>1, <1>2 DEF Init, RowsInv, WiredInv, FreshInv, CloseInv, QuietAfterClose, Attached
  <1> QED
    BY <1>3, <1>4 DEF IInv

\* Every step keeps the invariant and is a step of the feed.
LEMMA NextStep == ASSUME Bounded, IInv, [Next]_vars PROVE IInv' /\ FeedStep
  <1> USE DEF Bounded, subscriber, FeedStep, Feed!feed
  <1>z. /\ 0 \in 0..MaxSeq
        /\ \A p \in {"off", "wire", "ask", "rows", "sweep", "tail", "gone"} :
             At(p) = [st |-> p, at |-> 0, to |-> 0]
    BY DEF At
  <1>y. /\ \A p \in {"sweep", "gone"} : At(p) \in Routine({"off", "rows", "sweep", "gone"}) /\ At(p).to <= head
        /\ At("gone") \in Routine({"off", "wire", "ask", "rows", "tail", "gone"})
    BY <1>z DEF Routine, IInv, TypeOK
  <1>1. CASE AppendEvent
    <2>1. TypeOK'
      BY <1>1 DEF IInv, TypeOK, AppendEvent
    <2>2. RowsInv'
      BY SMTT(60), <1>1 DEF IInv, TypeOK, RowsInv, AppendEvent, Routine
    <2>3. WiredInv' /\ FreshInv' /\ CloseInv'
      BY Zenon, <1>1
         DEF IInv, WiredInv, FreshInv, CloseInv, QuietAfterClose, Busy, Attached,
             AppendEvent
    <2>4. Feed!Append
      BY <1>1 DEF AppendEvent, Feed!Append, stream, cursor
    <2> QED
      BY Zenon, <2>1, <2>2, <2>3, <2>4 DEF IInv, Feed!Next
  <1>2. CASE Emit
    <2>1. PICK full \in SUBSET Attached : Lose(full)
      BY Zenon, <1>2 DEF Emit, sendTyped
    <2>2. UNCHANGED <<head, shut, pumpGen, pump, replay, closer>>
      BY Zenon, <1>2 DEF Emit
    <2>3. Winding
      BY <2>2 DEF IInv, TypeOK, RowsInv, Winding
    <2> QED
      BY <2>1, <2>2, <2>3, LoseKeeps
  <1>3. CASE Close
    <2>1. PICK gone \in SUBSET Attached :
            /\ gone = Attached
            /\ st' = [s \in Subs |-> IF s \in gone THEN "shut" ELSE st[s]]
            /\ since' = [s \in Subs |-> IF s \in gone THEN 0 ELSE since[s]]
            /\ lastSent' = [s \in Subs |-> IF s \in gone THEN 0 ELSE lastSent[s]]
            /\ got' = [s \in Subs |-> IF s \in gone THEN {} ELSE got[s]]
      BY Zenon, <1>3 DEF Close, HungUp
    <2>2. ~shut /\ shut' /\ closer' = "wait" /\ cancel' = 0 /\ UNCHANGED <<head, pumpGen, pump, replay, emitter>>
      BY Zenon, <1>3 DEF Close
    <2>3. lastSent' \in [Subs -> 0..MaxSeq] /\ got' \in [Subs -> SUBSET (1..MaxSeq)] /\ Feed!Next
      BY Zenon, <2>1, <2>2, LoseStep DEF IInv
    <2>4. st' \in [Subs -> {"new", "booted", "open", "shut"}] /\ since' \in [Subs -> 0..MaxSeq]
      BY Zenon, <2>1, <1>z DEF IInv, TypeOK
    <2>5. TypeOK'
      BY Zenon, <1>3, <2>2, <2>3, <2>4 DEF IInv, TypeOK, Close
    <2>6. RowsInv'
      BY <2>1, <2>2 DEF IInv, TypeOK, RowsInv
    <2>7. Attached' = {}
      BY <2>1 DEF Attached
    <2>8. WiredInv' /\ CloseInv'
      BY <2>2, <2>7 DEF WiredInv, CloseInv, QuietAfterClose
    <2>9. FreshInv'
      BY <2>1, <2>2 DEF IInv, TypeOK, FreshInv
    <2> QED
      BY Zenon, <2>3, <2>5, <2>6, <2>8, <2>9 DEF IInv
  <1>4. CASE CloseReturns
    <2>1. TypeOK' /\ RowsInv' /\ WiredInv' /\ FreshInv'
      BY Zenon, <1>4 DEF IInv, TypeOK, RowsInv, WiredInv, FreshInv, Attached, CloseReturns
    <2>2. CloseInv'
      BY <1>4 DEF IInv, CloseInv, QuietAfterClose, Busy, CloseReturns
    <2>3. UNCHANGED Feed!feed
      BY Zenon, <1>4 DEF CloseReturns, stream, cursor
    <2> QED
      BY <2>1, <2>2, <2>3 DEF IInv
  <1>5. ASSUME NEW g \in 1..Pumps, Watch(g) PROVE IInv' /\ FeedStep
    <2>1. UNCHANGED <<head, shut, cancel, pumpGen, replay, subscriber, emitter, closer>>
      BY Zenon, <1>5 DEF Watch
    <2> DEFINE r == [st |-> "rows", at |-> pump[g].at, to |-> head]
    <2>2. Winding
      <3>1. CASE Cut(g)
        <4>1. pump[g].st = "rows" /\ pump' = [pump EXCEPT ![g] = At("sweep")]
          BY Zenon, <1>5, <3>1 DEF Watch, Dying
        <4> QED
          BY Zenon, <1>y, <2>1, <4>1, WindPump
      <3>2. CASE ~Cut(g)
        <4>1. pump[g].st = "rows" /\ pump' = [pump EXCEPT ![g].to = head]
          BY Zenon, <1>5, <3>2 DEF Watch, queryRows
        <4>2. r \in Routine({"off", "rows", "sweep", "gone"}) /\ r.to <= head
          <5>1. pump[g].at \in 0..MaxSeq /\ head \in 0..MaxSeq
            BY Zenon DEF IInv, TypeOK, Routine
          <5>2. head <= head
            BY <5>1
          <5> QED
            BY Zenon, <5>1, <5>2 DEF Routine
        <4>3. pump' = [pump EXCEPT ![g] = r]
          <5>0. pump[g].st = "rows" /\ pump[g] \in Routine({"off", "rows", "sweep", "gone"})
            BY Zenon, <4>1 DEF IInv, TypeOK
          <5>2. [pump[g] EXCEPT !.to = head] = [st |-> pump[g].st, at |-> pump[g].at, to |-> head]
            BY ONLY ZenonT(60), <5>0, Fields
          <5>1. [pump[g] EXCEPT !.to = head] = r
            BY ONLY <5>0, <5>2
          <5> QED
            BY ONLY Zenon, <4>1, <5>1
        <4> QED
          BY Zenon, <2>1, <4>1, <4>2, <4>3, WindPump
      <3> QED
        BY Zenon, <3>1, <3>2
    <2> QED
      BY <2>1, <2>2, StillKeeps
  <1>6. ASSUME NEW g \in 1..Pumps, pumpRow(g) PROVE IInv' /\ FeedStep
    <2> DEFINE n == pump[g].at + 1
    <2>1. UNCHANGED <<head, shut, pumpGen, replay, closer>> /\ send(Attached, n)
      BY Zenon, <1>6 DEF pumpRow
    <2>2. n \in 1..MaxSeq /\ n <= head /\ n <= pump[g].to
      BY <1>6 DEF pumpRow, IInv, TypeOK, RowsInv, Routine
    <2> DEFINE r == [st |-> "rows", at |-> n, to |-> pump[g].to]
    <2>3. Winding
      <3>0. pump[g].st = "rows" /\ pump[g].to <= head
        BY Zenon, <1>6 DEF pumpRow, IInv, RowsInv
      <3>1. CASE Dying(g)
        BY Zenon, <1>y, <2>1, <3>0, <3>1, WindPump DEF Dying
      <3>2. CASE pump' = [pump EXCEPT ![g].at = @ + 1]
        <4>1. r \in Routine({"off", "rows", "sweep", "gone"}) /\ r.to <= head
          BY <2>2, <3>0 DEF IInv, TypeOK, Routine
        <4>2. pump' = [pump EXCEPT ![g] = r]
          <5>1. [pump[g] EXCEPT !.at = @ + 1] = r
            BY ZenonT(60), <3>0, Fields DEF IInv, TypeOK
          <5> QED
            BY ONLY Zenon, <3>2, <5>1
        <4> QED
          BY Zenon, <2>1, <3>0, <4>1, <4>2, WindPump
      <3> QED
        BY Zenon, <1>6, <3>1, <3>2 DEF pumpRow
    <2> QED
      BY Zenon, <2>1, <2>2, <2>3, SendKeeps
  <1>7. ASSUME NEW g \in 1..Pumps, pumpFails(g) PROVE IInv' /\ FeedStep
    <2>1. UNCHANGED <<head, shut, cancel, pumpGen, replay, subscriber, emitter, closer>>
      BY Zenon, <1>7 DEF pumpFails
    <2>2. Winding
      BY SMTT(60), <1>7, <1>z DEF pumpFails, Dying, IInv, TypeOK, RowsInv, Winding, Routine
    <2> QED
      BY <2>1, <2>2, StillKeeps
  <1>8. ASSUME NEW g \in 1..Pumps, sweep(g) PROVE IInv' /\ FeedStep
    <2>1. UNCHANGED <<head, shut, pumpGen, replay, closer>>
      BY <1>8 DEF sweep
    <2>2. Winding
      BY SMTT(60), <1>8, <1>z DEF sweep, IInv, TypeOK, RowsInv, Winding, Routine
    <2>3. CASE pumpGen = g /\ cancel # 0
      BY Zenon, <1>8, <2>1, <2>2, <2>3, LoseKeeps DEF sweep
    <2>4. CASE ~(pumpGen = g /\ cancel # 0)
      BY <1>8, <2>1, <2>2, <2>4, StillKeeps DEF sweep
    <2> QED
      BY <2>3, <2>4
  <1>9. ASSUME NEW s \in Subs, Subscribe(s) PROVE IInv' /\ FeedStep
    <2>1. PICK from \in 0..head :
            /\ since' = [since EXCEPT ![s] = from] /\ lastSent' = [lastSent EXCEPT ![s] = from]
      <3>1. PICK c \in 0..head : \E from \in clampReplaySince(c) :
              since' = [since EXCEPT ![s] = from] /\ lastSent' = [lastSent EXCEPT ![s] = from]
        BY Zenon, <1>9 DEF Subscribe
      <3>2. clampReplaySince(c) \subseteq 0..head
        BY DEF clampReplaySince, NthNewestSeq, IInv, TypeOK
      <3> QED
        BY Zenon, <3>1, <3>2
    <2>2. /\ st[s] = "new" /\ st' = [st EXCEPT ![s] = "booted"]
          /\ UNCHANGED <<head, shut, cancel, pumpGen, pump, replay, got, emitter, closer>>
      BY Zenon, <1>9 DEF Subscribe
    <2>3. from \in 0..MaxSeq
      BY DEF IInv, TypeOK
    <2>4. TypeOK'
      BY Zenon, <2>1, <2>2, <2>3 DEF IInv, TypeOK
    <2>5. RowsInv'
      BY <2>1, <2>2 DEF IInv, TypeOK, RowsInv
    <2>6. Attached' = Attached
      BY Zenon, <2>2 DEF Attached, IInv, TypeOK
    <2>7. WiredInv' /\ FreshInv' /\ CloseInv'
      BY Zenon, <2>2, <2>6 DEF IInv, TypeOK, WiredInv, FreshInv, CloseInv, QuietAfterClose, Busy
    <2>8. stream' = stream /\ cursor' = cursor
      BY Zenon, <2>1, <2>2 DEF stream, cursor, IInv, TypeOK
    <2> QED
      BY <2>2, <2>4, <2>5, <2>7, <2>8 DEF IInv
  <1>10. ASSUME NEW s \in Subs, register(s), shut PROVE IInv' /\ FeedStep
    <2>1. /\ st[s] = "booted" /\ st' = [st EXCEPT ![s] = "shut"] /\ since' = [since EXCEPT ![s] = 0]
          /\ lastSent' = [lastSent EXCEPT ![s] = 0]
          /\ UNCHANGED <<cancel, pumpGen, pump, replay, head, shut, got, emitter, closer>>
      BY Zenon, <1>10 DEF register
    <2>2. TypeOK'
      BY Zenon, <2>1, <1>z DEF IInv, TypeOK
    <2>3. RowsInv'
      BY <2>1 DEF IInv, TypeOK, RowsInv
    <2>4. Attached' = Attached
      BY Zenon, <2>1 DEF Attached, IInv, TypeOK
    <2>5. WiredInv' /\ FreshInv' /\ CloseInv'
      BY Zenon, <2>1, <2>4 DEF IInv, TypeOK, WiredInv, FreshInv, CloseInv, QuietAfterClose, Busy
    <2>6. stream[s] = "none" /\ stream' = [stream EXCEPT ![s] = "shut"] /\ cursor' = [cursor EXCEPT ![s] = 0]
      BY Zenon, <2>1 DEF stream, cursor, IInv, TypeOK
    <2>7. Feed!Open(s)
      BY Zenon, <2>1, <2>6, <1>z DEF Feed!Open
    <2> QED
      BY <2>2, <2>3, <2>5, <2>7 DEF IInv, Feed!Next
  <1>11. ASSUME NEW s \in Subs, register(s), ~shut PROVE IInv' /\ FeedStep
    <2>1. /\ st[s] = "booted" /\ st' = [st EXCEPT ![s] = "open"]
          /\ replay' = [replay EXCEPT ![s].st = IF cancel = 0 THEN "wire" ELSE "ask"]
          /\ UNCHANGED <<since, lastSent, head, shut, got, emitter, closer>>
      BY <1>11 DEF register
    <2>2. /\ cancel' # 0 /\ cancel' = pumpGen' /\ pumpGen' \in 0..Pumps
          /\ pump' \in [1..Pumps -> Routine({"off", "rows", "sweep", "gone"})]
          /\ \A g \in 1..Pumps : pump'[g].to <= head
      <3>1. CASE cancel = 0
        <4>1. /\ pumpGen < Pumps /\ pumpGen' = pumpGen + 1 /\ cancel' = pumpGen'
              /\ pump' = [pump EXCEPT ![pumpGen'] = [st |-> "rows", at |-> since[s], to |-> since[s]]]
          BY Zenon, <1>11, <3>1 DEF register
        <4>2. pumpGen' \in 1..Pumps
          BY <4>1 DEF IInv, TypeOK
        <4>3. [st |-> "rows", at |-> since[s], to |-> since[s]] \in Routine({"off", "rows", "sweep", "gone"})
          BY DEF IInv, TypeOK, Routine
        <4>4. pump' \in [1..Pumps -> Routine({"off", "rows", "sweep", "gone"})]
          BY Zenon, <4>1, <4>2, <4>3 DEF IInv, TypeOK
        <4>5. \A g \in 1..Pumps : pump'[g].to <= head
          BY Zenon, <4>1, <4>2 DEF IInv, TypeOK, RowsInv
        <4> QED
          BY <4>1, <4>2, <4>4, <4>5
      <3>2. CASE cancel # 0
        <4>1. UNCHANGED <<cancel, pumpGen, pump>>
          BY Zenon, <1>11, <3>2 DEF register
        <4> QED
          BY <3>2, <4>1 DEF IInv, TypeOK, RowsInv
      <3> QED
        BY <3>1, <3>2
    <2> DEFINE a == [st |-> IF cancel = 0 THEN "wire" ELSE "ask", at |-> replay[s].at, to |-> replay[s].to]
    <2>a. replay' = [replay EXCEPT ![s] = a]
      <3>1. [replay[s] EXCEPT !.st = IF cancel = 0 THEN "wire" ELSE "ask"] = a
        BY ZenonT(60), Fields DEF IInv, TypeOK
      <3> QED
        BY ONLY Zenon, <2>1, <3>1
    <2>b. a \in Routine({"off", "wire", "ask", "rows", "tail", "gone"}) /\ a.to <= head
      BY Zenon DEF IInv, TypeOK, RowsInv, Routine
    <2>3. /\ replay' \in [Subs -> Routine({"off", "wire", "ask", "rows", "tail", "gone"})]
          /\ \A r \in Subs : replay'[r].to <= head
          /\ replay'[s] = a /\ \A r \in Subs : r # s => replay'[r] = replay[r]
      BY Zenon, <2>a, <2>b DEF IInv, TypeOK, RowsInv
    <2>4. TypeOK'
      BY Zenon, <2>1, <2>2, <2>3 DEF IInv, TypeOK
    <2>5. RowsInv'
      BY <2>1, <2>2, <2>3 DEF IInv, RowsInv
    <2>6. ASSUME \A r \in Subs : replay'[r].st # "wire" PROVE emitter
      <3>1. cancel # 0
        BY <2>3, <2>6
      <3>2. \A r \in Subs : replay[r].st # "wire"
        BY Zenon, <2>1, <2>3, <2>6 DEF IInv, FreshInv
      <3> QED
        BY Zenon, <3>1, <3>2 DEF IInv, WiredInv
    <2>7. WiredInv' /\ CloseInv'
      BY Zenon, <1>11, <2>1, <2>2, <2>6 DEF IInv, WiredInv, CloseInv, QuietAfterClose
    <2>c. FreshInv'
      BY Zenon, <2>1, <2>3 DEF IInv, TypeOK, FreshInv
    <2>8. /\ stream[s] = "none" /\ stream' = [stream EXCEPT ![s] = "open"]
          /\ cursor' = [cursor EXCEPT ![s] = lastSent[s]]
      BY Zenon, <2>1 DEF stream, cursor, IInv, TypeOK
    <2>9. Feed!Open(s)
      BY Zenon, <2>1, <2>8 DEF Feed!Open, IInv, TypeOK
    <2> QED
      BY <2>4, <2>5, <2>7, <2>9, <2>c DEF IInv, Feed!Next
  <1>12. ASSUME NEW s \in Subs, setOperatorEmitter(s) PROVE IInv' /\ FeedStep
    <2>1. /\ replay[s].st = "wire" /\ emitter' /\ emitter' \in BOOLEAN
          /\ replay' = [replay EXCEPT ![s].st = "ask"]
          /\ UNCHANGED <<head, shut, cancel, pumpGen, pump, subscriber, closer>>
      BY Zenon, <1>12 DEF setOperatorEmitter
    <2>2. /\ replay' \in [Subs -> Routine({"off", "wire", "ask", "rows", "tail", "gone"})]
          /\ \A r \in Subs : replay'[r].to = replay[r].to
      BY ZenonT(60), <2>1 DEF IInv, TypeOK, Routine
    <2>3. TypeOK'
      BY Zenon, <2>1, <2>2 DEF IInv, TypeOK
    <2>4. RowsInv'
      BY Zenon, <2>1, <2>2 DEF IInv, RowsInv
    <2>5. WiredInv'
      BY Zenon, <2>1 DEF IInv, WiredInv, Attached
    <2>a. FreshInv'
      BY Zenon, <2>1 DEF IInv, TypeOK, FreshInv
    <2>6. closer # "done" \/ ~Busy
      BY DEF IInv, CloseInv, QuietAfterClose
    <2>7. CloseInv'
      BY Zenon, <2>1, <2>6 DEF IInv, CloseInv, QuietAfterClose, Busy
    <2>8. UNCHANGED Feed!feed
      BY Zenon, <2>1 DEF stream, cursor
    <2> QED
      BY Zenon, <2>3, <2>4, <2>5, <2>7, <2>8, <2>a DEF IInv
  <1>13. ASSUME NEW s \in Subs, Since(s) PROVE IInv' /\ FeedStep
    <2>1. UNCHANGED <<head, shut, cancel, pumpGen, pump, subscriber, emitter, closer>>
      BY Zenon, <1>13 DEF Since
    <2>2. Winding
      BY SMTT(60), <1>13, <1>z
         DEF Since, queryRows, IInv, TypeOK, RowsInv, Winding, Routine
    <2> QED
      BY Zenon, <2>1, <2>2, StillKeeps
  <1>14. ASSUME NEW s \in Subs, replayRow(s) PROVE IInv' /\ FeedStep
    <2> DEFINE n == replay[s].at + 1
    <2>1. UNCHANGED <<head, shut, pumpGen, pump, closer>>
      BY Zenon, <1>14 DEF replayRow
    <2>2. n \in 1..MaxSeq /\ n <= head /\ n <= replay[s].to
      BY SMTT(60), <1>14 DEF replayRow, IInv, TypeOK, RowsInv, Routine
    <2> DEFINE r == [st |-> "rows", at |-> n, to |-> replay[s].to]
    <2>3. Winding
      <3>0. replay[s].st = "rows" /\ replay[s].to <= head
        BY Zenon, <1>14 DEF replayRow, IInv, RowsInv
      <3>1. CASE st'[s] # "open"
        <4>1. replay' = [replay EXCEPT ![s] = At("gone")]
          BY Zenon, <1>14, <3>1 DEF replayRow
        <4> QED
          BY Zenon, <1>y, <2>1, <3>0, <4>1, WindReplay
      <3>2. CASE st'[s] = "open"
        <4>1. r \in Routine({"off", "wire", "ask", "rows", "tail", "gone"}) /\ r.to <= head
          BY <2>2, <3>0 DEF IInv, TypeOK, Routine
        <4>2. replay' = [replay EXCEPT ![s] = r]
          BY Zenon, <1>14, <3>2 DEF replayRow
        <4> QED
          BY Zenon, <2>1, <3>0, <4>1, <4>2, WindReplay
      <3> QED
        BY Zenon, <3>1, <3>2
    <2>4. CASE st[s] = "open"
      BY Zenon, <1>14, <2>1, <2>2, <2>3, <2>4, SendKeeps DEF replayRow, Attached
    <2>5. CASE st[s] # "open"
      BY Zenon, <1>14, <2>1, <2>3, <2>5, StillKeeps DEF replayRow
    <2> QED
      BY Zenon, <2>4, <2>5
  <1>15. ASSUME NEW s \in Subs, Detach(s), replay[s].st \in {"ask", "rows", "tail"} PROVE IInv' /\ FeedStep
    <2>1. UNCHANGED <<head, shut, pumpGen, pump, closer>> /\ Lose({s} \cap Attached)
      BY Zenon, <1>15 DEF Detach
    <2>2. Winding
      BY SMTT(60), <1>15, <1>z DEF Detach, IInv, TypeOK, RowsInv, Winding, Routine
    <2> QED
      BY <2>1, <2>2, LoseKeeps
  <1>16. ASSUME NEW s \in Subs, replayThenTail(s) PROVE IInv' /\ FeedStep
    <2>1. CASE replay[s].st = "tail" /\ shut /\ Detach(s)
      BY Zenon, <1>15, <2>1
    <2>2. CASE /\ replay[s].st = "rows" /\ replay[s].at = replay[s].to
               /\ replay' = [replay EXCEPT ![s] = At("tail")]
               /\ UNCHANGED <<head, shut, cancel, pumpGen, pump, subscriber, emitter, closer>>
      <3>1. Winding
        BY SMTT(60), <2>2, <1>z DEF IInv, TypeOK, RowsInv, Winding, Routine
      <3> QED
        BY Zenon, <2>2, <3>1, StillKeeps
    <2> QED
      BY Zenon, <1>16, <2>1, <2>2 DEF replayThenTail
  <1>17. ASSUME NEW s \in Subs, replayFails(s) \/ clientLeaves(s) PROVE IInv' /\ FeedStep
    BY Zenon, <1>15, <1>17 DEF replayFails, clientLeaves
  <1>18. CASE UNCHANGED vars
    BY ZenonT(60), <1>18
       DEF vars, IInv, TypeOK, RowsInv, WiredInv, FreshInv, CloseInv, QuietAfterClose, Busy,
           Attached, stream, cursor
  <1>19. ASSUME NEW g \in 1..Pumps, PumpStep(g) \/ pumpFails(g) PROVE IInv' /\ FeedStep
    BY Zenon, <1>5, <1>6, <1>7, <1>8, <1>19 DEF PumpStep
  <1>20. ASSUME NEW s \in Subs, ReplayStep(s) PROVE IInv' /\ FeedStep
    BY Zenon, <1>12, <1>13, <1>14, <1>16, <1>20 DEF ReplayStep
  <1> QED
    BY Zenon, <1>1, <1>2, <1>3, <1>4, <1>9, <1>10, <1>11, <1>17, <1>18, <1>19, <1>20 DEF Next

\* The three hold together.
LEMMA Invariant == ASSUME Bounded PROVE Spec => []IInv
  <1>1. IInv /\ [Next]_vars => IInv'
    BY NextStep
  <1> QED
    BY <1>1, InitIInv, PTL DEF Spec

\* Broadcaster implements EventFeed: whatever pumps and replays race to send, a
\* subscriber's channel carries entries past its cursor, in order, once each, and
\* nothing after it was closed (send, lastSent, detachLocked).
THEOREM FeedRefinement == ASSUME Bounded PROVE Spec => ImplementsFeed
  <1>1. Init => FeedInit
    BY Zenon DEF Init, FeedInit, Feed!Init, stream, cursor
  <1>2. IInv /\ [Next]_vars => [FeedStep]_vars
    BY Zenon, NextStep
  <1> QED
    BY <1>1, <1>2, Invariant, PTL DEF Spec, ImplementsFeed

\* Typed events reach the audience, and once Close has returned no goroutine of
\* the broadcaster reads the event log (detachLocked, register, Close).
THEOREM WiredAndQuiet == ASSUME Bounded PROVE Spec => [](AudienceIsWired /\ QuietAfterClose)
  <1>1. IInv => AudienceIsWired /\ QuietAfterClose
    BY Zenon DEF IInv, WiredInv, CloseInv, AudienceIsWired
  <1> QED
    BY <1>1, Invariant, PTL

-----------------------------------------------------------------------------
\* The A2A server's tasks.

CONSTANTS Calls, MaxBoots, None
VARIABLES task, session, holder, closing, boots, call, canceled

Tasks == INSTANCE A2ATasks

Steps == {"idle", "lock", "turn", "classify", "settle", "reply", "abort", "report", "done"}
Outcomes == {"none", "ok", "pause", "conflict", "unavailable", "error"} \cup Tasks!States
Answerable == Tasks!States \cup {"nothing", "error"}
CallRecord == [verb : {"send", "cancel"}, pc : Steps, got : Outcomes, told : Answerable]

\* A call at one of these steps serves a message that has not left the registry yet.
Marking(c) == call[c].pc \in {"lock", "turn", "classify", "settle"}

\* Only a tasks/cancel aborts and reports, and what it reports on is aborted; a
\* marker of work belongs to a message that will settle it; and a process that has
\* answered "canceled" keeps that state.
TaskInv ==
  /\ task \in Tasks!States \cup {None} /\ canceled \in BOOLEAN
  /\ session \in [row : BOOLEAN, aborted : BOOLEAN, pending : BOOLEAN]
  /\ call \in [Calls -> CallRecord]
  /\ \A c \in Calls : call[c].verb = "cancel" <=> call[c].pc \in {"abort", "report"}
  /\ \A c \in Calls : call[c].pc = "report" => session.aborted
  /\ \A c \in Calls : call[c].pc = "settle" => call[c].got \in Tasks!States \cup {"unavailable"}
  /\ \A c \in Calls : call[c].pc = "reply" => call[c].got \in Tasks!States
  /\ task = "working" => \E c \in Calls : Marking(c)
  /\ canceled => task = "canceled"

\* The registry's answer is a state, or there is none.
LEMMA Answers ==
  ASSUME None \notin Tasks!States, TaskInv
  PROVE  /\ Tasks!mapTranscriptState \in {"canceled", "input-required", "working"}
         /\ Tasks!GetTask \in Tasks!States \cup {"not found"}
         /\ canceled => Tasks!GetTask = "canceled"
         /\ session.aborted => Tasks!mapTranscriptState = "canceled"
  BY ZenonT(60) DEF TaskInv, Tasks!mapTranscriptState, Tasks!GetTask, Tasks!States, Tasks!Terminal

\* What a call is told reaches nobody else, and so does its progress.
LEMMA Told ==
  ASSUME TaskInv, NEW c \in Calls, NEW what \in Answerable, Tasks!Tell(c, what)
  PROVE  /\ call' \in [Calls -> CallRecord]
         /\ call'[c].verb = "send" /\ call'[c].pc = "done" /\ call'[c].told = what
         /\ \A d \in Calls \ {c} : call'[d] = call[d]
  <1> DEFINE r == [Tasks!Fresh EXCEPT !.pc = "done", !.told = what]
  <1>1. r \in CallRecord /\ r.verb = "send" /\ r.pc = "done" /\ r.told = what
    BY Zenon DEF CallRecord, Steps, Outcomes, Answerable, Tasks!Fresh
  <1>2. call' = [call EXCEPT ![c] = r]
    BY Zenon DEF Tasks!Tell
  <1> HIDE DEF r
  <1> QED
    BY <1>1, <1>2 DEF TaskInv

LEMMA Stepped ==
  ASSUME TaskInv, NEW c \in Calls, NEW pc \in Steps, NEW was \in Outcomes, Tasks!Step(c, pc, was)
  PROVE  /\ call' \in [Calls -> CallRecord]
         /\ call'[c].verb = call[c].verb /\ call'[c].pc = pc /\ call'[c].told = call[c].told /\ call'[c].got = was
         /\ \A d \in Calls \ {c} : call'[d] = call[d]
  <1>1. call[c] \in CallRecord
    BY Zenon DEF TaskInv
  <1> DEFINE r == [call[c] EXCEPT !.pc = pc]
             f == [call EXCEPT ![c] = r]
             s == [r EXCEPT !.got = was]
  <1>2. r \in CallRecord /\ r.verb = call[c].verb /\ r.pc = pc /\ r.told = call[c].told
    BY Zenon, <1>1 DEF CallRecord, Steps
  <1>3. f \in [Calls -> CallRecord] /\ f[c] = r /\ \A d \in Calls \ {c} : f[d] = call[d]
    <2> HIDE DEF r
    <2> QED
      BY ZenonT(60), <1>2 DEF TaskInv
  <1>4. call' = [f EXCEPT ![c].got = was]
    BY DEF Tasks!Step
  <1> HIDE DEF r, f
  <1>5. s \in CallRecord /\ s.verb = r.verb /\ s.pc = r.pc /\ s.told = r.told /\ s.got = was
    BY Zenon, <1>2 DEF CallRecord, Outcomes
  <1>6. call' = [f EXCEPT ![c] = s]
    BY Zenon, <1>3, <1>4
  <1> HIDE DEF s
  <1> QED
    BY <1>2, <1>3, <1>5, <1>6 DEF TaskInv

LEMMA InitTaskInv == ASSUME None \notin Tasks!States, Tasks!Init PROVE TaskInv
  BY Zenon DEF Tasks!Init, TaskInv, CallRecord, Steps, Outcomes, Answerable, Tasks!Fresh, Tasks!States, Marking

\* A call that is told something stops marking; every other call is as it was.
LEMMA NextTask ==
  ASSUME None \notin Tasks!States, TaskInv, [Tasks!Next]_Tasks!a2aVars
  PROVE  TaskInv' /\ Tasks!SaysCanceled
  <1> USE DEF Tasks!process
  <1>1. ASSUME NEW c \in Calls, Tasks!handleTasksGet(c) PROVE TaskInv' /\ Tasks!SaysCanceled
    <2>1. PICK what \in Answerable : Tasks!Tell(c, what) /\ (canceled => what \in {"canceled", "error"})
      BY Zenon, <1>1, Answers DEF Tasks!handleTasksGet, Answerable
    <2>2. call[c].pc = "idle" /\ UNCHANGED <<task, session, canceled>>
      BY Zenon, <1>1 DEF Tasks!handleTasksGet
    <2> QED
      BY <2>1, <2>2, Told DEF TaskInv, Marking, Tasks!SaysCanceled, Tasks!States, Tasks!Terminal
  <1>2. ASSUME NEW c \in Calls, Tasks!runTask(c) PROVE TaskInv' /\ Tasks!SaysCanceled
    <2>1. call[c].pc = "idle" /\ UNCHANGED <<session, canceled>>
      BY Zenon, <1>2 DEF Tasks!runTask
    <2>2. CASE Tasks!record("working") /\ Tasks!Step(c, "lock", "none")
      <3>1. "lock" \in Steps /\ "none" \in Outcomes
        BY DEF Steps, Outcomes
      <3> QED
        BY <2>1, <2>2, <3>1, Stepped
           DEF TaskInv, Marking, Tasks!SaysCanceled, Tasks!record, Tasks!States, Tasks!Terminal
    <2>3. CASE Tasks!Tell(c, "error") /\ UNCHANGED task
      <3>1. "error" \in Answerable
        BY DEF Answerable
      <3> QED
        BY <2>1, <2>3, <3>1, Told DEF TaskInv, Marking, Tasks!SaysCanceled, Tasks!States, Tasks!Terminal
    <2> QED
      BY Zenon, <1>2, <2>2, <2>3 DEF Tasks!runTask
  <1>3. ASSUME NEW c \in Calls, Tasks!runTurnPre(c) PROVE TaskInv' /\ Tasks!SaysCanceled
    <2>1. PICK pc \in {"turn", "classify"}, was \in Outcomes : Tasks!Step(c, pc, was)
      BY <1>3 DEF Tasks!runTurnPre, Outcomes
    <2>2. /\ call[c].pc = "lock" /\ UNCHANGED <<task, canceled>>
          /\ session' \in {session, [session EXCEPT !.row = TRUE, !.pending = FALSE]}
      BY Zenon, <1>3 DEF Tasks!runTurnPre
    <2>3. session' \in [row : BOOLEAN, aborted : BOOLEAN, pending : BOOLEAN] /\ session'.aborted = session.aborted
      BY Zenon, <2>2 DEF TaskInv
    <2> QED
      BY <2>1, <2>2, <2>3, Stepped DEF TaskInv, Marking, Tasks!SaysCanceled, Steps
  <1>4. ASSUME NEW c \in Calls, Tasks!turnEnds(c) PROVE TaskInv' /\ Tasks!SaysCanceled
    <2>1. PICK was \in Outcomes : Tasks!Step(c, "classify", was)
      BY Zenon, <1>4 DEF Tasks!turnEnds, Outcomes
    <2>2. /\ call[c].pc = "turn" /\ UNCHANGED <<task, canceled>>
          /\ session' \in {session, [session EXCEPT !.pending = TRUE]}
      BY Zenon, <1>4 DEF Tasks!turnEnds
    <2>3. session' \in [row : BOOLEAN, aborted : BOOLEAN, pending : BOOLEAN] /\ session'.aborted = session.aborted
      BY Zenon, <2>2 DEF TaskInv
    <2> QED
      BY <2>1, <2>2, <2>3, Stepped DEF TaskInv, Marking, Tasks!SaysCanceled, Steps
  <1>5. ASSUME NEW c \in Calls, Tasks!classifyTurn(c) PROVE TaskInv' /\ Tasks!SaysCanceled
    <2>1. PICK was \in Outcomes : Tasks!Step(c, "settle", was) /\ was \in Tasks!States \cup {"unavailable"}
      BY Zenon, <1>5, Answers DEF Tasks!classifyTurn, Outcomes, Tasks!States, Tasks!Terminal
    <2>2. call[c].pc = "classify" /\ UNCHANGED <<task, session, canceled>>
      BY Zenon, <1>5 DEF Tasks!classifyTurn
    <2> QED
      BY <2>1, <2>2, Stepped DEF TaskInv, Marking, Tasks!SaysCanceled, Steps
  <1>6. ASSUME NEW c \in Calls, Tasks!settle(c) PROVE TaskInv' /\ Tasks!SaysCanceled
    <2>1. /\ call[c].pc = "settle" /\ call[c].got \in Outcomes /\ UNCHANGED <<session, canceled>>
          /\ Tasks!Tell(c, "error") \/ (call[c].got \in Tasks!States /\ Tasks!Step(c, "reply", call[c].got))
      BY Zenon, <1>6 DEF Tasks!settle, TaskInv, CallRecord
    <2>2. /\ task' \in Tasks!States \cup {None} /\ task' # "working"
          /\ task = "canceled" => task' = "canceled"
      BY Zenon, <1>6 DEF Tasks!settle, Tasks!record, Tasks!clearInFlight, TaskInv, Tasks!States, Tasks!Terminal
    <2>3. "reply" \in Steps /\ "error" \in Answerable
      BY DEF Steps, Answerable
    <2> QED
      BY <2>1, <2>2, <2>3, Stepped, Told DEF TaskInv, Marking, Tasks!SaysCanceled, Tasks!States, Tasks!Terminal
  <1>7. ASSUME NEW c \in Calls, Tasks!reply(c) PROVE TaskInv' /\ Tasks!SaysCanceled
    <2>1. call[c].pc = "reply" /\ UNCHANGED <<task, session, canceled>>
      BY Zenon, <1>7 DEF Tasks!reply
    <2>2. PICK what \in Tasks!States : Tasks!Tell(c, what) /\ (canceled => what = "canceled")
      BY Zenon, <1>7, <2>1 DEF Tasks!reply, TaskInv, Tasks!States, Tasks!Terminal
    <2>3. /\ call' \in [Calls -> CallRecord] /\ \A d \in Calls \ {c} : call'[d] = call[d]
          /\ call'[c].verb = "send" /\ call'[c].pc = "done" /\ call'[c].told = what
      BY Zenon, <2>2, Told DEF Answerable
    <2>4. TaskInv'
      BY <2>1, <2>3 DEF TaskInv, Marking
    <2> QED
      BY Zenon, <2>2, <2>3, <2>4 DEF Tasks!SaysCanceled
  <1>8. ASSUME NEW c \in Calls, Tasks!handleTasksCancel(c) PROVE TaskInv' /\ Tasks!SaysCanceled
    <2>1. call[c].pc = "idle" /\ UNCHANGED <<task, session, canceled>>
      BY Zenon, <1>8 DEF Tasks!handleTasksCancel
    <2>2. CASE call' = [call EXCEPT ![c].verb = "cancel", ![c].pc = "abort"]
      <3> DEFINE r == [call[c] EXCEPT !.verb = "cancel"]
                 f == [call EXCEPT ![c] = r]
                 s == [r EXCEPT !.pc = "abort"]
      <3>1. call[c] \in CallRecord
        BY DEF TaskInv
      <3>2. r \in CallRecord /\ r.verb = "cancel" /\ r.told = call[c].told
        BY Zenon, <3>1 DEF CallRecord
      <3>3. f \in [Calls -> CallRecord] /\ f[c] = r /\ \A d \in Calls \ {c} : f[d] = call[d]
        <4> HIDE DEF r
        <4> QED
          BY <3>2 DEF TaskInv
      <3>4. call' = [f EXCEPT ![c].pc = "abort"]
        BY <2>2
      <3> HIDE DEF r, f
      <3>5. s \in CallRecord /\ s.verb = "cancel" /\ s.pc = "abort" /\ s.told = r.told
        BY <3>2 DEF CallRecord, Steps
      <3>6. call' = [f EXCEPT ![c] = s]
        BY <3>3, <3>4
      <3> HIDE DEF s
      <3> QED
        <4>1. call'[c] = s /\ \A d \in Calls \ {c} : call'[d] = call[d]
          BY Zenon, <3>3, <3>6
        <4>2. call' \in [Calls -> CallRecord]
          BY Zenon, <3>3, <3>5, <3>6
        <4>3. TaskInv'
          BY <2>1, <3>5, <4>1, <4>2 DEF TaskInv, Marking
        <4> QED
          BY Zenon, <3>2, <3>5, <4>1, <4>3 DEF Tasks!SaysCanceled
    <2>3. CASE Tasks!Tell(c, "error")
      <3>1. "error" \in Answerable
        BY DEF Answerable
      <3> QED
        BY <2>1, <2>3, <3>1, Told DEF TaskInv, Marking, Tasks!SaysCanceled, Tasks!States, Tasks!Terminal
    <2> QED
      BY Zenon, <1>8, <2>2, <2>3 DEF Tasks!handleTasksCancel
  <1>9. ASSUME NEW c \in Calls, Tasks!recordAbort(c) PROVE TaskInv' /\ Tasks!SaysCanceled
    <2>1. call[c].pc = "abort" /\ call[c].verb = "cancel" /\ UNCHANGED <<task, canceled>>
      BY <1>9 DEF Tasks!recordAbort, TaskInv
    <2>2. CASE session' = [session EXCEPT !.aborted = TRUE] /\ Tasks!Step(c, "report", "none")
      <3>1. session' \in [row : BOOLEAN, aborted : BOOLEAN, pending : BOOLEAN] /\ session'.aborted
        BY Zenon, <2>2 DEF TaskInv
      <3>2. "report" \in Steps /\ "none" \in Outcomes
        BY DEF Steps, Outcomes
      <3> QED
        BY <2>1, <2>2, <3>1, <3>2, Stepped DEF TaskInv, Marking, Tasks!SaysCanceled
    <2>3. CASE Tasks!Tell(c, "error") /\ UNCHANGED session
      <3>1. "error" \in Answerable
        BY DEF Answerable
      <3> QED
        BY <2>1, <2>3, <3>1, Told DEF TaskInv, Marking, Tasks!SaysCanceled, Tasks!States, Tasks!Terminal
    <2> QED
      BY Zenon, <1>9, <2>2, <2>3 DEF Tasks!recordAbort
  <1>10. ASSUME NEW c \in Calls, Tasks!CancelTask(c) PROVE TaskInv' /\ Tasks!SaysCanceled
    <2>1. call[c].pc = "report" /\ UNCHANGED session /\ Tasks!mapTranscriptState = "canceled"
      BY Zenon, <1>10, Answers DEF Tasks!CancelTask, TaskInv
    <2>2. task' = "canceled" /\ Tasks!Tell(c, "canceled") /\ canceled' \in BOOLEAN
      BY <1>10, <2>1 DEF Tasks!CancelTask, Tasks!record, TaskInv
    <2> QED
      BY <2>1, <2>2, Told DEF TaskInv, Marking, Tasks!SaysCanceled, Answerable, Tasks!States, Tasks!Terminal
  <1>11. CASE Tasks!Operator
    BY ZenonT(60), <1>11 DEF Tasks!Operator, TaskInv, Marking, Tasks!SaysCanceled
  <1>12. CASE Tasks!BeginDrain
    BY <1>12 DEF Tasks!BeginDrain, TaskInv, Marking, Tasks!SaysCanceled
  <1>13. CASE Tasks!Restart
    BY Zenon, <1>13 DEF Tasks!Restart, TaskInv, CallRecord, Steps, Outcomes, Answerable, Marking,
                 Tasks!SaysCanceled, Tasks!Fresh, Tasks!States, Tasks!Terminal
  <1>14. CASE UNCHANGED Tasks!a2aVars
    BY <1>14 DEF Tasks!a2aVars, TaskInv, Marking, Tasks!SaysCanceled
  <1> QED
    BY ZenonT(60), <1>1, <1>2, <1>3, <1>4, <1>5, <1>6, <1>7, <1>8, <1>9, <1>10, <1>11, <1>12, <1>13, <1>14
       DEF Tasks!Next

\* However many calls name a task and however they interleave with its turn, its
\* drain and its restarts: a task is reported as working only while a message of
\* it is in flight (record, clearInFlight).
THEOREM WorkIsInFlight == ASSUME None \notin Tasks!States PROVE Tasks!Spec => []Tasks!NoPhantomWork
  <1>1. TaskInv => Tasks!NoPhantomWork
    BY DEF TaskInv, CallRecord, Marking, Tasks!NoPhantomWork, Tasks!InFlight
  <1>2. TaskInv /\ [Tasks!Next]_Tasks!a2aVars => TaskInv'
    BY Zenon, NextTask
  <1> QED
    BY <1>1, <1>2, InitTaskInv, PTL DEF Tasks!Spec

\* Once a tasks/cancel was answered, every later answer of the process that names a
\* state says "canceled": a turn that was finishing, or a message sent afterwards,
\* does not overwrite it (record, GetTask, runTask).
THEOREM CanceledStays == ASSUME None \notin Tasks!States PROVE Tasks!Spec => Tasks!CancelWins
  <1>1. TaskInv /\ [Tasks!Next]_Tasks!a2aVars => TaskInv' /\ Tasks!SaysCanceled
    BY Zenon, NextTask
  <1> QED
    BY <1>1, InitTaskInv, PTL DEF Tasks!Spec, Tasks!CancelWins

-----------------------------------------------------------------------------
\* An AG-UI thread.

CONSTANTS Runs, Depth, Interrupts, Authors
VARIABLES queued, turn, refusing, thread, run

Thread == INSTANCE AGUI

RunRecord ==
  [pc : {"idle", "resume", "open", "lock", "turn", "classify", "done"},
   ans : Interrupts \cup {None}, stream : {"none", "open", "retired"}, step : Authors \cup {None},
   parked : BOOLEAN, err : {"none", "ok", "conflict", "other"},
   told : Thread!Endings \cup {"nothing", "refused"}]

\* Finitely many runs, and a depth that is a number.
Posted == Thread!IsFiniteSet(Runs) /\ Depth \in Nat

\* What a run has sent and been told follows from where it is.
Ordered(w) ==
  /\ w.pc \in {"idle", "resume", "open"} => w.stream = "none"
  /\ w.pc \in {"lock", "turn", "classify"} => w.stream # "none"
  /\ w.pc # "done" => w.told = "nothing"
  /\ w.pc # "turn" => w.step = None
  /\ w.told = "refused" => w.stream = "none"
  /\ w.told \in Thread!Endings => w.stream # "none"

ThreadInv ==
  /\ queued \in Nat /\ run \in [Runs -> RunRecord]
  /\ \A r \in Runs : Ordered(run[r])
  /\ Thread!SlotsAccounted

\* A run's own step reaches no other run.
LEMMA RunSet ==
  ASSUME ThreadInv, NEW r \in Runs, NEW w \in RunRecord, Thread!Set(r, w)
  PROVE  /\ run' \in [Runs -> RunRecord] /\ run'[r] = w
         /\ \A p \in Runs \ {r} : run'[p] = run[p]
  BY Zenon DEF ThreadInv, Thread!Set

\* A run with its slot, and one whose step keeps its frames in order, takes a free
\* slot or gives its own back, and announces only a success it earned.
Held(w) == w.pc \in {"resume", "open", "lock", "turn", "classify"}
RunStep(r, w) ==
  /\ Thread!Set(r, w) /\ Ordered(w)
  /\ \/ Held(run[r]) /\ Held(w) /\ UNCHANGED queued
     \/ ~Held(run[r]) /\ ~Held(w) /\ UNCHANGED queued
     \/ ~Held(run[r]) /\ Held(w) /\ queued' = queued + 1 /\ queued < Thread!runQueueLimit
     \/ Held(run[r]) /\ ~Held(w) /\ Thread!release
  /\ w.told = "success" => run[r].err = "ok" /\ ~run[r].parked
Moved == \E r \in Runs : \E w \in RunRecord : RunStep(r, w)

LEMMA RunSteps ==
  ASSUME NEW r \in Runs, NEW w \in RunRecord, Thread!Set(r, w), Ordered(w),
         \/ Held(run[r]) /\ Held(w) /\ UNCHANGED queued
         \/ ~Held(run[r]) /\ ~Held(w) /\ UNCHANGED queued
         \/ ~Held(run[r]) /\ Held(w) /\ queued' = queued + 1 /\ queued < Thread!runQueueLimit
         \/ Held(run[r]) /\ ~Held(w) /\ Thread!release,
         w.told = "success" => run[r].err = "ok" /\ ~run[r].parked
  PROVE  Moved
  BY Zenon DEF Moved, RunStep

\* Every step of a run, of the other doors and of the drain.
LEMMA ThreadSteps ==
  ASSUME Posted, ThreadInv, [Thread!Next]_Thread!aguiVars
  PROVE  Moved \/ UNCHANGED <<queued, run>>
  <1>0. \A r \in Runs : run[r] \in RunRecord /\ Ordered(run[r])
    BY DEF ThreadInv
  <1>1. ASSUME NEW r \in Runs, Thread!Refuse(r), run[r].pc \in {"idle", "resume"},
               \/ run[r].pc = "idle" /\ UNCHANGED queued
               \/ run[r].pc = "resume" /\ Thread!release
        PROVE  Moved
    <2> DEFINE w == [run[r] EXCEPT !.pc = "done", !.ans = None, !.told = "refused"]
    <2>1. /\ w \in RunRecord /\ w.pc = "done" /\ w.told = "refused" /\ w.stream = run[r].stream
          /\ w.step = run[r].step
      BY ZenonT(60), <1>0 DEF RunRecord
    <2>2. Thread!Set(r, w)
      BY Zenon, <1>1 DEF Thread!Refuse
    <2> HIDE DEF w
    <2>3. Ordered(w)
      BY Zenon, <1>0, <1>1, <2>1 DEF Ordered, Thread!Endings
    <2> QED
      BY <1>1, <2>1, <2>2, <2>3, RunSteps DEF Held
  <1>2. ASSUME NEW r \in Runs, Thread!admit(r) PROVE Moved
    <2>1. CASE Thread!Refuse(r) /\ UNCHANGED queued
      BY Zenon, <1>1, <1>2, <2>1 DEF Thread!admit
    <2>2. ASSUME NEW a \in Interrupts \cup {None}, ~(queued >= Thread!runQueueLimit), queued' = queued + 1,
                 Thread!Set(r, [run[r] EXCEPT !.pc = IF a = None THEN "open" ELSE "resume", !.ans = a])
          PROVE  Moved
      <3> DEFINE w == [run[r] EXCEPT !.pc = IF a = None THEN "open" ELSE "resume", !.ans = a]
      <3>1. /\ w \in RunRecord /\ w.pc \in {"open", "resume"} /\ w.told = run[r].told
            /\ w.stream = run[r].stream /\ w.step = run[r].step /\ run[r].pc = "idle"
        BY ZenonT(60), <1>0, <1>2 DEF RunRecord, Thread!admit
      <3>2. Thread!Set(r, w) /\ queued < Thread!runQueueLimit
        BY <2>2 DEF ThreadInv, Thread!runQueueLimit, Posted
      <3> HIDE DEF w
      <3>3. Ordered(w) /\ w.told # "success"
        BY Zenon, <1>0, <3>1 DEF Ordered, Thread!Endings
      <3> QED
        BY Zenon, <2>2, <3>1, <3>2, <3>3, RunSteps DEF Held
    <2> QED
      BY Zenon, <1>2, <2>1, <2>2 DEF Thread!admit
  <1>3. ASSUME NEW r \in Runs, Thread!buildResumeMessage(r) PROVE Moved
    <2>1. CASE Thread!Refuse(r) /\ Thread!release
      BY Zenon, <1>1, <1>3, <2>1 DEF Thread!buildResumeMessage
    <2>2. CASE Thread!Set(r, [run[r] EXCEPT !.pc = "open"]) /\ UNCHANGED queued
      <3> DEFINE w == [run[r] EXCEPT !.pc = "open"]
      <3>1. /\ w \in RunRecord /\ w.pc = "open" /\ w.told = run[r].told
            /\ w.stream = run[r].stream /\ w.step = run[r].step /\ run[r].pc = "resume"
        BY <1>0, <1>3 DEF RunRecord, Thread!buildResumeMessage
      <3> HIDE DEF w
      <3>2. Ordered(w) /\ w.told # "success"
        BY Zenon, <1>0, <3>1 DEF Ordered, Thread!Endings
      <3>3. Thread!Set(r, w)
        BY Zenon, <2>2 DEF w
      <3> QED
        BY Zenon, <2>2, <3>1, <3>2, <3>3, RunSteps DEF Held
    <2> QED
      BY Zenon, <1>3, <2>1, <2>2 DEF Thread!buildResumeMessage
  <1>4. ASSUME NEW r \in Runs, Thread!RunStarted(r) PROVE Moved
    <2>1. PICK s \in {"open", "retired"} : Thread!Set(r, [run[r] EXCEPT !.pc = "lock", !.stream = s])
      BY Zenon, <1>4 DEF Thread!RunStarted, Thread!emit
    <2> DEFINE w == [run[r] EXCEPT !.pc = "lock", !.stream = s]
    <2>2. /\ w \in RunRecord /\ w.pc = "lock" /\ w.told = run[r].told
          /\ w.stream = s /\ w.step = run[r].step /\ run[r].pc = "open" /\ UNCHANGED queued
      BY ZenonT(60), <1>0, <1>4 DEF RunRecord, Thread!RunStarted
    <2> HIDE DEF w
    <2>3. Ordered(w) /\ w.told # "success"
      BY Zenon, <1>0, <2>2 DEF Ordered, Thread!Endings
    <2>4. Thread!Set(r, w)
      BY Zenon, <2>1 DEF w
    <2> QED
      BY ZenonT(60), <2>2, <2>3, <2>4, RunSteps DEF Held
  <1>5. ASSUME NEW r \in Runs, run[r].pc = "lock", UNCHANGED queued, NEW e \in {"conflict", "other"},
               Thread!Set(r, [run[r] EXCEPT !.pc = "classify", !.err = e])
        PROVE  Moved
    <2> DEFINE w == [run[r] EXCEPT !.pc = "classify", !.err = e]
    <2>1. /\ w \in RunRecord /\ w.pc = "classify" /\ w.told = run[r].told
          /\ w.stream = run[r].stream /\ w.step = run[r].step
      BY ZenonT(60), <1>0 DEF RunRecord
    <2> HIDE DEF w
    <2>2. Ordered(w) /\ w.told # "success"
      BY Zenon, <1>0, <1>5, <2>1 DEF Ordered, Thread!Endings
    <2>3. Thread!Set(r, w)
      BY Zenon, <1>5 DEF w
    <2> QED
      BY ZenonT(60), <1>5, <2>1, <2>2, <2>3, RunSteps DEF Held
  <1>6. ASSUME NEW r \in Runs, Thread!runTurnPre(r) PROVE Moved
    <2>1. run[r].pc = "lock" /\ UNCHANGED queued
      BY Zenon, <1>6 DEF Thread!runTurnPre
    <2>2. CASE Thread!Set(r, [run[r] EXCEPT !.pc = "turn"])
      <3> DEFINE w == [run[r] EXCEPT !.pc = "turn"]
      <3>1. /\ w \in RunRecord /\ w.pc = "turn" /\ w.told = run[r].told /\ w.stream = run[r].stream
        BY <1>0 DEF RunRecord
      <3> HIDE DEF w
      <3>2. Ordered(w) /\ w.told # "success"
        BY Zenon, <1>0, <2>1, <3>1 DEF Ordered, Thread!Endings
      <3>3. Thread!Set(r, w)
        BY Zenon, <2>2 DEF w
      <3> QED
        BY Zenon, <2>1, <3>1, <3>2, <3>3, RunSteps DEF Held
    <2> QED
      BY Zenon, <1>5, <1>6, <2>1, <2>2 DEF Thread!runTurnPre
  <1>7. ASSUME NEW r \in Runs, Thread!onEvent(r) PROVE Moved
    <2>1. PICK author \in Authors, s \in {"open", "retired"} :
            Thread!Set(r, [run[r] EXCEPT !.step = author, !.stream = s])
      BY Zenon, <1>7 DEF Thread!onEvent, Thread!emit
    <2> DEFINE w == [run[r] EXCEPT !.step = author, !.stream = s]
    <2>2. /\ w \in RunRecord /\ w.pc = run[r].pc /\ w.told = run[r].told /\ w.stream = s
          /\ run[r].pc = "turn" /\ UNCHANGED queued
      BY ZenonT(60), <1>0, <1>7 DEF RunRecord, Thread!onEvent
    <2> HIDE DEF w
    <2>3. Ordered(w) /\ w.told # "success"
      BY Zenon, <1>0, <2>2 DEF Ordered, Thread!Endings
    <2>4. Thread!Set(r, w)
      BY Zenon, <2>1 DEF w
    <2> QED
      BY Zenon, <2>2, <2>3, <2>4, RunSteps DEF Held
  <1>8. ASSUME NEW r \in Runs, Thread!turnEnds(r) PROVE Moved
    <2> DEFINE a == [run[r] EXCEPT !.pc = "classify", !.err = "ok", !.step = None]
               b == [run[r] EXCEPT !.pc = "classify", !.err = "ok", !.step = None, !.parked = TRUE]
               c == [run[r] EXCEPT !.pc = "classify", !.err = "other", !.step = None]
               Ended(w) == /\ w \in RunRecord /\ w.pc = "classify" /\ w.told = run[r].told
                           /\ w.stream = run[r].stream /\ w.step = None
    <2>1. Ended(a) /\ Ended(b) /\ Ended(c)
      BY ZenonT(60), <1>0 DEF RunRecord
    <2>2. /\ Thread!Set(r, a) \/ Thread!Set(r, b) \/ Thread!Set(r, c)
          /\ run[r].pc = "turn" /\ UNCHANGED queued
      BY Zenon, <1>8 DEF Thread!turnEnds, Thread!closeStep
    <2>3. PICK w : Thread!Set(r, w) /\ Ended(w)
      <3> HIDE DEF a, b, c, Ended
      <3> QED
        BY Zenon, <2>1, <2>2
    <2>4. Ordered(w) /\ w.told # "success"
      BY Zenon, <1>0, <2>2, <2>3 DEF Ordered, Thread!Endings
    <2> QED
      BY ZenonT(60), <2>2, <2>3, <2>4, RunSteps DEF Held
  <1>9. ASSUME NEW r \in Runs, Thread!RunAgentReturns(r) PROVE Moved
    <2>1. PICK readable \in BOOLEAN, s \in {"open", "retired"} :
            Thread!Set(r, [Thread!Fresh EXCEPT !.pc = "done", !.stream = s, !.step = run[r].step,
                                               !.told = Thread!classifyRun(r, readable)])
      BY Zenon, <1>9 DEF Thread!RunAgentReturns, Thread!emit
    <2>2. run[r].pc = "classify" /\ Thread!release /\ run[r].step = None
      BY Zenon, <1>0, <1>9 DEF Thread!RunAgentReturns, Ordered
    <2>3. /\ Thread!classifyRun(r, readable) \in Thread!Endings
          /\ Thread!classifyRun(r, readable) = "success" => run[r].err = "ok" /\ ~run[r].parked
      BY Zenon DEF Thread!classifyRun, Thread!dispositionFromStore, Thread!Endings
    <2> DEFINE t == Thread!classifyRun(r, readable)
               w == [Thread!Fresh EXCEPT !.pc = "done", !.stream = s, !.step = run[r].step, !.told = t]
    <2>4. w \in RunRecord /\ w.pc = "done" /\ w.stream = s /\ w.step = None /\ w.told = t
      <3> HIDE DEF t
      <3>1. t \in Thread!Endings
        BY <2>3 DEF t
      <3> QED
        BY Zenon, <2>2, <3>1 DEF RunRecord, Thread!Fresh
    <2>5. Thread!Set(r, w)
      BY Zenon, <2>1
    <2> HIDE DEF t, w
    <2>6. Ordered(w) /\ (w.told = "success" => run[r].err = "ok" /\ ~run[r].parked)
      BY Zenon, <2>3, <2>4 DEF Ordered, Thread!Endings, t
    <2> QED
      BY ZenonT(60), <2>2, <2>4, <2>5, <2>6, RunSteps DEF Held
  <1>10. ASSUME NEW r \in Runs, Thread!handleRunRefuses(r) PROVE Moved
    BY Zenon, <1>1, <1>10 DEF Thread!handleRunRefuses
  <1> QED
    BY ZenonT(60), <1>2, <1>3, <1>4, <1>6, <1>7, <1>8, <1>9, <1>10
       DEF Thread!Next, Thread!aguiVars, Thread!OtherDoors, Thread!Drain

\* What is known of finite sets, and that the thread counts its runs by it.
Sets == INSTANCE FiniteSetTheorems

LEMMA Counted == \A S : Thread!Cardinality(S) = Sets!Cardinality(S)
  BY ZenonT(60) DEF Thread!Cardinality, Sets!Cardinality

LEMMA Finite == \A S : Thread!IsFiniteSet(S) = Sets!IsFiniteSet(S)
  BY ZenonT(60) DEF Thread!IsFiniteSet, Sets!IsFiniteSet

LEMMA Accounts ==
  Thread!SlotsAccounted <=> /\ queued = Sets!Cardinality({r \in Runs : Thread!Holding(r)})
                            /\ queued <= Depth + 1
  BY Zenon, Counted DEF Thread!SlotsAccounted, Thread!runQueueLimit

\* The slots when one run steps: one more, one fewer, or the same.
LEMMA Slots ==
  ASSUME Posted, ThreadInv, NEW r \in Runs, NEW w \in RunRecord, Thread!Set(r, w)
  PROVE  LET holds == {p \in Runs : Thread!Holding(p)} IN
         /\ Sets!IsFiniteSet(holds) /\ Sets!Cardinality(holds) = queued
         /\ Thread!Holding(r) /\ Thread!Holding(r)' => holds' = holds
         /\ ~Thread!Holding(r) /\ ~Thread!Holding(r)' => holds' = holds
         /\ ~Thread!Holding(r) /\ Thread!Holding(r)' => Sets!Cardinality(holds') = queued + 1
         /\ Thread!Holding(r) /\ ~Thread!Holding(r)' => Sets!Cardinality(holds') = queued - 1 /\ queued >= 1
  <1> DEFINE holds == {p \in Runs : Thread!Holding(p)}
  <1>1. Sets!IsFiniteSet(holds) /\ Sets!Cardinality(holds) = queued
    <2>1. Sets!IsFiniteSet(holds)
      BY ZenonT(60), Finite, Sets!FS_Subset DEF Posted
    <2> QED
      BY ZenonT(60), <2>1, Accounts DEF ThreadInv
  <1>2. \A p \in Runs \ {r} : Thread!Holding(p)' <=> Thread!Holding(p)
    BY RunSet DEF Thread!Holding
  <1>3. Thread!Holding(r) /\ Thread!Holding(r)' => holds' = holds
    BY <1>2
  <1>4. ~Thread!Holding(r) /\ ~Thread!Holding(r)' => holds' = holds
    BY <1>2
  <1>5. ASSUME ~Thread!Holding(r), Thread!Holding(r)' PROVE Sets!Cardinality(holds') = queued + 1
    <2>1. holds' = holds \cup {r} /\ r \notin holds
      BY <1>2, <1>5
    <2> QED
      BY ZenonT(60), <1>1, <2>1, Sets!FS_AddElement
  <1>6. ASSUME Thread!Holding(r), ~Thread!Holding(r)' PROVE Sets!Cardinality(holds') = queued - 1 /\ queued >= 1
    <2>1. holds' = holds \ {r} /\ r \in holds
      BY <1>2, <1>6
    <2>2. Sets!Cardinality(holds') = queued - 1
      BY ZenonT(60), <1>1, <2>1, Sets!FS_RemoveElement
    <2>3. Sets!IsFiniteSet(holds')
      BY <1>1, <2>1, Sets!FS_RemoveElement
    <2> QED
      BY <2>2, <2>3, Sets!FS_CardinalityType DEF ThreadInv
  <1> QED
    BY ZenonT(60), <1>1, <1>3, <1>4, <1>5, <1>6

LEMMA RunKeeps ==
  ASSUME Posted, ThreadInv, NEW r \in Runs, NEW w \in RunRecord, RunStep(r, w)
  PROVE  ThreadInv' /\ Thread!EarnsSuccess
  <1> DEFINE holds == {p \in Runs : Thread!Holding(p)}
  <1>0. /\ Thread!Set(r, w) /\ Ordered(w)
        /\ \/ Held(run[r]) /\ Held(w) /\ UNCHANGED queued
           \/ ~Held(run[r]) /\ ~Held(w) /\ UNCHANGED queued
           \/ ~Held(run[r]) /\ Held(w) /\ queued' = queued + 1 /\ queued < Thread!runQueueLimit
           \/ Held(run[r]) /\ ~Held(w) /\ Thread!release
        /\ w.told = "success" => run[r].err = "ok" /\ ~run[r].parked
    BY ZenonT(60) DEF RunStep
  <1>1. /\ run' \in [Runs -> RunRecord] /\ run'[r] = w
        /\ \A p \in Runs \ {r} : run'[p] = run[p]
    BY ZenonT(60), <1>0, RunSet
  <1>2. Thread!EarnsSuccess
    BY ZenonT(60), <1>0, <1>1 DEF Thread!EarnsSuccess
  <1>3. \A p \in Runs : Ordered(run'[p])
    BY ZenonT(60), <1>0, <1>1 DEF ThreadInv
  <1>4. /\ Thread!Holding(r) <=> Held(run[r])
        /\ Thread!Holding(r)' <=> Held(w)
    BY ZenonT(60), <1>1 DEF Thread!Holding, Held
  <1>5. queued \in Nat /\ queued = Sets!Cardinality(holds) /\ queued <= Depth + 1 /\ Depth \in Nat
    BY ZenonT(60), Accounts DEF ThreadInv, Posted
  <1>6. /\ Held(run[r]) /\ Held(w) => holds' = holds
        /\ ~Held(run[r]) /\ ~Held(w) => holds' = holds
        /\ ~Held(run[r]) /\ Held(w) => Sets!Cardinality(holds') = queued + 1
        /\ Held(run[r]) /\ ~Held(w) => Sets!Cardinality(holds') = queued - 1 /\ queued >= 1
    BY ZenonT(60), <1>0, <1>4, Slots
  <1> HIDE DEF holds
  <1>7. queued' \in Nat /\ queued' = Sets!Cardinality(holds') /\ queued' <= Depth + 1
    BY <1>0, <1>5, <1>6 DEF Thread!release, Thread!runQueueLimit
  <1>8. Thread!SlotsAccounted'
    <2>1. queued' = Thread!Cardinality(holds') /\ queued' <= Thread!runQueueLimit
      BY ZenonT(60), <1>7, Counted DEF Thread!runQueueLimit
    <2> QED
      BY ZenonT(60), <2>1 DEF Thread!SlotsAccounted, holds
  <1> QED
    BY ZenonT(60), <1>1, <1>2, <1>3, <1>7, <1>8 DEF ThreadInv

LEMMA InitThread == ASSUME Posted, Thread!Init PROVE ThreadInv
  <1>1. run \in [Runs -> RunRecord] /\ \A r \in Runs : Ordered(run[r]) /\ ~Thread!Holding(r)
    BY DEF Thread!Init, Thread!Fresh, RunRecord, Ordered, Thread!Holding, Thread!Endings
  <1>2. {r \in Runs : Thread!Holding(r)} = {}
    BY <1>1
  <1>3. queued = Sets!Cardinality({r \in Runs : Thread!Holding(r)}) /\ queued \in Nat /\ queued <= Depth + 1
    BY <1>2, Sets!FS_EmptySet DEF Thread!Init, Posted
  <1> QED
    BY ZenonT(60), <1>1, <1>3, Accounts DEF ThreadInv

LEMMA NextThread ==
  ASSUME Posted, ThreadInv, [Thread!Next]_Thread!aguiVars
  PROVE  ThreadInv' /\ Thread!EarnsSuccess
  <1>1. CASE Moved
    BY ZenonT(60), <1>1, RunKeeps DEF Moved
  <1>2. CASE UNCHANGED <<queued, run>>
    BY ZenonT(60), <1>2 DEF ThreadInv, Thread!SlotsAccounted, Thread!Holding, Thread!EarnsSuccess
  <1> QED
    BY ZenonT(60), <1>1, <1>2, ThreadSteps

LEMMA ThreadInvariant == ASSUME Posted PROVE Thread!Spec => []ThreadInv
  <1>1. Thread!Init => ThreadInv
    BY ZenonT(60), InitThread
  <1>2. ThreadInv /\ [Thread!Next]_Thread!aguiVars => ThreadInv'
    BY ZenonT(60), NextThread
  <1> QED
    BY <1>1, <1>2, PTL DEF Thread!Spec

\* For any queue depth and any number of POSTs to a thread: the queue counts exactly
\* the runs that hold a slot, within its limit, and a client sees a status or an
\* ordered stream (RunAgent's early returns, closeStep).
THEOREM SlotsAndFrames == ASSUME Posted PROVE Thread!Spec => [](Thread!SlotsAccounted /\ Thread!OrderedEnd)
  <1>1. ThreadInv => Thread!SlotsAccounted /\ Thread!OrderedEnd
    BY ZenonT(60) DEF ThreadInv, Ordered, RunRecord, Thread!OrderedEnd, Thread!Endings
  <1> QED
    BY <1>1, ThreadInvariant, PTL

\* No interleaving of aborts, pauses, drains and failed reads has a client told of a
\* success its turn did not earn (classifyRun).
THEOREM SuccessEarned == ASSUME Posted PROVE Thread!Spec => Thread!SuccessIsEarned
  <1>1. ThreadInv /\ [Thread!Next]_Thread!aguiVars => Thread!EarnsSuccess
    BY ZenonT(60), NextThread
  <1> QED
    BY <1>1, ThreadInvariant, PTL DEF Thread!Spec, Thread!SuccessIsEarned

-----------------------------------------------------------------------------
\* One invoke_remote_agent call.

CONSTANTS HasCard, HasSkill
VARIABLES pc, ctx, remote, known, cancels, outcome

Client == INSTANCE A2AClient

\* Nothing is returned before the end, and no task is known before the reply.
ClientInv ==
  /\ Client!TypeOK /\ Client!OpenTaskIsCancelled
  /\ pc # "done" => outcome = "none"
  /\ pc \in {"dispatch", "skill", "endpoint", "send"} => known = "none"

\* Every step of a call, of the remote agent or of the context keeps it.
LEMMA NextClientInv == ClientInv /\ [Client!Next]_Client!clientVars => ClientInv'
  <1> SUFFICES ASSUME ClientInv, [Client!Next]_Client!clientVars PROVE ClientInv'
    OBVIOUS
  <1> USE DEF ClientInv, Client!TypeOK, Client!OpenTaskIsCancelled, Client!Terminal, Client!Blocked,
              Client!States, Client!Errors, Client!Return, Client!Goto
  <1>1. CASE Client!Invoke
    BY ZenonT(60), <1>1 DEF Client!Invoke
  <1>2. CASE Client!checkSkill
    BY ZenonT(60), <1>2 DEF Client!checkSkill, Client!CallErrors
  <1>3. CASE Client!endpointURL
    BY ZenonT(60), <1>3 DEF Client!endpointURL, Client!CallErrors
  <1>4. CASE Client!SendMessage
    BY ZenonT(60), <1>4 DEF Client!SendMessage, Client!CallErrors
  <1>5. CASE Client!pollHead
    BY ZenonT(60), <1>5 DEF Client!pollHead, Client!cancelTask
  <1>6. CASE Client!wait
    BY ZenonT(60), <1>6 DEF Client!wait, Client!cancelTask
  <1>7. CASE Client!getTask
    BY ZenonT(60), <1>7 DEF Client!getTask, Client!cancelTask, Client!CallErrors
  <1>8. CASE Client!RemoteStep
    BY ZenonT(60), <1>8 DEF Client!RemoteStep
  <1>9. CASE Client!ContextEnds
    BY <1>9 DEF Client!ContextEnds
  <1>10. CASE UNCHANGED Client!clientVars
    <2>1. CASE cancels
      BY ZenonT(60), <1>10, <2>1 DEF Client!clientVars
    <2>2. CASE ~cancels
      BY ZenonT(60), <1>10, <2>2 DEF Client!clientVars
    <2> QED
      BY ZenonT(60), <2>1, <2>2
  <1> QED
    BY ZenonT(60), <1>1, <1>2, <1>3, <1>4, <1>5, <1>6, <1>7, <1>8, <1>9, <1>10 DEF Client!Next, Client!Sending

\* With or without a card, a skill and an answer: a task known to be open is
\* cancelled before the call gives up on it for its own reasons (Send).
THEOREM CancelsOpenTasks == Client!Spec => []Client!OpenTaskIsCancelled
  <1>1. Client!Init => ClientInv
    BY Zenon
       DEF Client!Init, ClientInv, Client!TypeOK, Client!OpenTaskIsCancelled, Client!Terminal,
           Client!Blocked, Client!States, Client!Errors
  <1>2. ClientInv => Client!OpenTaskIsCancelled
    BY Zenon DEF ClientInv
  <1> QED
    BY <1>1, <1>2, NextClientInv, PTL DEF Client!Spec
=============================================================================
