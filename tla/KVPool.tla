------------------------------- MODULE KVPool -------------------------------
(***************************************************************************)
(* The pool that samples a model server's KV cache: one poller appends     *)
(* readings to a bounded ring, and every turn brackets itself with an edge *)
(* reading at its start and its end, from the ring when that is fresh and  *)
(* from a scrape of its own otherwise.  A scrape runs outside the pool's   *)
(* mutex, so readings may enter the ring in another order than they were   *)
(* taken in.  A reading is the instant it was taken; no two are taken at   *)
(* one instant.                                                            *)
(***************************************************************************)
EXTENDS Naturals, Sequences, FiniteSets, FiniteSetsExt, SequencesExt

CONSTANTS
  Sessions,
  EdgeFresh,   \* edgeFresh: age at which a reading still brackets an edge
  EdgeBackoff, \* edgeBackoff: how long edges stop scraping after a failure
  RingCap,     \* ringCap
  MaxNow,      \* bound on the clock
  MaxFaults,   \* bound: failed scrapes
  None

VARIABLES
  now, ring, downUntil,
  poller,   \* [at, r]: "none" before init, "idle", "scraped" with its reading, "done"
  stopped,  \* stop has cancelled the poller's context
  turn,     \* per session, the turn in flight: [at, start, approx, r]
  book,     \* per session: the last window, and whether a turn ended without one
  faults

vars == <<now, ring, downUntil, poller, stopped, turn, book, faults>>

Failed == 0
NoTurn == [at |-> "off", start |-> None, approx |-> FALSE, r |-> None]

Init ==
  /\ now = 1 /\ ring = <<>> /\ downUntil = 0 /\ faults = 0 /\ stopped = FALSE
  /\ poller = [at |-> "none", r |-> None]
  /\ turn = [s \in Sessions |-> NoTurn]
  /\ book = [s \in Sessions |-> [last |-> None, lost |-> FALSE]]

Tick == now < MaxNow /\ now' = now + 1 /\ UNCHANGED <<ring, downUntil, poller, stopped, turn, book, faults>>

\* A scrape answers with a reading of this instant or fails.
Snapshot(r) ==
  \/ now < MaxNow /\ now' = now + 1 /\ r = now' /\ UNCHANGED faults
  \/ faults < MaxFaults /\ faults' = faults + 1 /\ r = Failed /\ UNCHANGED now

push(r) == LET all == Append(ring, r) IN IF Len(all) > RingCap THEN Tail(all) ELSE all

-----------------------------------------------------------------------------
(* The poller.                                                             *)

Poll ==
  /\ poller.at = "idle" /\ ~stopped
  /\ \E r \in 0..MaxNow : Snapshot(r) /\ poller' = [at |-> "scraped", r |-> r]
  /\ UNCHANGED <<ring, downUntil, stopped, turn, book>>

\* After a cancel the reading is dropped and the poller ends.
PollStores ==
  /\ poller.at = "scraped"
  /\ poller' = [at |-> IF stopped THEN "done" ELSE "idle", r |-> None]
  /\ IF stopped THEN UNCHANGED <<ring, downUntil>>
     ELSE IF poller.r = Failed THEN downUntil' = now + EdgeBackoff /\ UNCHANGED ring
     ELSE ring' = push(poller.r) /\ downUntil' = 0
  /\ UNCHANGED <<now, stopped, turn, book, faults>>

PollEnds ==
  /\ poller.at = "idle" /\ stopped
  /\ poller' = [at |-> "done", r |-> None]
  /\ UNCHANGED <<now, ring, downUntil, stopped, turn, book, faults>>

stop ==
  /\ ~stopped /\ poller.at # "none" /\ stopped' = TRUE
  /\ UNCHANGED <<now, ring, downUntil, poller, turn, book, faults>>

-----------------------------------------------------------------------------
(* Edges.                                                                  *)

Latest == IF ring = <<>> THEN None ELSE Last(ring)
FreshRecent(after) == Latest # None /\ now - Latest <= EdgeFresh
Fresh(after) == Latest # None /\ now - Latest <= EdgeFresh /\ Latest > after

\* An edge's first critical section: the ring's reading, a scrape, or whatever the
\* ring has while the endpoint is down.  `to` is where the scrape continues.
edge(s, after, to, Got(_, _)) ==
  IF Fresh(after) THEN Got(Latest, FALSE)
  ELSE IF now < downUntil THEN Got(Latest, TRUE)
  ELSE turn' = [turn EXCEPT ![s].at = to] /\ UNCHANGED book

\* The edge's own scrape is answered, outside the mutex...
Scrapes(s) ==
  /\ turn[s].at \in {"start-scrape", "end-scrape"} /\ turn[s].r = None
  /\ \E r \in 0..MaxNow : Snapshot(r) /\ turn' = [turn EXCEPT ![s].r = r]
  /\ UNCHANGED <<ring, downUntil, poller, stopped, book>>

\* ... and stored under it; a failure falls back on what the ring had.
Stores(s, Got(_, _)) ==
  IF turn[s].r = Failed
  THEN downUntil' = now + EdgeBackoff /\ UNCHANGED ring /\ Got(Latest, TRUE)
  ELSE ring' = push(turn[s].r) /\ UNCHANGED downUntil /\ Got(turn[s].r, FALSE)

\* A turn without a start reading is not measured.
Started(s, r, approx) ==
  /\ turn' = [turn EXCEPT ![s] = [at |-> IF r = None THEN "unmeasured" ELSE "run", start |-> r,
                                  approx |-> approx, r |-> None]]
  /\ UNCHANGED book

\* begin, which starts the poller with the first turn of the process.
begin(s) ==
  /\ turn[s].at = "off"
  /\ poller' = IF poller.at = "none" THEN [at |-> "idle", r |-> None] ELSE poller
  /\ edge(s, 0, "start-scrape", LAMBDA r, approx : Started(s, r, approx))
  /\ UNCHANGED <<now, ring, downUntil, stopped, faults>>
BeginStores(s) ==
  /\ turn[s].at = "start-scrape" /\ turn[s].r # None
  /\ Stores(s, LAMBDA r, approx : Started(s, r, approx))
  /\ UNCHANGED <<now, poller, stopped, faults>>

\* The window of a turn: its edges and the ring's readings between them.
Window(s, last, approx, readings) ==
  LET start == turn[s].start
      endFailed == last = None \/ last <= start
      between == {r \in ToSet(readings) : r > start /\ (endFailed \/ r < last)}
      end == IF endFailed THEN Max(between \cup {start}) ELSE last
  IN [start |-> start, end |-> end, approx |-> turn[s].approx \/ approx, endFailed |-> endFailed,
      readings |-> Cardinality(between) + (IF endFailed THEN 1 ELSE 2)]

\* end records the window, except one whose only reading is its start.
Ended(s, last, approx, readings) ==
  LET w == Window(s, last, approx, readings)
      kept == ~(w.endFailed /\ w.readings < 2)
  IN /\ turn' = [turn EXCEPT ![s] = NoTurn]
     /\ book' = [book EXCEPT ![s].last = IF kept THEN w ELSE @, ![s].lost = @ \/ ~kept]
end(s) ==
  /\ turn[s].at = "run"
  /\ edge(s, turn[s].start, "end-scrape", LAMBDA r, approx : Ended(s, r, approx, ring))
  /\ UNCHANGED <<now, ring, downUntil, poller, stopped, faults>>
EndStores(s) ==
  /\ turn[s].at = "end-scrape" /\ turn[s].r # None
  /\ Stores(s, LAMBDA r, approx : Ended(s, r, approx, IF turn[s].r = Failed THEN ring ELSE push(turn[s].r)))
  /\ UNCHANGED <<now, poller, stopped, faults>>
EndUnmeasured(s) ==
  /\ turn[s].at = "unmeasured"
  /\ turn' = [turn EXCEPT ![s] = NoTurn]
  /\ book' = [book EXCEPT ![s].lost = TRUE]
  /\ UNCHANGED <<now, ring, downUntil, poller, stopped, faults>>

Next ==
  \/ Tick \/ Poll \/ PollStores \/ PollEnds \/ stop
  \/ \E s \in Sessions : begin(s) \/ BeginStores(s) \/ Scrapes(s) \/ end(s) \/ EndStores(s) \/ EndUnmeasured(s)

Spec == Init /\ [][Next]_vars

-----------------------------------------------------------------------------
TypeOK ==
  /\ now \in 1..MaxNow /\ downUntil \in 0..(MaxNow + EdgeBackoff)
  /\ Len(ring) <= RingCap /\ ToSet(ring) \subseteq 1..MaxNow
  /\ poller.at \in {"none", "idle", "scraped", "done"}
  /\ \A s \in Sessions : book[s].lost \in BOOLEAN

\* While no scrape has failed every turn gets its window, exact at both edges:
\* neither a ring somebody else filled nor a reading that came in late takes it away.
LiveEndpointIsMeasured ==
  faults = 0 => \A s \in Sessions :
    /\ ~book[s].lost
    /\ book[s].last # None => ~book[s].last.approx /\ ~book[s].last.endFailed
=============================================================================
