-------------------------------- MODULE Parks --------------------------------
(***************************************************************************)
(* Who is waiting for an answer: GET /parks over a session store that      *)
(* changes while it is read (internal/cli/parks.go over transcript.Store). *)
(***************************************************************************)
EXTENDS Integers, Sequences, FiniteSets, SequencesExt

CONSTANTS
  Sessions,
  MaxNow,     \* bound on the clock
  MaxFaults,  \* bound on store errors
  None

VARIABLES
  now,
  sess,       \* the store: what a session waits for, since when
  pc,         \* the listing: "idle", "inspect", "read", "done"
  todo,       \* sessions still to be read in this pass
  paused,     \* summaries that said "paused"
  rows,       \* rows of the answer
  answer,     \* the answer: a sequence of sessions, "error", or None
  faults,
  steady      \* history: sessions that waited ever since the listing began

vars == <<now, sess, pc, todo, paused, rows, answer, faults, steady>>
reading == <<pc, todo, paused, rows, answer, faults>>

Waits == {"approval", "input", "hold"}
Idle == [for |-> None, since |-> 0]
Gone == [for |-> "gone", since |-> 0]
Waiting(s) == sess[s].for \in Waits

TypeOK ==
  /\ now \in 0..MaxNow
  /\ sess \in [Sessions -> [for : Waits \cup {None, "gone"}, since : 0..MaxNow]]
  /\ pc \in {"idle", "inspect", "read", "done"}
  /\ todo \subseteq Sessions /\ paused \subseteq Sessions /\ steady \subseteq Sessions
  /\ \A r \in rows : r.id \in Sessions
  /\ faults \in 0..MaxFaults

Init ==
  /\ now = 0 /\ sess \in [Sessions -> {Idle, [for |-> "approval", since |-> 0]}]
  /\ pc = "idle" /\ todo = {} /\ paused = {} /\ rows = {} /\ answer = None /\ faults = 0
  /\ steady = {}

-----------------------------------------------------------------------------
(* The store changes under the reader. *)

\* The write gate parks a call, the agent asks, or an operator holds the session.
Wait(s, why) ==
  /\ sess[s] = Idle /\ why \in Waits
  /\ sess' = [sess EXCEPT ![s] = [for |-> why, since |-> now]]
  /\ UNCHANGED <<now, reading, steady>>

\* The question is answered, or the session is deleted.
Leave(s, after) ==
  /\ sess[s] # Gone /\ (after = Idle => Waiting(s))
  /\ sess' = [sess EXCEPT ![s] = after]
  /\ steady' = steady \ {s}
  /\ UNCHANGED <<now, reading>>

Tick == now < MaxNow /\ now' = now + 1 /\ UNCHANGED <<sess, reading, steady>>

-----------------------------------------------------------------------------
(* parksReader.list: the store's List, which reads every session once, and a   *)
(* second read of those that were paused.                                      *)

Begin ==
  /\ pc = "idle"
  /\ pc' = "inspect" /\ todo' = {s \in Sessions : sess[s] # Gone}
  /\ steady' = {s \in Sessions : Waiting(s)}
  /\ UNCHANGED <<now, sess, paused, rows, answer, faults>>

Fail == pc' = "done" /\ answer' = "error"

\* One Get of Store.List; any error ends the listing.
Inspect(s) ==
  /\ pc = "inspect" /\ s \in todo
  /\ todo' = todo \ {s}
  /\ \/ /\ sess[s] # Gone
        /\ paused' = IF Waiting(s) THEN paused \cup {s} ELSE paused
        /\ UNCHANGED <<pc, answer, faults>>
     \/ sess[s] = Gone /\ Fail /\ UNCHANGED <<paused, faults>>
     \/ faults < MaxFaults /\ faults' = faults + 1 /\ Fail /\ UNCHANGED paused
  /\ UNCHANGED <<now, sess, rows, steady>>

Inspected ==
  /\ pc = "inspect" /\ todo = {}
  /\ pc' = "read" /\ todo' = paused
  /\ UNCHANGED <<now, sess, paused, rows, answer, faults, steady>>

\* projectParks and oldestPark of one session.
Row(s) == [id |-> s, parked |-> Waiting(s), since |-> sess[s].since]

\* Mutant: a session that cannot be read is left out.
ReadSkipping(s) ==
  /\ pc = "read" /\ s \in todo
  /\ todo' = todo \ {s}
  /\ \/ sess[s] # Gone /\ rows' = rows \cup {Row(s)} /\ UNCHANGED <<pc, answer, faults>>
     \/ sess[s] = Gone /\ UNCHANGED <<pc, answer, faults, rows>>
     \/ faults < MaxFaults /\ faults' = faults + 1 /\ UNCHANGED <<pc, answer, rows>>
  /\ UNCHANGED <<now, sess, paused, steady>>

\* One Get of the second pass.  The store reports a session it was given the user
\* of as missing with its own error, which is not transcript.ErrNotFound, so a
\* session that went away fails the listing too.
Read(s) ==
  /\ pc = "read" /\ s \in todo
  /\ todo' = todo \ {s}
  /\ \/ sess[s] # Gone /\ rows' = rows \cup {Row(s)} /\ UNCHANGED <<pc, answer, faults>>
     \/ sess[s] = Gone /\ Fail /\ UNCHANGED <<rows, faults>>
     \/ faults < MaxFaults /\ faults' = faults + 1 /\ Fail /\ UNCHANGED rows
  /\ UNCHANGED <<now, sess, paused, steady>>

\* The rows in the order an approval queue wants: the longest wait first.
Answered ==
  /\ pc = "read" /\ todo = {}
  /\ pc' = "done"
  /\ answer' = SetToSortSeq(rows, LAMBDA a, b : a.since < b.since)
  /\ UNCHANGED <<now, sess, todo, paused, rows, faults, steady>>

Next ==
  \/ \E s \in Sessions :
       \/ Inspect(s) \/ Read(s)
       \/ \E why \in Waits : Wait(s, why)
       \/ \E after \in {Idle, Gone} : Leave(s, after)
  \/ Tick \/ Begin \/ Inspected \/ Answered
Spec == Init /\ [][Next]_vars

-----------------------------------------------------------------------------
\* A listing that answers lists every session that has been waiting ever since it
\* began, whatever else came and went; a session it cannot read makes it an error
\* and never a shorter list (parksReader.list).
NoParkMissed ==
  (pc = "done" /\ answer # "error") => steady \subseteq {answer[i].id : i \in DOMAIN answer}
=============================================================================
