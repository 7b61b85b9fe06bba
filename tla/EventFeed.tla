------------------------------- MODULE EventFeed -------------------------------
(***************************************************************************)
(* What a live event stream promises each subscriber: entries of the       *)
(* session's log past its cursor, each at most once and in log order, until*)
(* the stream is shut, and nothing after that.  It promises no entry, only *)
(* their order: Broadcaster implements it.                                 *)
(***************************************************************************)
EXTENDS Naturals

CONSTANTS Subs, MaxSeq
VARIABLES
  head,    \* entries of the log
  stream,  \* "none", "open" or "shut", per subscriber
  cursor,  \* the last entry an open stream carried, or where it was opened
  sent     \* the entries an open stream carried

feed == <<head, stream, cursor, sent>>

Init ==
  /\ head = 0 /\ stream = [s \in Subs |-> "none"]
  /\ cursor = [s \in Subs |-> 0] /\ sent = [s \in Subs |-> {}]

Append == head' = head + 1 /\ UNCHANGED <<stream, cursor, sent>>

\* A stream starts at a cursor of the subscriber's choice, or is refused.
Open(s) ==
  /\ stream[s] = "none" /\ \E t \in {"open", "shut"} : stream' = [stream EXCEPT ![s] = t]
  /\ \E c \in 0..MaxSeq : cursor' = [cursor EXCEPT ![s] = c]
  /\ UNCHANGED <<head, sent>>

\* One entry goes to some of the streams behind it; others may be shut.
Publish(n, to, off) ==
  /\ n <= head /\ \A s \in to : stream[s] = "open" /\ cursor[s] < n
  /\ \A s \in off : stream[s] = "open"
  /\ cursor' = [s \in Subs |-> IF s \in to THEN n ELSE IF s \in off THEN 0 ELSE cursor[s]]
  /\ sent' = [s \in Subs |-> IF s \in to THEN sent[s] \cup {n} ELSE IF s \in off THEN {} ELSE sent[s]]
  /\ stream' = [s \in Subs |-> IF s \in off THEN "shut" ELSE stream[s]]
  /\ UNCHANGED head

Next ==
  \/ Append
  \/ \E s \in Subs : Open(s)
  \/ \E n \in 0..MaxSeq : \E to, off \in SUBSET Subs : to \cap off = {} /\ Publish(n, to, off)
Spec == Init /\ [][Next]_feed
=============================================================================
