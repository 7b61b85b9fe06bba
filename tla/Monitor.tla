-------------------------------- MODULE Monitor --------------------------------
(***************************************************************************)
(* One monitoring workload: what a scheduled fire does around its turn     *)
(* (newScheduledFireCallback), the collection and its strict parse         *)
(* (monitor.go, internal/monitor), the chat timeline (notify.go) and the   *)
(* operator's acknowledgement (monitorack.go).  The turn, the collected    *)
(* tools and the chat ingress are external.                                *)
(*                                                                         *)
(* A cycle is three steps, because the ingress may change between them:    *)
(* collect and decide, run the turn, speak.  A message body is the sequence*)
(* of cycles it reports; time is counted in cycles.                        *)
(***************************************************************************)
EXTENDS Naturals, Sequences, FiniteSets

CONSTANTS
  MaxCycles,    \* bound on fires
  MaxFound,     \* bound on what a run can find changed
  DigestAfter,  \* the notify block's deadman, in cycles; 0 is off
  Ackers,       \* operators that acknowledge the subject once each
  None

VARIABLES
  cyc,        \* the current cycle
  at,         \* where it is: "idle", "turn", "speak"
  found,      \* what the producer really found changed in it
  calm,       \* the cycle stayed quiet
  classifies, \* the workload names a transitions source
  edits,      \* the chat platform can edit messages
  ref, text, spokeAt, failing,   \* the notifier
  body, forgot, gone,            \* the ingress: messages, unextendable, deleted
  told,       \* history: a failure notice was delivered since a cycle completed
  again,      \* history: ... and then another one
  ack,        \* an acknowledgement's progress
  trace,      \* the ops row's events: acks recorded
  suppressed  \* the producer: acks applied

chat == <<body, forgot, gone>>
timeline == <<ref, text, spokeAt>>
health == <<failing, told, again>>
acks == <<ack, trace, suppressed>>
setup == <<classifies, edits>>
vars == <<cyc, at, found, calm, setup, timeline, health, chat, acks>>

TypeOK ==
  /\ cyc \in 0..MaxCycles /\ at \in {"idle", "turn", "speak"} /\ found \in 0..MaxFound
  /\ {calm, classifies, edits, failing, told, again} \subseteq BOOLEAN
  /\ text \in Seq(1..MaxCycles) /\ spokeAt \in 0..MaxCycles
  /\ body \in Seq(Seq(1..MaxCycles)) /\ ref \in {None} \cup DOMAIN body
  /\ forgot \subseteq DOMAIN body /\ gone \subseteq DOMAIN body
  /\ ack \in [Ackers -> {"new", "recorded", "forwarded", "done"}]
  /\ trace \subseteq Ackers /\ suppressed \subseteq Ackers

Init ==
  /\ cyc = 0 /\ at = "idle" /\ found = 0 /\ calm = FALSE
  /\ classifies \in BOOLEAN /\ edits \in BOOLEAN
  /\ ref = None /\ text = <<>> /\ spokeAt = 0
  /\ failing = FALSE /\ told = FALSE /\ again = FALSE
  /\ body = <<>> /\ forgot = {} /\ gone = {}
  /\ ack = [o \in Ackers |-> "new"] /\ trace = {} /\ suppressed = {}

-----------------------------------------------------------------------------
\* The classifier's answer: records, then a summary that counts them.

Rec == [k |-> "rec", n |-> 0]
Bad(k) == [k |-> k, n |-> 0]          \* "torn", "bare" (no class), "anon" (no subject)
Sum(n) == [k |-> "sum", n |-> n]
Whole(n) == [i \in 1..(n + 1) |-> IF i <= n THEN Rec ELSE Sum(n)]
\* What is left of a line that a read cut short.
Cut(l) == {Bad("torn"), l} \cup
          (IF l.k = "sum" THEN {Sum(m) : m \in 0..(l.n - 1)} ELSE {Bad("bare"), Bad("anon")})
\* Every prefix of an answer, its last line possibly cut.
Prefixes(s) ==
  {<<>>} \cup UNION { {SubSeq(s, 1, i - 1) \o <<l>> : l \in Cut(s[i])} : i \in DOMAIN s }
Arrives(n) == Prefixes(Whole(n))

Malformed == MaxFound + 1
\* Mutant: the records that arrived are the answer.
ParseLenient(s) == Cardinality({i \in DOMAIN s : s[i].k = "rec"})

\* Parse: the number of transitions, or Malformed.
Parse(s) ==
  LET records == 1..(Len(s) - 1)
  IN  IF /\ s # <<>> /\ s[Len(s)].k = "sum" /\ s[Len(s)].n = Len(s) - 1
         /\ \A i \in records : s[i].k = "rec"
      THEN Len(s) - 1 ELSE Malformed

-----------------------------------------------------------------------------
\* The notifier.

\* cycleFailed and health: the notice goes out on the edge only, delivered or not,
\* and ends the timeline.
cycleFailed ==
  IF failing THEN UNCHANGED <<health, ref, text>>
  ELSE /\ failing' = TRUE /\ ref' = None /\ text' = <<>>
       /\ \/ told' = TRUE /\ again' = (again \/ told)
          \/ UNCHANGED <<told, again>>

\* decide, given what was parsed.
decide(t) ==
  CASE ~classifies \/ t > 0 -> "speak"
    [] DigestAfter > 0 /\ cyc' >= spokeAt + DigestAfter -> "digest"
    [] OTHER -> "quiet"

\* A fire starts: collect, parse, decide.  cycleRecovered and quiet happen here.
Collect ==
  /\ at = "idle" /\ cyc < MaxCycles /\ cyc' = cyc + 1
  /\ found' \in 0..MaxFound
  /\ \E s \in Arrives(found') :
       \/ \* a tool failed or answered no text, or what it answered is malformed
          /\ cycleFailed
          /\ at' = "idle" /\ calm' = FALSE
       \/ /\ classifies => Parse(s) # Malformed
          /\ failing' = FALSE /\ UNCHANGED again
          /\ IF decide(Parse(s)) = "quiet"
             THEN at' = "idle" /\ calm' = TRUE /\ told' = FALSE /\ ref' = None /\ text' = <<>>
             ELSE at' = "turn" /\ calm' = FALSE /\ UNCHANGED <<told, ref, text>>
  /\ UNCHANGED <<setup, spokeAt, chat, acks>>

\* runTurnPre returns.
Turn ==
  /\ at = "turn"
  /\ \/ at' = "speak" /\ UNCHANGED <<health, ref, text>>
     \/ at' = "idle" /\ cycleFailed
  /\ UNCHANGED <<cyc, found, calm, setup, spokeAt, chat, acks>>

\* What a request did: answered well, or an error after it landed or before.
Posts(t) ==
  \/ body' = Append(body, t) /\ ref' = Len(body) + 1 /\ text' = t
  \/ body' \in {body, Append(body, t)} /\ ref' = None /\ text' = <<>>
Appends ==
  /\ edits /\ ref \notin forgot \cup gone
  /\ \/ body' = [body EXCEPT ![ref] = Append(@, cyc)] /\ text' = Append(text, cyc) /\ ref' = ref
     \/ body' = Append(body, <<cyc>>) /\ ref' = Len(body) + 1 /\ text' = <<cyc>>   \* rolled over
     \/ body' \in {body, [body EXCEPT ![ref] = Append(@, cyc)]} /\ ref' = None /\ text' = <<>>
Replaces(t) ==
  /\ edits /\ ref \notin gone
  /\ \/ body' = [body EXCEPT ![ref] = t] /\ text' = t /\ ref' = ref
     \/ body' \in {body, [body EXCEPT ![ref] = t]} /\ ref' = None /\ text' = <<>>

\* Mutant: an append that failed leaves the timeline open.
SendKeepsOpen ==
  \/ ref = None /\ Posts(<<cyc>>)
  \/ /\ ref # None /\ edits /\ ref \notin forgot \cup gone
     /\ \/ body' = [body EXCEPT ![ref] = Append(@, cyc)] /\ text' = Append(text, cyc)
        \/ body' \in {body, [body EXCEPT ![ref] = Append(@, cyc)]} /\ UNCHANGED text
     /\ UNCHANGED ref

\* send and post, the timeline state machine, with speak's reset after an error.
Send ==
  LET full == Append(text, cyc)
  IN  \/ ref = None /\ Posts(<<cyc>>)
      \/ ref # None /\ Appends
      \/ ref # None /\ ref \in forgot /\ Replaces(full)
      \/ ref # None /\ (~edits \/ ref \in gone) /\ Posts(full)

\* speak: nothing to send is an error that leaves the timeline as it is.
Speak ==
  /\ at = "speak" /\ at' = "idle"
  /\ \/ UNCHANGED <<timeline, body, told>>
     \/ Send /\ spokeAt' = (IF ref' = None THEN spokeAt ELSE cyc)
        /\ told' = (ref' = None /\ told)
  /\ UNCHANGED <<cyc, found, calm, setup, forgot, gone, failing, again, acks>>

\* The ingress stops extending the open message; somebody deletes it.
IngressForgets == /\ ref # None /\ ref \notin forgot /\ forgot' = forgot \cup {ref}
                  /\ UNCHANGED <<cyc, at, found, calm, setup, timeline, health, body, gone, acks>>
MessageDeleted == /\ ref # None /\ ref \notin gone /\ gone' = gone \cup {ref}
                  /\ UNCHANGED <<cyc, at, found, calm, setup, timeline, health, body, forgot, acks>>

-----------------------------------------------------------------------------
\* The acknowledgement leg.

\* Mutant: forward first, record what was forwarded.
AckRecordLate(o) ==
  /\ ack[o] = "new" /\ ack' = [ack EXCEPT ![o] = "recorded"]
  /\ suppressed' = suppressed \cup {o} /\ UNCHANGED trace
  /\ UNCHANGED <<cyc, at, found, calm, setup, timeline, health, chat>>

\* forward: the attributed record is written first; no record, no forward.
AckRecord(o) ==
  /\ ack[o] = "new"
  /\ \/ trace' = trace \cup {o} /\ ack' = [ack EXCEPT ![o] = "recorded"]
     \/ ack' = [ack EXCEPT ![o] = "done"] /\ UNCHANGED trace
  /\ UNCHANGED <<cyc, at, found, calm, setup, timeline, health, chat, suppressed>>

\* The producer's tool runs; its answer may be an error although it took.
AckForward(o) ==
  /\ ack[o] = "recorded"
  /\ \/ suppressed' = suppressed \cup {o} /\ ack' \in {[ack EXCEPT ![o] = a] : a \in {"forwarded", "done"}}
     \/ ack' = [ack EXCEPT ![o] = "done"] /\ UNCHANGED suppressed
  /\ UNCHANGED <<cyc, at, found, calm, setup, timeline, health, chat, trace>>

\* The record is written again with Forwarded set; a failure is only logged.
AckNote(o) ==
  /\ ack[o] = "forwarded" /\ ack' = [ack EXCEPT ![o] = "done"]
  /\ UNCHANGED <<cyc, at, found, calm, setup, timeline, health, chat, trace, suppressed>>

\* The process restarts: the timeline lived in it, and so did the calls.
Restart ==
  /\ at' = "idle" /\ ref' = None /\ text' = <<>> /\ spokeAt' = cyc
  /\ failing' = FALSE /\ told' = FALSE
  /\ ack' = [o \in Ackers |-> IF ack[o] = "new" THEN "new" ELSE "done"]
  /\ UNCHANGED <<cyc, found, calm, setup, again, chat, trace, suppressed>>

Next ==
  \/ Collect \/ Turn \/ Speak \/ IngressForgets \/ MessageDeleted \/ Restart
  \/ \E o \in Ackers : AckRecord(o) \/ AckForward(o) \/ AckNote(o)
Spec == Init /\ [][Next]_vars

-----------------------------------------------------------------------------
\* A cycle stays quiet only when the producer really found nothing: whatever a
\* truncated answer has lost, Parse does not read what is left as "all quiet".
QuietOnlyWhenCalm == calm => found = 0

\* While a timeline is open its message says exactly what mast believes it says
\* (send, speak): an append never builds on a body mast cannot see, whatever
\* the ingress forgot, rolled over, or applied without answering.
TimelineIntact == ref # None /\ ref \notin gone => body[ref] = text

\* The producer suppresses nothing without mast's durable record of who asked,
\* across store failures, lost answers and restarts (forward).
SuppressionAttributed == suppressed \subseteq trace

\* cycleFailed says its notice is sent once rather than on every failed cycle:
\* no second one is delivered before a cycle completed.  The code does not keep
\* this: a collection that succeeds clears the flag, and the turn after it may fail.
FailureAnnouncedOnce == ~again
=============================================================================
