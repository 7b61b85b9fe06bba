----------------------------- MODULE ModelRetry -----------------------------
(***************************************************************************)
(* Retrying a provider's rejection (internal/modelretry/retry.go).  Turns  *)
(* and parallel dispatches call models wrapped by one process-wide Policy. *)
(* A failed attempt is retried only if nothing of it has been yielded and  *)
(* the policy's cooldown admits a retry; the claim is made before the      *)
(* wait, so of many calls that meet one shed only one comes back.          *)
(***************************************************************************)
EXTENDS Naturals, Sequences

CONSTANTS Callers,   \* model calls in flight at the same time
          Backoff,   \* the wait before each further attempt, in ticks
          Cooldown,  \* ticks between two claims; 0: no cooldown
          MaxNow,    \* bound on time
          None

VARIABLES now, lastRetry,
          call,    \* each caller: [pc, attempt, until, retried]
          seen,    \* attempts whose output the caller's consumer has been given
          claims,  \* when a retry was claimed, in order
          started, \* when each further attempt was sent
          counts,  \* the policy's counters
          told     \* the outcome each call reported to the observer

vars == <<now, lastRetry, call, seen, claims, started, counts, told>>

Outcomes == {"recovered", "exhausted", "declined"}
Attempts == 0 .. Len(Backoff)

TypeOK ==
    /\ now \in 0 .. MaxNow /\ lastRetry \in 0 .. MaxNow \cup {None}
    /\ call \in [Callers -> [pc : {"idle", "calling", "streaming", "waiting", "over"},
                             attempt : Attempts, until : 0 .. 2 * MaxNow + 2,
                             retried : BOOLEAN, failed : BOOLEAN]]
    /\ seen \in [Callers -> SUBSET Attempts]
    /\ claims \in Seq(0 .. MaxNow) /\ started \in Seq(0 .. MaxNow)
    /\ counts \in [retries : Nat, declined : Nat]
    /\ told \in [Callers -> Outcomes \cup {None}]

Init ==
    /\ now = 0 /\ lastRetry = None
    /\ call = [c \in Callers |-> [pc |-> "idle", attempt |-> 0, until |-> 0,
                                  retried |-> FALSE, failed |-> FALSE]]
    /\ seen = [c \in Callers |-> {}]
    /\ claims = <<>> /\ started = <<>>
    /\ counts = [retries |-> 0, declined |-> 0]
    /\ told = [c \in Callers |-> None]

-----------------------------------------------------------------------------

GenerateContent(c) ==
    /\ call[c].pc = "idle"
    /\ call' = [call EXCEPT ![c].pc = "calling"]
    /\ UNCHANGED <<now, lastRetry, seen, claims, started, counts, told>>

\* A response reaches the consumer.
Yield(c) ==
    /\ call[c].pc \in {"calling", "streaming"}
    /\ seen' = [seen EXCEPT ![c] = @ \cup {call[c].attempt}]
    /\ call' = [call EXCEPT ![c].pc = "streaming"]
    /\ UNCHANGED <<now, lastRetry, claims, started, counts, told>>

Over(c) == [call EXCEPT ![c].pc = "over"]
Told(c, outcome) == [told EXCEPT ![c] = outcome]

\* The stream ends, or its consumer stops reading, or it fails after it has begun,
\* in which case the error is passed on like any other element.  A call some attempt
\* of which was rejected reports that it recovered.
StreamEnds(c) ==
    /\ call[c].pc = "streaming" \/ call[c].pc = "calling"
    /\ call' = Over(c)
    /\ told' = IF call[c].failed THEN Told(c, "recovered") ELSE told
    /\ UNCHANGED <<now, lastRetry, seen, claims, started, counts>>

\* Policy.claim: at most one retry per cooldown, whoever asks.
claimable == Cooldown = 0 \/ lastRetry = None \/ now - lastRetry >= Cooldown
claimLater(c) == UNCHANGED lastRetry
claim(c) == lastRetry' = IF Cooldown = 0 THEN lastRetry ELSE now

\* An attempt is rejected before anything was yielded.  Policy.next: out of
\* attempts, a cancelled context or an error that is not transient stop the call;
\* a claim refused declines it; else it waits its backoff.
mayRetryLate(c) == call[c].pc \in {"calling", "streaming"}
mayRetry(c) == call[c].pc = "calling"
Rejected(c, retryable) ==
    /\ mayRetry(c)
    /\ IF call[c].attempt >= Len(Backoff) \/ ~retryable
       THEN /\ call' = Over(c)
            /\ told' = IF call[c].retried THEN Told(c, "exhausted") ELSE told
            /\ UNCHANGED <<lastRetry, claims, counts>>
       ELSE IF ~claimable
       THEN /\ call' = Over(c) /\ told' = Told(c, "declined")
            /\ counts' = [counts EXCEPT !.declined = @ + 1]
            /\ UNCHANGED <<lastRetry, claims>>
       ELSE /\ claim(c) /\ claims' = Append(claims, now)
            /\ call' = [call EXCEPT ![c] = [@ EXCEPT !.pc = "waiting", !.failed = TRUE,
                                             !.until = now + Backoff[call[c].attempt + 1]]]
            /\ UNCHANGED <<counts, told>>
    /\ UNCHANGED <<now, seen, started>>

\* The wait is over: a further attempt is sent and counted.
Again(c) ==
    /\ call[c].pc = "waiting" /\ now >= call[c].until
    /\ call' = [call EXCEPT ![c] = [@ EXCEPT !.pc = "calling", !.retried = TRUE,
                                             !.attempt = @ + 1]]
    /\ counts' = [counts EXCEPT !.retries = @ + 1]
    /\ started' = Append(started, now)
    /\ UNCHANGED <<now, lastRetry, seen, claims, told>>

\* The context ends during the wait: the provider's error is passed on.
Interrupted(c) ==
    /\ call[c].pc = "waiting"
    /\ call' = Over(c)
    /\ told' = IF call[c].retried THEN Told(c, "exhausted") ELSE told
    /\ UNCHANGED <<now, lastRetry, seen, claims, started, counts>>

Tick ==
    /\ now < MaxNow /\ now' = now + 1
    /\ UNCHANGED <<lastRetry, call, seen, claims, started, counts, told>>

Next ==
    \/ \E c \in Callers :
          \/ GenerateContent(c) \/ Yield(c) \/ StreamEnds(c) \/ Again(c) \/ Interrupted(c)
          \/ \E retryable \in BOOLEAN : Rejected(c, retryable)
    \/ Tick

Spec == Init /\ [][Next]_vars

-----------------------------------------------------------------------------

\* Retries answer a shed without adding to it: whatever calls fail together, two
\* retries are claimed a cooldown apart; and no consumer is given the output of two
\* attempts, since an attempt is only replaced while it has yielded nothing
\* (Policy.claim, and the yielded flag of retryingLLM.GenerateContent).
RetriesAreRare ==
    /\ \A i \in 1 .. Len(claims) - 1 : claims[i + 1] - claims[i] >= Cooldown
    /\ \A c \in Callers : \A a, b \in seen[c] : a = b
=============================================================================
