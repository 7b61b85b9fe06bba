------------------------------ MODULE Throttle ------------------------------
(***************************************************************************)
(* Token buckets: announcements of parked calls (internal/cli/parknotify), *)
(* the per-caller limit on cost-bearing attach endpoints (internal/attach/ *)
(* rate_limit.go) and the per-caller limit of the A2A and AG-UI servers    *)
(* (internal/serverauth/ratelimit.go).  Tokens are counted in units, so    *)
(* that a request may cost more than a tick refills.                       *)
(***************************************************************************)
EXTENDS Naturals, FiniteSets

CONSTANTS Callers,    \* identities; "" is bucketed as anonymous
          Keys,       \* bucket keys: Callers' images and the notifier's
          KeyOf,      \* the bucket of a caller
          Burst,      \* a full bucket, in requests
          Cost, Gain, \* units a request takes and a tick gives
          Period,     \* ticks per refill of the notifier's bucket
          Threshold,  \* buckets beyond which idle ones are swept
          IdleAfter,  \* ticks a swept bucket has been idle for
          MaxNow, None

VARIABLES now,
          notifier, \* [tokens, refilledAt, throttling]
          buckets,  \* per key: None or [units, lastRefill, lastSeen]
          granted,  \* per key: requests allowed since the bucket was first used
          since,    \* per key: when that was
          sent,     \* announcements that reached the ingress
          which     \* the limiter a behaviour is about: they share nothing

vars == <<now, notifier, buckets, granted, since, sent, which>>

Full == Burst * Cost
Bucket == [units : 0 .. Full, lastRefill : 0 .. MaxNow, lastSeen : 0 .. MaxNow]

TypeOK ==
    /\ now \in 0 .. MaxNow
    /\ notifier \in [tokens : 0 .. Burst, refilledAt : 0 .. MaxNow, throttling : BOOLEAN]
    /\ buckets \in [Keys -> Bucket \cup {None}]
    /\ granted \in [Keys -> Nat] /\ since \in [Keys -> 0 .. MaxNow \cup {None}]
    /\ sent \in Nat /\ which \in {"notifier", "callers"}

Init ==
    /\ now = 0
    /\ notifier = [tokens |-> Burst, refilledAt |-> 0, throttling |-> FALSE]
    /\ buckets = [k \in Keys |-> None]
    /\ granted = [k \in Keys |-> 0] /\ since = [k \in Keys |-> None]
    /\ sent = 0 /\ which \in {"notifier", "callers"}

Least(a, b) == IF a < b THEN a ELSE b

-----------------------------------------------------------------------------

\* parkNotifier.take: whole periods are credited, and only whole periods move
\* refilledAt, so the remainder is kept.
refillToNow(n) ==
    LET gained == (now - n.refilledAt) \div Period IN
    IF gained = 0 THEN n
    ELSE [n EXCEPT !.tokens = Least(@ + gained, Burst)]
refill(n) ==
    LET gained == (now - n.refilledAt) \div Period IN
    IF gained = 0 THEN n
    ELSE [n EXCEPT !.tokens = Least(@ + gained, Burst), !.refilledAt = @ + gained * Period]

\* parkNotifier.announce: a park with no token is not announced; one the ingress
\* refuses has spent its token.
announce(delivered) ==
    LET n == refill(notifier) IN
    /\ which = "notifier"
    /\ notifier' = IF n.tokens = 0 THEN [n EXCEPT !.throttling = TRUE]
                   ELSE [n EXCEPT !.tokens = @ - 1, !.throttling = FALSE]
    /\ n.tokens = 0 => ~delivered
    /\ sent' = IF delivered THEN sent + 1 ELSE sent
    /\ UNCHANGED <<now, buckets, granted, since, which>>

\* costRateLimiter.pruneLocked: only once there are many buckets, and only idle ones.
pruneEagerly(bs) == [k \in Keys |-> IF bs[k] # None /\ bs[k].lastSeen < now
                                    THEN None ELSE bs[k]]
prune(bs) ==
    IF Cardinality({k \in Keys : bs[k] # None}) <= Threshold THEN bs
    ELSE [k \in Keys |-> IF bs[k] # None /\ bs[k].lastSeen + IdleAfter < now
                         THEN None ELSE bs[k]]

\* costRateLimiter.Allow (and TokenBucketLimiter.Allow, whose buckets are never
\* swept and whose refused reservation is given back).
Fresh == [units |-> Full, lastRefill |-> now, lastSeen |-> now]
Filled(b) == [units |-> Least(Full, b.units + Gain * (now - b.lastRefill)),
              lastRefill |-> now, lastSeen |-> now]
Allow(c) ==
    LET k == KeyOf[c]
        bs == prune(buckets)
        b == IF bs[k] = None THEN Fresh ELSE Filled(bs[k])
        ok == b.units >= Cost IN
    /\ which = "callers"
    /\ buckets' = [bs EXCEPT ![k] = IF ok THEN [b EXCEPT !.units = @ - Cost] ELSE b]
    /\ granted' = IF ok THEN [granted EXCEPT ![k] = @ + 1] ELSE granted
    /\ since' = IF since[k] = None THEN [since EXCEPT ![k] = now] ELSE since
    /\ UNCHANGED <<now, notifier, sent, which>>

Tick ==
    /\ now < MaxNow /\ now' = now + 1
    /\ UNCHANGED <<notifier, buckets, granted, since, sent, which>>

Next ==
    \/ \E delivered \in BOOLEAN : announce(delivered)
    \/ \E c \in Callers : Allow(c)
    \/ Tick

Spec == Init /\ [][Next]_vars

-----------------------------------------------------------------------------

\* No bucket lets through more than its burst and what the time since its first use
\* has refilled, sweeping of idle buckets included: for the notifier in whole periods,
\* for a caller by the tick (parkNotifier.take, costRateLimiter.Allow, pruneLocked).
RateIsBounded ==
    /\ sent <= Burst + now \div Period
    /\ \A k \in Keys :
          since[k] # None => granted[k] * Cost <= Full + Gain * (now - since[k])
=============================================================================
