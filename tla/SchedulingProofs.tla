--------------------------- MODULE SchedulingProofs ---------------------------
(***************************************************************************)
(* What Scheduling promises of the cadence, for any number of processes,   *)
(* any cadence and any clock: a tick runs twice only in a split, a plan    *)
(* follows the last tick accounted for, and only a live rival makes a      *)
(* booting process give up.                                                *)
(*                                                                         *)
(* What the cadence starts is a monitoring cycle; the last section proves  *)
(* of one (Monitor) that it is quiet only when calm, loses nothing of its  *)
(* timeline and says who suppressed what.                                  *)
(***************************************************************************)
EXTENDS Scheduling, Sequences, TLAPS

\* A time is a cadence point of the anchor.
OnGrid(a, l) == \E k \in Nat : l = a + k * Interval

\* Records and processes account for ticks that have come, and a plan follows
\* the last of them.
GridInv ==
  /\ rec # None => rec.anchor <= now /\ rec.last <= now /\ OnGrid(rec.anchor, rec.last)
  /\ \A p \in Procs :
       /\ anchor[p] <= now /\ last[p] <= now /\ OnGrid(anchor[p], last[p])
       /\ trig[p] = "wait" => tick[p] = last[p] + Interval /\ tick[p] <= fireAt[p]

\* Neither robbed of its lease nor driving without one.
Sound(p) == p \notin lapsed /\ p \notin open

\* A process that drives, and is no party to a split, holds the row.
LeaseInv ==
  /\ \A p \in Procs : st[p] = "stealing" => prey[p] # None
  /\ \A p \in Procs : trig[p] # "off" => st[p] = "driving"
  /\ \A p \in Procs : st[p] \in {"won", "driving"} /\ Sound(p) => Holds(p)

\* What the others ran lies behind the tick a process waits for.
RanInv ==
  /\ \A p \in Procs : \A x \in ran[p] : x <= now
  /\ \A p, q \in Procs : p # q /\ Sound(p) /\ Sound(q) =>
       /\ ran[p] \cap ran[q] = {}
       /\ trig[p] = "wait" => \A x \in ran[q] : x < tick[p]

IInv == TypeOK /\ GridInv /\ LeaseInv /\ RanInv

-----------------------------------------------------------------------------
\* Arithmetic of the cadence.

\* Go's integer division of two durations.
LEMMA Division ==
  ASSUME NEW x \in Nat
  PROVE  /\ x \div Interval \in Nat
         /\ (x \div Interval) * Interval <= x
         /\ x < (x \div Interval) * Interval + Interval
  BY CadenceAssumption, SMTT(30)

\* Counting from a cadence point and counting from the anchor differ by that
\* point's number.
LEMMA Shift ==
  ASSUME NEW x \in Nat, NEW k \in Nat, k * Interval <= x
  PROVE  (x - k * Interval) \div Interval = (x \div Interval) - k
  BY CadenceAssumption, SMTT(30)

\* Adding tick numbers adds their instants.
LEMMA Distributes ==
  ASSUME NEW m \in Int, NEW n \in Int
  PROVE  (m + n) * Interval = m * Interval + n * Interval
  BY CadenceAssumption, SMTT(30)

\* plan: nextTick is the first point past now, ticksSkipped ends one short of it.
LEMMA Planned ==
  ASSUME NEW a \in Nat, NEW l \in Nat, now \in Nat, a <= now, l <= now, OnGrid(a, l)
  PROVE  /\ nextTick(a, now) \in Nat
         /\ now < nextTick(a, now) /\ nextTick(a, now) <= now + Interval
         /\ l + ticksSkipped(l, now) * Interval \in Nat
         /\ l + ticksSkipped(l, now) * Interval <= now
         /\ OnGrid(a, l + ticksSkipped(l, now) * Interval)
         /\ nextTick(a, now) = l + ticksSkipped(l, now) * Interval + Interval
<1>0. PICK k \in Nat : l = a + k * Interval  BY DEF OnGrid
<1> DEFINE n == (now - a) \div Interval
           m == (now - l) \div Interval
<1>1. now - a \in Nat /\ now - l \in Nat  OBVIOUS
<1>2. n \in Nat /\ n * Interval <= now - a /\ now - a < n * Interval + Interval
  BY <1>1, Division
<1>3. m \in Nat /\ m * Interval <= now - l /\ now - l < m * Interval + Interval
  BY <1>1, Division
<1>4. k * Interval \in Nat  BY CadenceAssumption
<1>5. now - l = (now - a) - k * Interval  BY <1>0, <1>4
<1>6. k * Interval <= now - a  BY <1>0, <1>4
<1>7. m = n - k  BY <1>1, <1>5, <1>6, Shift
<1>8. /\ m * Interval \in Nat /\ n * Interval \in Nat /\ Interval \in Nat \ {0}
      /\ n * Interval = m * Interval + k * Interval
      /\ (n + 1) * Interval = n * Interval + Interval
      /\ (k + m) * Interval = k * Interval + m * Interval
  <2>1. n = m + k  BY <1>2, <1>3, <1>7
  <2>2. n * Interval = m * Interval + k * Interval  BY <2>1, <1>3, Distributes
  <2>3. (n + 1) * Interval = n * Interval + 1 * Interval  BY <1>2, Distributes
  <2>4. (k + m) * Interval = k * Interval + m * Interval  BY <1>3, Distributes
  <2> QED  BY <2>2, <2>3, <2>4, <1>2, <1>3, CadenceAssumption
<1>9. nextTick(a, now) = a + n * Interval + Interval
  <2>1. nextTick(a, now) = a + (n + 1) * Interval  BY DEF nextTick
  <2> HIDE DEF n
  <2> QED  BY <2>1, <1>2, <1>8
<1>10. l + ticksSkipped(l, now) * Interval = l + m * Interval
  <2>1. CASE now <= l
    <3>1. now - l = 0 /\ ticksSkipped(l, now) = 0  BY <2>1 DEF ticksSkipped
    <3>2. m * Interval = 0  BY ONLY <3>1, <1>3, <1>8
    <3>3. 0 * Interval = 0  BY CadenceAssumption
    <3> QED  BY <3>1, <3>2, <3>3
  <2>2. CASE ~(now <= l)  BY <2>2 DEF ticksSkipped
  <2> QED  BY <2>1, <2>2
<1>11. OnGrid(a, l + m * Interval)
  <2>1. k + m \in Nat /\ l + m * Interval = a + (k + m) * Interval
    BY ONLY <1>0, <1>3, <1>4, <1>8, a \in Nat
  <2> QED  BY <2>1 DEF OnGrid
<1> HIDE DEF n, m
<1> QED  BY <1>0, <1>2, <1>3, <1>4, <1>8, <1>9, <1>10, <1>11

-----------------------------------------------------------------------------
\* Steps.

States == {"down", "booting", "stealing", "won", "driving", "passive", "exited"}
Triggers == {"off", "anchoring", "wait", "running"}

\* plan leaves the process waiting for the point after the last one accounted
\* for, which is still to come, and touches nobody else's fields.
LEMMA PlanStep ==
  ASSUME TypeOK, NEW p \in Procs, NEW a \in 0..now, NEW l \in 0..now, OnGrid(a, l), Plan(p, a, l)
  PROVE  /\ anchor' \in [Procs -> Instants] /\ last' \in [Procs -> Instants]
         /\ tick' \in [Procs -> Instants] /\ fireAt' \in [Procs -> Instants]
         /\ trig' \in [Procs -> Triggers] /\ trig'[p] = "wait"
         /\ anchor'[p] = a /\ last'[p] <= now /\ OnGrid(a, last'[p])
         /\ tick'[p] = last'[p] + Interval /\ tick'[p] <= fireAt'[p] /\ now < tick'[p]
         /\ \A q \in Procs \ {p} :
              /\ anchor'[q] = anchor[q] /\ last'[q] = last[q] /\ tick'[q] = tick[q]
              /\ fireAt'[q] = fireAt[q] /\ trig'[q] = trig[q]
<1> DEFINE t == nextTick(a, now)
           m == l + ticksSkipped(l, now) * Interval
<1>1. now \in 0..MaxNow /\ MaxNow \in Nat /\ Interval \in Nat \ {0} /\ Jitter \in Nat
  BY CadenceAssumption DEF TypeOK
<1>2. /\ t \in Nat /\ now < t /\ t <= now + Interval /\ m \in Nat /\ m <= now
      /\ OnGrid(a, m) /\ t = m + Interval
  BY <1>1, Planned
<1>3. /\ anchor \in [Procs -> Instants] /\ last \in [Procs -> Instants]
      /\ tick \in [Procs -> Instants] /\ fireAt \in [Procs -> Instants]
      /\ trig \in [Procs -> Triggers]
  BY DEF TypeOK, Triggers
<1>4. PICK j \in 0..(IF Jitter = 0 THEN 0 ELSE Jitter - 1) : fireAt' = [fireAt EXCEPT ![p] = t + j]
  BY Zenon DEF Plan
<1>5. /\ anchor' = [anchor EXCEPT ![p] = a] /\ last' = [last EXCEPT ![p] = m]
      /\ tick' = [tick EXCEPT ![p] = t] /\ trig' = [trig EXCEPT ![p] = "wait"]
  BY DEF Plan
<1> HIDE DEF t, m
<1>6. j \in Nat /\ j <= Jitter  BY <1>1, <1>4
<1>7. a \in Instants /\ m \in Instants /\ t \in Instants /\ t + j \in Instants
  BY <1>1, <1>2, <1>6 DEF Instants
<1>8. /\ anchor'[p] = a /\ last'[p] = m /\ tick'[p] = t /\ fireAt'[p] = t + j /\ trig'[p] = "wait"
  BY <1>3, <1>4, <1>5
<1>9. \A q \in Procs \ {p} :
        /\ anchor'[q] = anchor[q] /\ last'[q] = last[q] /\ tick'[q] = tick[q]
        /\ fireAt'[q] = fireAt[q] /\ trig'[q] = trig[q]
  BY <1>3, <1>4, <1>5
<1>10. /\ anchor' \in [Procs -> Instants] /\ last' \in [Procs -> Instants]
       /\ tick' \in [Procs -> Instants] /\ fireAt' \in [Procs -> Instants]
       /\ trig' \in [Procs -> Triggers]
  BY <1>3, <1>4, <1>5, <1>7 DEF Triggers
<1> QED  BY <1>2, <1>6, <1>8, <1>9, <1>10

\* Every plan the loop makes starts from a point that was accounted for: the
\* record's, the process's own, or the tick it just spent.
LEMMA PlansAreDue ==
  ASSUME TypeOK, GridInv, NEW p \in Procs
  PROVE  /\ rec # None =>
              rec.anchor \in 0..now /\ rec.last \in 0..now /\ OnGrid(rec.anchor, rec.last)
         /\ anchor[p] \in 0..now /\ last[p] \in 0..now /\ OnGrid(anchor[p], last[p])
         /\ trig[p] = "wait" /\ now >= fireAt[p] =>
              tick[p] \in 0..now /\ OnGrid(anchor[p], tick[p])
<1>1. now \in 0..MaxNow /\ MaxNow \in Nat /\ Interval \in Nat \ {0} /\ Jitter \in Nat
  BY CadenceAssumption DEF TypeOK
<1>2. /\ anchor[p] \in Nat /\ last[p] \in Nat /\ tick[p] \in Nat /\ fireAt[p] \in Nat
  BY <1>1 DEF TypeOK, Instants
<1>3. rec # None => rec.anchor \in Nat /\ rec.last \in Nat
  BY <1>1 DEF TypeOK, Instants
<1>4. ASSUME trig[p] = "wait", now >= fireAt[p]
      PROVE  tick[p] \in 0..now /\ OnGrid(anchor[p], tick[p])
  <2>1. tick[p] = last[p] + Interval /\ tick[p] <= fireAt[p]  BY <1>4 DEF GridInv
  <2>2. PICK k \in Nat : last[p] = anchor[p] + k * Interval  BY DEF GridInv, OnGrid
  <2>3. (k + 1) * Interval = k * Interval + 1 * Interval  BY Distributes
  <2>4. k * Interval \in Nat  BY <1>1
  <2>5. tick[p] = anchor[p] + (k + 1) * Interval  BY ONLY <1>1, <1>2, <2>1, <2>2, <2>3, <2>4
  <2>6. OnGrid(anchor[p], tick[p])  BY <2>5 DEF OnGrid
  <2> QED  BY <1>1, <1>2, <1>4, <2>1, <2>6
<1>5. rec # None => rec.anchor <= now /\ rec.last <= now /\ OnGrid(rec.anchor, rec.last)
  BY DEF GridInv
<1>6. anchor[p] <= now /\ last[p] <= now /\ OnGrid(anchor[p], last[p])  BY DEF GridInv
<1> QED  BY <1>1, <1>2, <1>3, <1>4, <1>5, <1>6

\* The three ways into a plan.
LEMMA WhoPlans ==
  ASSUME TypeOK, GridInv, NEW p \in Procs,
         \/ Seed(p) /\ trig'[p] = "wait"
         \/ Persist(p)
         \/ FireDue(p) /\ (ended[p] \/ draining[p])
  PROVE  /\ st'[p] = "driving" /\ st' \in [Procs -> States]
         /\ \A q \in Procs \ {p} : st'[q] = st[q]
         /\ \E a \in 0..now, l \in 0..now : OnGrid(a, l) /\ Plan(p, a, l)
<1>1. st \in [Procs -> States] /\ trig \in [Procs -> Triggers]  BY DEF TypeOK, States, Triggers
<1>2. CASE Seed(p) /\ trig'[p] = "wait"
  <2>1. st' = [st EXCEPT ![p] = "driving"]  BY <1>2 DEF Seed
  <2>2. rec # None /\ Plan(p, rec.anchor, rec.last)
    <3>1. CASE trig' = [trig EXCEPT ![p] = "anchoring"]  BY <1>1, <1>2, <3>1
    <3> QED  BY <1>2, <3>1 DEF Seed
  <2>3. rec.anchor \in 0..now /\ rec.last \in 0..now /\ OnGrid(rec.anchor, rec.last)
    BY <2>2, PlansAreDue
  <2> QED  BY Zenon, <1>1, <2>1, <2>2, <2>3 DEF States
<1>3. CASE Persist(p)
  <2>1. st' = st /\ st[p] = "driving" /\ Plan(p, anchor[p], last[p])  BY Zenon, <1>3 DEF Persist
  <2> QED  BY <1>1, <2>1, PlansAreDue
<1>4. CASE FireDue(p) /\ (ended[p] \/ draining[p])
  <2>1. st' = st /\ st[p] = "driving" /\ trig[p] = "wait" /\ now >= fireAt[p]
    BY <1>4 DEF FireDue
  <2>2. Plan(p, anchor[p], tick[p])  BY <1>4 DEF FireDue
  <2> QED  BY Zenon, <1>1, <2>1, <2>2, PlansAreDue
<1> QED  BY <1>2, <1>3, <1>4

-----------------------------------------------------------------------------
\* Types.

\* The types hold before any process is up.
LEMMA InitTypeOK == Init => TypeOK
<1> SUFFICES ASSUME Init PROVE TypeOK  OBVIOUS
<1>1. 0 \in 0..MaxNow /\ 0 \in 0..MaxFaults /\ 0 \in Instants
  BY CadenceAssumption DEF Instants
<1>2. ran \in [Procs -> SUBSET Instants]  BY DEF Init
<1>3. /\ leased \in [Procs -> BOOLEAN] /\ ended \in [Procs -> BOOLEAN]
      /\ draining \in [Procs -> BOOLEAN]
  BY Zenon DEF Init
<1> QED  BY <1>1, <1>2, <1>3 DEF Init, TypeOK

\* Every step keeps the types: a plan stays within the instants because the clock
\* and the jitter are bounded.
LEMMA NextTypeOK == TypeOK /\ GridInv /\ LeaseInv /\ [Next]_vars => TypeOK'
<1> SUFFICES ASSUME TypeOK, GridInv, LeaseInv, [Next]_vars PROVE TypeOK'  OBVIOUS
<1> DEFINE Rows == {None} \cup [holder : Procs, beat : 0..MaxNow]
           Recs == {None} \cup [anchor : Instants, last : Instants]
           Preys == {None} \cup [holder : Procs, at : 0..MaxNow]
<1>0. /\ now \in 0..MaxNow /\ faults \in 0..MaxFaults /\ MaxNow \in Nat /\ MaxFaults \in Nat
      /\ row \in Rows /\ rec \in Recs /\ prey \in [Procs -> Preys]
      /\ st \in [Procs -> States] /\ trig \in [Procs -> Triggers]
      /\ bootAt \in [Procs -> 0..MaxNow]
      /\ leased \in [Procs -> BOOLEAN] /\ ended \in [Procs -> BOOLEAN]
      /\ draining \in [Procs -> BOOLEAN]
      /\ anchor \in [Procs -> Instants] /\ last \in [Procs -> Instants]
      /\ tick \in [Procs -> Instants] /\ fireAt \in [Procs -> Instants]
      /\ ran \in [Procs -> SUBSET Instants] /\ lapsed \subseteq Procs /\ open \subseteq Procs
      /\ 0 \in 0..MaxNow /\ 0 \in Instants /\ now \in Instants
  BY CadenceAssumption DEF TypeOK, States, Triggers, Instants
<1> DEFINE Typed ==
      /\ now' \in 0..MaxNow /\ faults' \in 0..MaxFaults
      /\ row' \in Rows /\ rec' \in Recs /\ prey' \in [Procs -> Preys]
      /\ st' \in [Procs -> States] /\ trig' \in [Procs -> Triggers]
      /\ bootAt' \in [Procs -> 0..MaxNow]
      /\ leased' \in [Procs -> BOOLEAN] /\ ended' \in [Procs -> BOOLEAN]
      /\ draining' \in [Procs -> BOOLEAN]
      /\ anchor' \in [Procs -> Instants] /\ last' \in [Procs -> Instants]
      /\ tick' \in [Procs -> Instants] /\ fireAt' \in [Procs -> Instants]
      /\ ran' \in [Procs -> SUBSET Instants] /\ lapsed' \subseteq Procs /\ open' \subseteq Procs
<1> SUFFICES Typed  BY DEF TypeOK, States, Triggers, Instants
<1>1. CASE UNCHANGED vars  BY Zenon, <1>0, <1>1 DEF vars, lease, plan
<1>2. CASE Tick  BY <1>0, <1>2 DEF Tick, lease, plan
<1>3. ASSUME NEW p \in Procs, Boot(p) PROVE Typed
  BY Zenon, <1>0, <1>3 DEF Boot, plan, States
<1>4. ASSUME NEW p \in Procs, Insert(p) PROVE Typed
  BY Zenon, <1>0, <1>4 DEF Insert, Hold, plan, States
<1>5. ASSUME NEW p \in Procs, Refused(p) PROVE Typed
  BY Zenon, <1>0, <1>5 DEF Refused, AfterRefusal, lease, plan, States
<1>6. ASSUME NEW p \in Procs, FindStale(p) PROVE Typed
  BY Zenon, <1>0, <1>6 DEF FindStale, plan, States
<1>7. ASSUME NEW p \in Procs, Steal(p) PROVE Typed
  <2>0. st[p] = "stealing"  BY <1>7 DEF Steal
  <2>1. prey[p] # None  BY Zenon, <2>0 DEF LeaseInv
  <2>2. prey[p] \in [holder : Procs, at : 0..MaxNow]  BY <1>0, <2>1
  <2>3. prey[p].at \in 0..MaxNow  BY Zenon, <2>2
  <2>4. UNCHANGED <<now, faults, ended, draining, rec, trig, plan, ran, open>>  BY ZenonT(60), <1>7 DEF Steal
  <2>5. prey' = [prey EXCEPT ![p] = None]  BY <1>7 DEF Steal
  <2>6. CASE Holds(prey[p].holder)
    <3>1. Hold(p, prey[p].at)  BY <1>7, <2>6 DEF Steal
    <3>2. lapsed' \subseteq Procs
      <4>1. prey[p].holder \in Procs  BY Zenon, <2>2
      <4>2. lapsed' = lapsed \cup {q \in {prey[p].holder} : Alive(q)}  BY Zenon, <1>7, <2>6 DEF Steal
      <4> QED  BY <1>0, <4>1, <4>2
    <3> QED  BY Zenon, <1>0, <2>3, <2>4, <2>5, <3>1, <3>2 DEF Hold, plan, States
  <2>7. CASE ~Holds(prey[p].holder)
    <3>1. st' = [st EXCEPT ![p] = AfterRefusal(p)] /\ UNCHANGED <<row, leased, lapsed, bootAt>>
      BY Zenon, <1>7, <2>7 DEF Steal
    <3> QED  BY Zenon, <1>0, <2>4, <2>5, <3>1 DEF AfterRefusal, plan, States
  <2> QED  BY Zenon, <2>6, <2>7
<1>8. ASSUME NEW p \in Procs, FailOpen(p) PROVE Typed
  BY <1>0, <1>8 DEF FailOpen, plan, States
<1>9. ASSUME NEW p \in Procs, Beat(p) PROVE Typed
  BY ZenonT(60), <1>0, <1>9 DEF Beat, Holds, plan
<1>10. ASSUME NEW p \in Procs, Seed(p) PROVE Typed
  <2>1. CASE trig'[p] = "wait"
    <3>1. PICK a \in 0..now, l \in 0..now : OnGrid(a, l) /\ Plan(p, a, l)  BY Zenon, <1>10, <2>1, WhoPlans
    <3>2. st' \in [Procs -> States]  BY Zenon, <1>10, <2>1, WhoPlans
    <3>3. faults' \in 0..MaxFaults  BY <1>0, <1>10 DEF Seed
    <3>4. UNCHANGED <<now, ended, draining, lease, rec, ran>>  BY Zenon, <1>10 DEF Seed
    <3> QED  BY Zenon, <1>0, <3>1, <3>2, <3>3, <3>4, PlanStep DEF lease
  <2>2. CASE trig'[p] # "wait"
    <3>1. trig' = [trig EXCEPT ![p] = "anchoring"]
      <4>1. ASSUME Plan(p, rec.anchor, rec.last) PROVE FALSE  BY <1>0, <2>2, <4>1 DEF Plan
      <4> QED  BY <1>10, <4>1 DEF Seed
    <3>2. /\ anchor' = [anchor EXCEPT ![p] = now] /\ last' = [last EXCEPT ![p] = now]
          /\ UNCHANGED <<tick, fireAt>>
      <4>1. ASSUME Plan(p, rec.anchor, rec.last) PROVE FALSE  BY Zenon, <1>0, <2>2, <4>1 DEF Plan
      <4> QED  BY <1>10, <4>1 DEF Seed
    <3>3. faults' \in 0..MaxFaults  BY SMTT(60), <1>0, <1>10 DEF Seed
    <3> QED  BY <1>0, <1>10, <3>1, <3>2, <3>3 DEF Seed, lease, States, Triggers
  <2> QED  BY <2>1, <2>2
<1>11. ASSUME NEW p \in Procs, Persist(p) PROVE Typed
  <2>1. PICK a \in 0..now, l \in 0..now : OnGrid(a, l) /\ Plan(p, a, l)  BY Zenon, <1>11, WhoPlans
  <2>2. faults' \in 0..MaxFaults /\ rec' \in Recs  BY <1>0, <1>11 DEF Persist
  <2>3. UNCHANGED <<now, st, ended, draining, lease, ran>>  BY Zenon, <1>11 DEF Persist
  <2> QED  BY Zenon, <1>0, <2>1, <2>2, <2>3, PlanStep DEF lease
<1>12. ASSUME NEW p \in Procs, FireDue(p) PROVE Typed
  <2>0. UNCHANGED <<now, faults, st, ended, draining, lease, rec>>  BY Zenon, <1>12 DEF FireDue
  <2>1. CASE ended[p] \/ draining[p]
    <3>1. PICK a \in 0..now, l \in 0..now : OnGrid(a, l) /\ Plan(p, a, l)  BY Zenon, <1>12, <2>1, WhoPlans
    <3>2. UNCHANGED ran  BY Zenon, <1>12, <2>1 DEF FireDue
    <3> QED  BY Zenon, <1>0, <2>0, <3>1, <3>2, PlanStep DEF lease
  <2>2. CASE ~(ended[p] \/ draining[p])
    <3>1. /\ last' = [last EXCEPT ![p] = tick[p]] /\ ran' = [ran EXCEPT ![p] = @ \cup {tick[p]}]
          /\ trig' = [trig EXCEPT ![p] = "running"] /\ UNCHANGED <<anchor, tick, fireAt>>
      BY Zenon, <1>12, <2>2 DEF FireDue
    <3> QED  BY ZenonT(60), <1>0, <2>0, <3>1 DEF lease, Triggers
  <2> QED  BY Zenon, <2>1, <2>2
<1>13. ASSUME NEW p \in Procs, LoopExits(p) PROVE Typed
  BY Zenon, <1>0, <1>13 DEF LoopExits, ForgetPlan, lease, Triggers
<1>14. ASSUME NEW p \in Procs, BeginDrain(p) PROVE Typed
  BY Zenon, <1>0, <1>14 DEF BeginDrain, lease, plan
<1>15. ASSUME NEW p \in Procs, Exit(p) PROVE Typed
  BY Zenon, <1>0, <1>15 DEF Exit, Dies, ForgetPlan, States, Triggers
<1>16. ASSUME NEW p \in Procs, Crash(p) PROVE Typed
  BY Zenon, <1>0, <1>16 DEF Crash, Dies, ForgetPlan, States, Triggers
<1> QED
  BY Zenon, <1>1, <1>2, <1>3, <1>4, <1>5, <1>6, <1>7, <1>8, <1>9, <1>10, <1>11, <1>12,
     <1>13, <1>14, <1>15,
     <1>16
     DEF Next, Asks, Cadence
-----------------------------------------------------------------------------
\* The cadence.

\* Nothing of the cadence moves but the clock.
LEMMA GridKeeps ==
  ASSUME TypeOK, GridInv, UNCHANGED <<rec, trig, plan>>, now' \in Nat, now <= now'
  PROVE  GridInv'
<1>1. now \in Nat /\ Interval \in Nat  BY CadenceAssumption DEF TypeOK
<1>2. ASSUME NEW p \in Procs PROVE anchor[p] \in Nat /\ last[p] \in Nat
  BY CadenceAssumption DEF TypeOK, Instants
<1>3. rec # None => rec.anchor \in Nat /\ rec.last \in Nat
  BY CadenceAssumption DEF TypeOK, Instants
<1>4. /\ rec' = rec /\ trig' = trig /\ anchor' = anchor /\ last' = last
      /\ tick' = tick /\ fireAt' = fireAt
  BY DEF plan
<1>5. \A p \in Procs :
        /\ anchor[p] <= now' /\ last[p] <= now' /\ OnGrid(anchor[p], last[p])
        /\ trig[p] = "wait" => tick[p] = last[p] + Interval /\ tick[p] <= fireAt[p]
  BY <1>1, <1>2 DEF GridInv
<1>6. rec # None => rec.anchor <= now' /\ rec.last <= now' /\ OnGrid(rec.anchor, rec.last)
  BY <1>1, <1>3 DEF GridInv
<1> QED  BY Zenon, <1>4, <1>5, <1>6 DEF GridInv, OnGrid

\* A process plans and the record, if written, is its own or as it was.
LEMMA GridPlans ==
  ASSUME TypeOK, GridInv, NEW p \in Procs, NEW a \in 0..now, NEW l \in 0..now,
         OnGrid(a, l), Plan(p, a, l), UNCHANGED now,
         rec' = rec \/ rec' = [anchor |-> anchor[p], last |-> last[p]]
  PROVE  GridInv'
<1>1. /\ anchor'[p] = a /\ last'[p] <= now /\ OnGrid(a, last'[p])
      /\ tick'[p] = last'[p] + Interval /\ tick'[p] <= fireAt'[p]
  BY Zenon, PlanStep
<1>2. \A q \in Procs \ {p} :
        /\ anchor'[q] = anchor[q] /\ last'[q] = last[q] /\ tick'[q] = tick[q]
        /\ fireAt'[q] = fireAt[q] /\ trig'[q] = trig[q]
  BY Zenon, PlanStep
<1>3. ASSUME NEW q \in Procs
      PROVE  /\ anchor'[q] <= now' /\ last'[q] <= now' /\ OnGrid(anchor'[q], last'[q])
             /\ trig'[q] = "wait" => tick'[q] = last'[q] + Interval /\ tick'[q] <= fireAt'[q]
  <2>1. CASE q = p
    <3>1. a <= now  OBVIOUS
    <3> QED  BY Zenon, <1>1, <2>1, <3>1
  <2>2. CASE q # p  BY Zenon, <1>2, <2>2 DEF GridInv
  <2> QED  BY Zenon, <2>1, <2>2
<1>4. rec' # None => rec'.anchor <= now' /\ rec'.last <= now' /\ OnGrid(rec'.anchor, rec'.last)
  <2>1. CASE rec' = rec  BY Zenon, <2>1 DEF GridInv
  <2>2. CASE rec' = [anchor |-> anchor[p], last |-> last[p]]
    <3>1. rec'.anchor = anchor[p] /\ rec'.last = last[p]  BY <2>2
    <3>2. anchor[p] <= now /\ last[p] <= now /\ OnGrid(anchor[p], last[p])  BY Zenon DEF GridInv
    <3> QED  BY Zenon, <3>1, <3>2
  <2> QED  BY Zenon, <2>1, <2>2
<1>5. \A q \in Procs :
        /\ anchor'[q] <= now' /\ last'[q] <= now' /\ OnGrid(anchor'[q], last'[q])
        /\ trig'[q] = "wait" => tick'[q] = last'[q] + Interval /\ tick'[q] <= fireAt'[q]
  BY Zenon, <1>3
<1> QED  BY Zenon, <1>4, <1>5 DEF GridInv, OnGrid

\* A process gives up its plan: it fired, it chose a new anchor, or it ended.
LEMMA GridDrops ==
  ASSUME TypeOK, GridInv, NEW p \in Procs, UNCHANGED <<now, rec>>,
         trig' = [trig EXCEPT ![p] = trig'[p]], trig'[p] # "wait",
         anchor' = [anchor EXCEPT ![p] = anchor'[p]], last' = [last EXCEPT ![p] = last'[p]],
         \A q \in Procs \ {p} : tick'[q] = tick[q] /\ fireAt'[q] = fireAt[q],
         anchor'[p] <= now, last'[p] <= now, OnGrid(anchor'[p], last'[p])
  PROVE  GridInv'
<1>1. /\ anchor \in [Procs -> Instants] /\ last \in [Procs -> Instants]
      /\ trig \in [Procs -> Triggers]
  BY Zenon DEF TypeOK, Triggers
<1>2. \A q \in Procs \ {p} :
        anchor'[q] = anchor[q] /\ last'[q] = last[q] /\ trig'[q] = trig[q]
  BY Zenon, <1>1
<1>3. ASSUME NEW q \in Procs
      PROVE  /\ anchor'[q] <= now' /\ last'[q] <= now' /\ OnGrid(anchor'[q], last'[q])
             /\ trig'[q] = "wait" => tick'[q] = last'[q] + Interval /\ tick'[q] <= fireAt'[q]
  <2>1. CASE q = p  BY Zenon, <2>1
  <2>2. CASE q # p  BY Zenon, <1>2, <2>2 DEF GridInv
  <2> QED  BY Zenon, <2>1, <2>2
<1>4. rec' # None => rec'.anchor <= now' /\ rec'.last <= now' /\ OnGrid(rec'.anchor, rec'.last)
  BY DEF GridInv
<1>5. \A q \in Procs :
        /\ anchor'[q] <= now' /\ last'[q] <= now' /\ OnGrid(anchor'[q], last'[q])
        /\ trig'[q] = "wait" => tick'[q] = last'[q] + Interval /\ tick'[q] <= fireAt'[q]
  BY <1>3
<1> QED  BY Zenon, <1>4, <1>5 DEF GridInv, OnGrid

\* A cadence anchored now starts on its own grid.
LEMMA Aligned == ASSUME NEW a \in Nat PROVE OnGrid(a, a)
<1>1. 0 \in Nat /\ a = a + 0 * Interval  BY CadenceAssumption
<1> QED  BY <1>1 DEF OnGrid

\* Every step keeps plans and record on the grid (seed, plan, fireDue, persist).
LEMMA NextGridInv == TypeOK /\ GridInv /\ [Next]_vars => GridInv'
<1> SUFFICES ASSUME TypeOK, GridInv, [Next]_vars PROVE GridInv'  OBVIOUS
<1>0. /\ now \in Nat /\ anchor \in [Procs -> Instants] /\ last \in [Procs -> Instants]
      /\ tick \in [Procs -> Instants] /\ fireAt \in [Procs -> Instants]
      /\ trig \in [Procs -> Triggers]
  BY CadenceAssumption DEF TypeOK, Triggers
<1>1. CASE UNCHANGED vars  BY <1>0, <1>1, GridKeeps DEF vars
<1>2. CASE Tick
  <2>1. now' = now + 1 /\ UNCHANGED <<rec, trig, plan>>  BY <1>2 DEF Tick
  <2>2. now' \in Nat /\ now <= now'  BY <1>0, <2>1
  <2> QED  BY <2>1, <2>2, GridKeeps
<1>3. ASSUME NEW p \in Procs, Boot(p) \/ Asks(p) \/ FailOpen(p) \/ Beat(p) \/ BeginDrain(p)
      PROVE  GridInv'
  <2>1. UNCHANGED <<now, rec, trig, plan>>
    BY <1>3 DEF Boot, Asks, Insert, Refused, FindStale, Steal, FailOpen, Beat, BeginDrain
  <2>2. now' \in Nat /\ now <= now'  BY <1>0, <2>1
  <2> QED  BY <2>1, <2>2, GridKeeps
<1>4. ASSUME NEW p \in Procs, Seed(p) PROVE GridInv'
  <2>0. UNCHANGED <<now, rec>>  BY <1>4 DEF Seed
  <2>1. CASE trig'[p] = "wait"
    <3>1. PICK a \in 0..now, l \in 0..now : OnGrid(a, l) /\ Plan(p, a, l)
      BY Zenon, <1>4, <2>1, WhoPlans
    <3> QED  BY <2>0, <3>1, GridPlans
  <2>2. CASE trig'[p] # "wait"
    <3>1. ASSUME Plan(p, rec.anchor, rec.last) PROVE FALSE  BY <1>0, <2>2, <3>1 DEF Plan
    <3>2. /\ anchor' = [anchor EXCEPT ![p] = now] /\ last' = [last EXCEPT ![p] = now]
          /\ trig' = [trig EXCEPT ![p] = "anchoring"] /\ UNCHANGED <<tick, fireAt>>
      BY <1>4, <3>1 DEF Seed
    <3>3. anchor'[p] = now /\ last'[p] = now /\ trig'[p] = "anchoring"  BY <1>0, <3>2
    <3>4. OnGrid(anchor'[p], last'[p]) /\ anchor'[p] <= now /\ last'[p] <= now
      BY <1>0, <3>3, Aligned
    <3>5. /\ anchor' = [anchor EXCEPT ![p] = anchor'[p]]
          /\ last' = [last EXCEPT ![p] = last'[p]] /\ trig' = [trig EXCEPT ![p] = trig'[p]]
      BY Zenon, <3>2, <3>3
    <3>6. \A q \in Procs \ {p} : tick'[q] = tick[q] /\ fireAt'[q] = fireAt[q]  BY Zenon, <3>2
    <3> QED  BY <2>0, <2>2, <3>4, <3>5, <3>6, GridDrops
  <2> QED  BY <2>1, <2>2
<1>5. ASSUME NEW p \in Procs, Persist(p) PROVE GridInv'
  <2>1. PICK a \in 0..now, l \in 0..now : OnGrid(a, l) /\ Plan(p, a, l)  BY Zenon, <1>5, WhoPlans
  <2>2. UNCHANGED now /\ (rec' = rec \/ rec' = [anchor |-> anchor[p], last |-> last[p]])
    BY <1>5 DEF Persist
  <2> QED  BY Zenon, <2>1, <2>2, GridPlans
<1>6. ASSUME NEW p \in Procs, FireDue(p) PROVE GridInv'
  <2>0. UNCHANGED <<now, rec>> /\ trig[p] = "wait" /\ now >= fireAt[p]  BY <1>6 DEF FireDue
  <2>1. CASE ended[p] \/ draining[p]
    <3>1. PICK a \in 0..now, l \in 0..now : OnGrid(a, l) /\ Plan(p, a, l)
      BY <1>6, <2>1, WhoPlans
    <3> QED  BY Zenon, <2>0, <3>1, GridPlans
  <2>2. CASE ~(ended[p] \/ draining[p])
    <3>1. /\ last' = [last EXCEPT ![p] = tick[p]] /\ trig' = [trig EXCEPT ![p] = "running"]
          /\ UNCHANGED <<anchor, tick, fireAt>>
      BY ZenonT(60), <1>6, <2>2 DEF FireDue
    <3>2. tick[p] \in 0..now /\ OnGrid(anchor[p], tick[p])  BY <2>0, PlansAreDue
    <3>3. anchor'[p] = anchor[p] /\ anchor[p] <= now /\ last'[p] = tick[p]
          /\ trig'[p] = "running" /\ anchor' = [anchor EXCEPT ![p] = anchor'[p]]
      BY <1>0, <3>1 DEF GridInv
    <3>4. last'[p] <= now  BY <3>2, <3>3
    <3> QED  BY Zenon, <1>0, <2>0, <3>1, <3>2, <3>3, <3>4, GridDrops
  <2> QED  BY Zenon, <2>1, <2>2
<1>7. ASSUME NEW p \in Procs, LoopExits(p) \/ Exit(p) \/ Crash(p) PROVE GridInv'
  <2>1. ForgetPlan(p) /\ UNCHANGED <<now, rec>>
    BY Zenon, <1>7 DEF LoopExits, Exit, Crash, Dies
  <2>2. /\ trig' = [trig EXCEPT ![p] = "off"]
        /\ anchor' = [anchor EXCEPT ![p] = 0] /\ last' = [last EXCEPT ![p] = 0]
        /\ tick' = [tick EXCEPT ![p] = 0] /\ fireAt' = [fireAt EXCEPT ![p] = 0]
    BY <2>1 DEF ForgetPlan
  <2>3. anchor'[p] = 0 /\ last'[p] = 0 /\ trig'[p] = "off"  BY <1>0, <2>2
  <2>4. \A q \in Procs \ {p} : tick'[q] = tick[q] /\ fireAt'[q] = fireAt[q]  BY <1>0, <2>2
  <2>5. 0 <= now /\ OnGrid(0, 0)  BY <1>0, Aligned
  <2> QED  BY Zenon, <2>1, <2>2, <2>3, <2>4, <2>5, GridDrops
<1> QED  BY <1>1, <1>2, <1>3, <1>4, <1>5, <1>6, <1>7 DEF Next, Cadence
-----------------------------------------------------------------------------
\* The lease.

\* The row a winner writes is its own.
LEMMA HoldsNow ==
  ASSUME NEW p \in Procs, NEW t \in 0..MaxNow, row' = [holder |-> p, beat |-> t]
  PROVE  Holds(p)'
  BY NoneAssumption DEF Holds

\* Every step keeps the row with the one sound driver (acquireLock, beat, Release).
LEMMA NextLeaseInv == TypeOK /\ GridInv /\ LeaseInv /\ [Next]_vars => LeaseInv'
<1> SUFFICES ASSUME TypeOK, GridInv, LeaseInv, [Next]_vars PROVE LeaseInv'  OBVIOUS
<1>0. /\ now \in 0..MaxNow /\ st \in [Procs -> States] /\ trig \in [Procs -> Triggers]
      /\ row \in {None} \cup [holder : Procs, beat : 0..MaxNow]
      /\ prey \in [Procs -> {None} \cup [holder : Procs, at : 0..MaxNow]]
  BY DEF TypeOK, States, Triggers
<1>1. CASE UNCHANGED vars  BY Zenon, <1>1 DEF LeaseInv, Sound, Holds, vars, lease
<1>2. CASE Tick  BY Zenon, <1>2 DEF Tick, LeaseInv, Sound, Holds, lease
<1>3. ASSUME NEW p \in Procs, Boot(p) PROVE LeaseInv'
  BY ZenonT(60), <1>0, <1>3 DEF Boot, LeaseInv, Sound, Holds
<1>4. ASSUME NEW p \in Procs, Insert(p) PROVE LeaseInv'
  <2>1. /\ st' = [st EXCEPT ![p] = "won"] /\ st[p] = "booting" /\ row = None
        /\ UNCHANGED <<prey, trig, lapsed, open>> /\ row' = [holder |-> p, beat |-> now]
    BY Zenon, <1>4 DEF Insert, Hold
  <2>2. Holds(p)'  BY Zenon, <1>0, <2>1, HoldsNow
  <2>3. ASSUME NEW q \in Procs, q # p, st'[q] \in {"won", "driving"}, Sound(q)' PROVE FALSE
    BY Zenon, <1>0, <2>1, <2>3 DEF LeaseInv, Sound, Holds
  <2> QED  BY Zenon, <1>0, <2>1, <2>2, <2>3 DEF LeaseInv
<1>5. ASSUME NEW p \in Procs, Refused(p) PROVE LeaseInv'
  BY Zenon, <1>0, <1>5 DEF Refused, AfterRefusal, LeaseInv, Sound, Holds, lease
<1>6. ASSUME NEW p \in Procs, FindStale(p) PROVE LeaseInv'
  <2>1. [holder |-> row.holder, at |-> now] # None
    <3>1. row # None  BY <1>6 DEF FindStale
    <3> QED  BY <1>0, <3>1, NoneAssumption
  <2> QED  BY ZenonT(60), <1>0, <1>6, <2>1 DEF FindStale, LeaseInv, Sound, Holds
<1>7. ASSUME NEW p \in Procs, Steal(p) PROVE LeaseInv'
  <2>0. /\ st[p] = "stealing" /\ prey' = [prey EXCEPT ![p] = None] /\ UNCHANGED <<trig, open>>
    BY Zenon, <1>7 DEF Steal
  <2>1. prey[p] \in [holder : Procs, at : 0..MaxNow]  BY Zenon, <1>0, <2>0 DEF LeaseInv
  <2>2. CASE Holds(prey[p].holder)
    <3>1. /\ st' = [st EXCEPT ![p] = "won"] /\ row' = [holder |-> p, beat |-> prey[p].at]
          /\ lapsed' = lapsed \cup {q \in {prey[p].holder} : Alive(q)}
      BY Zenon, <1>7, <2>2 DEF Steal, Hold
    <3>2. Holds(p)'  BY Zenon, <2>1, <3>1, HoldsNow
    <3>3. ASSUME NEW q \in Procs, q # p, st'[q] \in {"won", "driving"}, Sound(q)' PROVE FALSE
      <4>1. st[q] \in {"won", "driving"} /\ Sound(q)  BY Zenon, <1>0, <2>0, <3>1, <3>3 DEF Sound
      <4>2. Holds(q)  BY <4>1 DEF LeaseInv
      <4>3. q = prey[p].holder  BY Zenon, <2>2, <4>2 DEF Holds
      <4> QED  BY Zenon, <3>1, <3>3, <4>1, <4>3 DEF Sound, Alive
    <3> QED  BY Zenon, <1>0, <2>0, <3>1, <3>2, <3>3 DEF LeaseInv
  <2>3. CASE ~Holds(prey[p].holder)
    <3>1. st' = [st EXCEPT ![p] = AfterRefusal(p)] /\ UNCHANGED <<row, lapsed>>
      BY Zenon, <1>7, <2>3 DEF Steal
    <3> QED  BY ZenonT(60), <1>0, <2>0, <3>1 DEF AfterRefusal, LeaseInv, Sound, Holds
  <2> QED  BY Zenon, <2>2, <2>3
<1>8. ASSUME NEW p \in Procs, FailOpen(p) PROVE LeaseInv'
  BY ZenonT(60), <1>0, <1>8 DEF FailOpen, LeaseInv, Sound, Holds
<1>9. ASSUME NEW p \in Procs, Beat(p) PROVE LeaseInv'
  <2>1. UNCHANGED <<st, trig, prey, lapsed, open>>  BY <1>9 DEF Beat
  <2>2. ASSUME NEW q \in Procs, Holds(q) PROVE Holds(q)'
    <3>1. CASE UNCHANGED row  BY Zenon, <2>2, <3>1 DEF Holds
    <3>2. CASE row' = [row EXCEPT !.beat = now]
      <4>1. row \in [holder : Procs, beat : 0..MaxNow] /\ row.holder = q
        BY <1>0, <2>2 DEF Holds
      <4>2. row' = [holder |-> q, beat |-> now]  BY Zenon, <3>2, <4>1
      <4> QED  BY Zenon, <1>0, <4>2, HoldsNow
    <3> QED  BY <1>9, <3>1, <3>2 DEF Beat
  <2> QED  BY <2>1, <2>2 DEF LeaseInv, Sound
<1>10. ASSUME NEW p \in Procs, Seed(p) PROVE LeaseInv'
  <2>1. /\ st[p] = "won" /\ st' = [st EXCEPT ![p] = "driving"]
        /\ UNCHANGED <<row, prey, lapsed, open>>
    BY Zenon, <1>10 DEF Seed, lease
  <2>2. \A q \in Procs \ {p} : trig'[q] = trig[q]  BY Zenon, <1>0, <1>10 DEF Seed, Plan
  <2> QED  BY ZenonT(60), <1>0, <2>1, <2>2 DEF LeaseInv, Sound, Holds
<1>11. ASSUME NEW p \in Procs, Persist(p) \/ FireDue(p) PROVE LeaseInv'
  <2>1. st[p] = "driving" /\ UNCHANGED <<st, row, prey, lapsed, open>>
    BY Zenon, <1>11 DEF Persist, FireDue, lease
  <2>2. \A q \in Procs \ {p} : trig'[q] = trig[q]  BY Zenon, <1>0, <1>11 DEF Persist, FireDue, Plan
  <2> QED  BY Zenon, <2>1, <2>2 DEF LeaseInv, Sound, Holds
<1>12. ASSUME NEW p \in Procs, LoopExits(p) PROVE LeaseInv'
  BY Zenon, <1>0, <1>12 DEF LoopExits, ForgetPlan, LeaseInv, Sound, Holds, lease
<1>13. ASSUME NEW p \in Procs, BeginDrain(p) PROVE LeaseInv'
  BY Zenon, <1>13 DEF BeginDrain, LeaseInv, Sound, Holds, lease
<1>14. ASSUME NEW p \in Procs, Exit(p) \/ Crash(p) PROVE LeaseInv'
  <2>1. /\ st' = [st EXCEPT ![p] = "exited"] /\ trig' = [trig EXCEPT ![p] = "off"]
        /\ prey' = [prey EXCEPT ![p] = None] /\ UNCHANGED <<lapsed, open>>
    BY <1>14 DEF Exit, Crash, Dies, ForgetPlan
  <2>2. row' = row \/ Holds(p)  BY Zenon, <1>14 DEF Exit, Crash
  <2> QED  BY Zenon, <1>0, <2>1, <2>2 DEF LeaseInv, Sound, Holds
<1> QED
  BY <1>1, <1>2, <1>3, <1>4, <1>5, <1>6, <1>7, <1>8, <1>9, <1>10, <1>11, <1>12, <1>13, <1>14
     DEF Next, Asks, Cadence
-----------------------------------------------------------------------------
\* What ran.

\* Nobody fires: plans that are new lie ahead of the clock, and a party to a
\* split stays one.
LEMMA RanKeeps ==
  ASSUME TypeOK, TypeOK', RanInv, UNCHANGED ran, now <= now',
         lapsed \subseteq lapsed', open \subseteq open',
         \A p \in Procs : trig'[p] = "wait" =>
           (trig[p] = "wait" /\ tick'[p] = tick[p]) \/ now < tick'[p]
  PROVE  RanInv'
<1>1. /\ now \in Nat /\ now' \in Nat /\ \A p \in Procs : ran[p] \subseteq Nat /\ tick'[p] \in Nat
  BY SMTT(60), CadenceAssumption DEF TypeOK, Instants
<1>2. ASSUME NEW p \in Procs, NEW x \in ran[p] PROVE x <= now /\ x <= now'
  <2>1. x <= now  BY Zenon, <1>2 DEF RanInv
  <2>2. x \in Nat /\ now \in Nat /\ now' \in Nat /\ now <= now'  BY Zenon, <1>1, <1>2
  <2> QED  BY ONLY <2>1, <2>2
<1>3. ASSUME NEW p \in Procs, NEW q \in Procs, p # q, Sound(p)', Sound(q)'
      PROVE  /\ ran[p] \cap ran[q] = {}
             /\ trig'[p] = "wait" => \A x \in ran[q] : x < tick'[p]
  <2>1. Sound(p) /\ Sound(q)  BY Zenon, <1>3 DEF Sound
  <2>2. /\ ran[p] \cap ran[q] = {}
        /\ trig[p] = "wait" => \A x \in ran[q] : x < tick[p]
    BY Zenon, <1>3, <2>1 DEF RanInv
  <2>3. ASSUME trig'[p] = "wait", NEW x \in ran[q] PROVE x < tick'[p]
    <3>1. CASE trig[p] = "wait" /\ tick'[p] = tick[p]  BY Zenon, <2>2, <3>1, <2>3
    <3>2. CASE now < tick'[p]
      <4>1. x \in Nat /\ tick'[p] \in Nat /\ x <= now  BY Zenon, <1>1, <1>2
      <4> QED  BY ONLY <1>1, <3>2, <4>1
    <3> QED  BY Zenon, <2>3, <3>1, <3>2
  <2> QED  BY Zenon, <2>2, <2>3
<1> QED  BY Zenon, <1>2, <1>3 DEF RanInv

\* Every step keeps what others ran behind the tick waited for (fireDue).
LEMMA NextRanInv ==
  TypeOK /\ TypeOK' /\ GridInv /\ LeaseInv /\ RanInv /\ [Next]_vars => RanInv'
<1> SUFFICES ASSUME TypeOK, TypeOK', GridInv, LeaseInv, RanInv, [Next]_vars PROVE RanInv'
  OBVIOUS
<1>0. now \in Nat /\ trig \in [Procs -> Triggers]  BY CadenceAssumption DEF TypeOK, Triggers
<1>1. CASE UNCHANGED vars  BY <1>0, <1>1, RanKeeps DEF vars, lease, plan
<1>2. CASE Tick  BY <1>0, <1>2, RanKeeps DEF Tick, lease, plan
<1>3. ASSUME NEW p \in Procs, Boot(p) \/ Asks(p) \/ FailOpen(p) \/ Beat(p) \/ BeginDrain(p)
      PROVE  RanInv'
  <2>1. UNCHANGED <<now, ran, trig, plan>> /\ lapsed \subseteq lapsed' /\ open \subseteq open'
    BY Zenon, <1>3
       DEF Boot, Asks, Insert, Refused, FindStale, Steal, FailOpen, Beat, BeginDrain, lease
  <2> QED  BY <1>0, <2>1, RanKeeps DEF plan
<1>4. ASSUME NEW p \in Procs, NEW a \in 0..now, NEW l \in 0..now, OnGrid(a, l), Plan(p, a, l),
             UNCHANGED <<now, ran, lease>>
      PROVE  RanInv'
  <2>1. now < tick'[p] /\ \A q \in Procs \ {p} : tick'[q] = tick[q] /\ trig'[q] = trig[q]
    BY Zenon, <1>4, PlanStep
  <2> QED  BY SMTT(60), <1>0, <1>4, <2>1, RanKeeps DEF lease
<1>5. ASSUME NEW p \in Procs, Seed(p) PROVE RanInv'
  <2>0. UNCHANGED <<now, ran, lease>>  BY <1>5 DEF Seed
  <2>1. CASE trig'[p] = "wait"
    <3>1. PICK a \in 0..now, l \in 0..now : OnGrid(a, l) /\ Plan(p, a, l)
      BY Zenon, <1>5, <2>1, WhoPlans
    <3> QED  BY Zenon, <1>4, <2>0, <3>1
  <2>2. CASE trig'[p] # "wait"
    <3>1. ASSUME Plan(p, rec.anchor, rec.last) PROVE FALSE  BY Zenon, <1>0, <2>2, <3>1 DEF Plan
    <3>2. trig' = [trig EXCEPT ![p] = "anchoring"] /\ UNCHANGED tick  BY <1>5, <3>1 DEF Seed
    <3> QED  BY <1>0, <2>0, <3>2, RanKeeps DEF lease
  <2> QED  BY <2>1, <2>2
<1>6. ASSUME NEW p \in Procs, Persist(p) PROVE RanInv'
  <2>1. PICK a \in 0..now, l \in 0..now : OnGrid(a, l) /\ Plan(p, a, l)  BY Zenon, <1>6, WhoPlans
  <2>2. UNCHANGED <<now, ran, lease>>  BY Zenon, <1>6 DEF Persist
  <2> QED  BY Zenon, <1>4, <2>1, <2>2
<1>7. ASSUME NEW p \in Procs, FireDue(p) PROVE RanInv'
  <2>0. /\ UNCHANGED <<now, lease>> /\ trig[p] = "wait" /\ st[p] = "driving"
        /\ now >= fireAt[p]
    BY Zenon, <1>7 DEF FireDue
  <2>1. CASE ended[p] \/ draining[p]
    <3>1. PICK a \in 0..now, l \in 0..now : OnGrid(a, l) /\ Plan(p, a, l)
      BY Zenon, <1>7, <2>1, WhoPlans
    <3>2. UNCHANGED ran  BY Zenon, <1>7, <2>1 DEF FireDue
    <3> QED  BY Zenon, <1>4, <2>0, <3>1, <3>2
  <2>2. CASE ~(ended[p] \/ draining[p])
    <3>1. /\ ran' = [ran EXCEPT ![p] = @ \cup {tick[p]}] /\ UNCHANGED tick
          /\ trig' = [trig EXCEPT ![p] = "running"]
      BY Zenon, <1>7, <2>2 DEF FireDue
    <3>2. tick[p] \in 0..now  BY Zenon, <2>0, PlansAreDue
    <3>3. /\ ran'[p] = ran[p] \cup {tick[p]} /\ trig'[p] = "running"
          /\ \A q \in Procs \ {p} : ran'[q] = ran[q] /\ trig'[q] = trig[q]
      BY <1>0, <3>1 DEF TypeOK
    <3>4. \A q \in Procs : Sound(q)' = Sound(q)  BY <2>0 DEF Sound, lease
    <3>5. ASSUME NEW q \in Procs, NEW x \in ran'[q] PROVE x <= now'
      <4>1. CASE q # p  BY Zenon, <2>0, <3>3, <3>5, <4>1 DEF RanInv
      <4>2. CASE q = p
        <5>1. CASE x = tick[p]  BY <2>0, <3>2, <5>1
        <5>2. CASE x \in ran[p]  BY Zenon, <2>0, <5>2 DEF RanInv
        <5> QED  BY <3>3, <3>5, <4>2, <5>1, <5>2
      <4> QED  BY Zenon, <4>1, <4>2
    <3>6. ASSUME NEW q \in Procs, q # p, Sound(q), Sound(p)
          PROVE  /\ ran'[p] \cap ran'[q] = {} /\ trig'[q] # "wait"
      <4>1. ran[p] \cap ran[q] = {} /\ \A x \in ran[q] : x < tick[p]
        BY Zenon, <2>0, <3>6 DEF RanInv
      <4>2. tick[p] \notin ran[q]
        <5>1. ASSUME tick[p] \in ran[q] PROVE FALSE
          <6>1. tick[p] < tick[p]  BY Zenon, <4>1, <5>1
          <6> QED  BY <6>1, <3>2, <1>0
        <5> QED  BY <5>1
      <4>3. Holds(p)  BY Zenon, <2>0, <3>6 DEF LeaseInv
      <4>4. trig[q] # "wait"
        <5>1. ASSUME trig[q] = "wait" PROVE FALSE
          <6>1. Holds(q)  BY Zenon, <3>6, <5>1 DEF LeaseInv
          <6> QED  BY Zenon, <3>6, <4>3, <6>1 DEF Holds
        <5> QED  BY <5>1
      <4> QED  BY Zenon, <3>3, <3>6, <4>1, <4>2, <4>4
    <3>7. ASSUME NEW q \in Procs, NEW r \in Procs, q # r, Sound(q)', Sound(r)'
          PROVE  /\ ran'[q] \cap ran'[r] = {}
                 /\ trig'[q] = "wait" => \A x \in ran'[r] : x < tick'[q]
      <4>0. Sound(q) /\ Sound(r)  BY Zenon, <3>4, <3>7
      <4>1. CASE q = p  BY Zenon, <3>3, <3>6, <3>7, <4>0, <4>1
      <4>2. CASE r = p  BY Zenon, <3>6, <3>7, <4>0, <4>2
      <4>3. CASE q # p /\ r # p  BY ZenonT(60), <3>1, <3>3, <3>7, <4>0, <4>3 DEF RanInv
      <4> QED  BY Zenon, <4>1, <4>2, <4>3
    <3> QED  BY Zenon, <3>5, <3>7 DEF RanInv
  <2> QED  BY Zenon, <2>1, <2>2
<1>8. ASSUME NEW p \in Procs, LoopExits(p) \/ Exit(p) \/ Crash(p) PROVE RanInv'
  <2>1. ForgetPlan(p) /\ UNCHANGED <<now, ran, lapsed, open>>
    BY Zenon, <1>8 DEF LoopExits, Exit, Crash, Dies, lease
  <2>2. trig' = [trig EXCEPT ![p] = "off"] /\ tick' = [tick EXCEPT ![p] = 0]
    BY Zenon, <2>1 DEF ForgetPlan
  <2>3. \A q \in Procs : trig'[q] = "wait" => trig[q] = "wait" /\ tick'[q] = tick[q]
    BY ZenonT(60), <1>0, <2>2 DEF TypeOK
  <2> QED  BY SMTT(60), <1>0, <2>1, <2>3, RanKeeps
<1> QED
  BY <1>1, <1>2, <1>3, <1>5, <1>6, <1>7, <1>8 DEF Next, Cadence

-----------------------------------------------------------------------------
\* The invariant holds at the start and in every step.
LEMMA Invariant == Spec => []IInv
<1>1. Init => IInv
  <2> SUFFICES ASSUME Init PROVE IInv  OBVIOUS
  <2>1. TypeOK  BY InitTypeOK
  <2>2. OnGrid(0, 0)  BY Aligned
  <2>3. GridInv  BY <2>2 DEF Init, GridInv
  <2>4. LeaseInv  BY Zenon DEF Init, LeaseInv
  <2>5. RanInv  BY DEF Init, RanInv
  <2> QED  BY <2>1, <2>3, <2>4, <2>5 DEF IInv
<1>2. IInv /\ [Next]_vars => IInv'
  BY NextTypeOK, NextGridInv, NextLeaseInv, NextRanInv DEF IInv
<1> QED  BY <1>1, <1>2, PTL DEF Spec

\* However the lease is won, lost, stolen or done without, and whatever the clock
\* does between a process's steps: a tick runs in two processes only if one of
\* them was robbed of the lease alive or drove without one (fireDue, acquireLock,
\* acquireSchedulingLeaseWithin); and a plan is always for the point right after
\* the last one accounted for (plan).
THEOREM TicksRunOnce == Spec => []TicksAreKept
<1>1. IInv => DuplicateNeedsSplit
  BY Zenon DEF IInv, RanInv, DuplicateNeedsSplit, Sound
<1>2. IInv => PlanIsContiguous  BY DEF IInv, GridInv, PlanIsContiguous
<1> QED  BY Invariant, <1>1, <1>2, PTL DEF TicksAreKept

\* acquireSchedulingLeaseWithin gives up only when the row was written after it
\* began to ask: a fresh row, seen when the retry window has run out, is younger
\* than the window.
THEOREM GivesUpToALiveRival == Spec => PassiveMeansLiveRival
<1>1. ASSUME IInv, [Next]_vars PROVE [GivesUpToRival]_vars
  <2> SUFFICES ASSUME NEW p \in Procs, st[p] = "booting", st'[p] = "passive",
                      ~UNCHANGED vars
               PROVE  row.beat >= bootAt[p]
    BY DEF GivesUpToRival
  <2>0. /\ now \in Nat /\ st \in [Procs -> States] /\ StaleAfter \in Nat /\ RetryFor \in Nat
        /\ StaleAfter <= RetryFor /\ bootAt[p] \in Nat
        /\ (row # None => row.beat \in Nat)
    <3>1. MaxNow \in Nat /\ StaleAfter \in Nat /\ RetryFor \in Nat /\ StaleAfter <= RetryFor
      BY CadenceAssumption
    <3>2. /\ now \in 0..MaxNow /\ st \in [Procs -> States] /\ bootAt[p] \in 0..MaxNow
          /\ row \in {None} \cup [holder : Procs, beat : 0..MaxNow]
      BY Zenon, <1>1 DEF IInv, TypeOK, States
    <3>3. row # None => row.beat \in 0..MaxNow  BY Zenon, <3>2
    <3> QED  BY <3>1, <3>2, <3>3
  <2>1. Refused(p)
    <3>1. ASSUME NEW q \in Procs, q # p,
                 \/ Boot(q) \/ Asks(q) \/ FailOpen(q) \/ Beat(q) \/ Cadence(q)
                 \/ BeginDrain(q) \/ Exit(q) \/ Crash(q)
          PROVE  st'[p] = st[p]
      BY Zenon, <2>0, <3>1
         DEF Boot, Asks, Insert, Refused, FindStale, Steal, Hold, FailOpen, Beat,
         Cadence, Seed, Persist, FireDue, LoopExits, BeginDrain, Exit, Crash, Dies
    <3>2. ~Tick  BY Zenon DEF Tick
    <3>3. \/ Boot(p) \/ Asks(p) \/ FailOpen(p) \/ Beat(p) \/ Cadence(p)
          \/ BeginDrain(p) \/ Exit(p) \/ Crash(p)
      BY Zenon, <1>1, <3>1, <3>2 DEF Next
    <3> QED
      BY Zenon, <2>0, <3>3
         DEF Boot, Asks, Insert, FindStale, Steal, Hold, FailOpen, Beat,
         Cadence, Seed, Persist, FireDue, LoopExits, BeginDrain, Exit, Crash, Dies
  <2>2. row # None /\ now - row.beat <= StaleAfter /\ ~(now < bootAt[p] + RetryFor)
    <3>1. row # None /\ Fresh(row) /\ st' = [st EXCEPT ![p] = AfterRefusal(p)]
      BY <2>1 DEF Refused
    <3>2. AfterRefusal(p) = "passive"  BY <2>0, <3>1
    <3> QED  BY <3>1, <3>2 DEF Fresh, AfterRefusal
  <2> QED  BY ONLY <2>0, <2>2
<1>2. IInv /\ [Next]_vars => [GivesUpToRival]_vars  BY <1>1
<1> QED  BY Invariant, <1>2, PTL DEF Spec, PassiveMeansLiveRival

-----------------------------------------------------------------------------
\* The monitoring cycle.

CONSTANTS MaxCycles, MaxFound, DigestAfter, Ackers
VARIABLES cyc, at, found, calm, classifies, edits, ref, text, spokeAt, failing, body, forgot, gone,
          told, again, ack, trace, suppressed

Cycle == INSTANCE Monitor

\* An answer read as "nothing changed" is a summary of nothing, and only a producer
\* that found nothing sends one: a cut loses lines, and never makes one a summary.
LEMMA QuietAnswer ==
  ASSUME MaxFound \in Nat, NEW n \in 0..MaxFound, NEW s \in Cycle!Arrives(n),
         Cycle!Parse(s) # Cycle!Malformed, ~(Cycle!Parse(s) > 0)
  PROVE  n = 0
  <1> DEFINE w == Cycle!Whole(n)
  <1>1. /\ s # <<>> /\ s[Len(s)].k = "sum" /\ Cycle!Parse(s) = Len(s) - 1
    BY DEF Cycle!Parse, Cycle!Malformed
  <1>2. PICK i \in DOMAIN w : s \in {SubSeq(w, 1, i - 1) \o <<l>> : l \in Cycle!Cut(w[i])}
    BY Zenon, <1>1 DEF Cycle!Arrives, Cycle!Prefixes
  <1>l. PICK l \in Cycle!Cut(w[i]) : s = SubSeq(w, 1, i - 1) \o <<l>>
    BY Zenon, <1>2
  <1>3. w \in Seq({Cycle!Rec, Cycle!Sum(n)}) /\ Len(w) = n + 1 /\ i \in 1..(n + 1)
        /\ w[i] = IF i <= n THEN Cycle!Rec ELSE Cycle!Sum(n)
    BY DEF Cycle!Whole
  <1> HIDE DEF w
  <1>4. SubSeq(w, 1, i - 1) \in Seq({Cycle!Rec, Cycle!Sum(n)}) /\ Len(SubSeq(w, 1, i - 1)) = i - 1
    BY <1>3
  <1>5. Len(s) = i /\ s[i] = l
    <2> DEFINE v == SubSeq(w, 1, i - 1)
               U == {Cycle!Rec, Cycle!Sum(n), l}
    <2>1. v \in Seq(U) /\ <<l>> \in Seq(U) /\ Len(<<l>>) = 1 /\ <<l>>[1] = l
      BY <1>4
    <2> HIDE DEF v, U
    <2>2. Len(v \o <<l>>) = Len(v) + 1 /\ (v \o <<l>>)[Len(v) + 1] = l
      BY <2>1
    <2> QED
      BY <1>l, <1>3, <1>4, <2>2 DEF v
  <1>6. i = 1 /\ l.k = "sum"
    BY <1>1, <1>3, <1>5
  <1>7. CASE n # 0
    BY <1>l, <1>3, <1>6, <1>7 DEF Cycle!Cut, Cycle!Rec, Cycle!Bad
  <1> QED
    BY <1>7

\* An acknowledgement past its record is in the trace, and the message of an open
\* timeline exists.
CycleInv ==
  /\ cyc \in Nat /\ classifies \in BOOLEAN
  /\ text \in Seq(Nat) /\ body \in Seq(Seq(Nat)) /\ ref \in {None} \cup DOMAIN body
  /\ ack \in [Ackers -> {"new", "recorded", "forwarded", "done"}]
  /\ \A o \in Ackers : ack[o] \in {"recorded", "forwarded"} => o \in trace
  /\ Cycle!QuietOnlyWhenCalm /\ Cycle!TimelineIntact /\ Cycle!SuppressionAttributed

\* What one request to the ingress does to the timeline.
LEMMA TimelineKeeps ==
  ASSUME CycleInv, Cycle!Send
  PROVE  /\ text' \in Seq(Nat) /\ body' \in Seq(Seq(Nat)) /\ ref' \in {None} \cup DOMAIN body'
         /\ ref' # None /\ ref' \notin gone => body'[ref'] = text'
  <1> DEFINE Good == /\ text' \in Seq(Nat) /\ body' \in Seq(Seq(Nat)) /\ ref' \in {None} \cup DOMAIN body'
                     /\ ref' # None /\ ref' \notin gone => body'[ref'] = text'
  <1>1. ASSUME NEW t \in Seq(Nat), Cycle!Posts(t) PROVE Good
    <2>1. /\ Append(body, t) \in Seq(Seq(Nat)) /\ Len(body) + 1 \in DOMAIN Append(body, t)
          /\ Append(body, t)[Len(body) + 1] = t /\ body \in Seq(Seq(Nat)) /\ <<>> \in Seq(Nat)
      BY <1>1 DEF CycleInv
    <2> QED
      BY Zenon, <1>1, <2>1 DEF Cycle!Posts
  <1>2. <<cyc>> \in Seq(Nat) /\ Append(text, cyc) \in Seq(Nat) /\ <<>> \in Seq(Nat)
    BY DEF CycleInv
  <1>3. ASSUME ref # None, NEW t \in Seq(Nat)
        PROVE  /\ [body EXCEPT ![ref] = t] \in Seq(Seq(Nat)) /\ ref \in DOMAIN [body EXCEPT ![ref] = t]
               /\ [body EXCEPT ![ref] = t][ref] = t
    BY <1>3 DEF CycleInv
  <1>4. CASE ref # None /\ Cycle!Appends
    <2>1. [body EXCEPT ![ref] = Append(@, cyc)] = [body EXCEPT ![ref] = Append(text, cyc)]
      BY Zenon, <1>4 DEF Cycle!Appends, CycleInv, Cycle!TimelineIntact
    <2>2. \/ body' = [body EXCEPT ![ref] = Append(text, cyc)] /\ text' = Append(text, cyc) /\ ref' = ref
          \/ Cycle!Posts(<<cyc>>)
          \/ body' \in {body, [body EXCEPT ![ref] = Append(text, cyc)]} /\ ref' = None /\ text' = <<>>
      BY Zenon, <1>4, <2>1 DEF Cycle!Appends, Cycle!Posts
    <2> QED
      BY Zenon, <1>1, <1>2, <1>3, <1>4, <2>2 DEF CycleInv
  <1>5. CASE ref # None /\ Cycle!Replaces(Append(text, cyc))
    BY Zenon, <1>2, <1>3, <1>5 DEF Cycle!Replaces, CycleInv
  <1> QED
    BY Zenon, <1>1, <1>2, <1>4, <1>5 DEF Cycle!Send

LEMMA InitCycle ==
  ASSUME Cycle!Init
  PROVE  CycleInv
  BY DEF Cycle!Init, CycleInv, Cycle!QuietOnlyWhenCalm, Cycle!TimelineIntact, Cycle!SuppressionAttributed

LEMMA NextCycle ==
  ASSUME MaxFound \in Nat, CycleInv, [Cycle!Next]_(Cycle!vars)
  PROVE  CycleInv'
  <1> DEFINE Acks == /\ ack \in [Ackers -> {"new", "recorded", "forwarded", "done"}]
                     /\ \A o \in Ackers : ack[o] \in {"recorded", "forwarded"} => o \in trace
                     /\ suppressed \subseteq trace
             Line == /\ text \in Seq(Nat) /\ body \in Seq(Seq(Nat)) /\ ref \in {None} \cup DOMAIN body
                     /\ ref # None /\ ref \notin gone => body[ref] = text
             Pulse == cyc \in Nat /\ classifies \in BOOLEAN /\ (calm => found = 0)
  <1>0. Acks /\ Line /\ Pulse
    BY DEF CycleInv, Cycle!QuietOnlyWhenCalm, Cycle!TimelineIntact, Cycle!SuppressionAttributed
  <1>s. SUFFICES Acks' /\ Line' /\ Pulse'
    BY DEF CycleInv, Cycle!QuietOnlyWhenCalm, Cycle!TimelineIntact, Cycle!SuppressionAttributed
  <1>a. UNCHANGED <<ack, trace, suppressed>> => Acks'
    BY <1>0
  <1>l. UNCHANGED <<text, body, ref, gone>> => Line'
    BY <1>0
  <1>b. UNCHANGED <<cyc, classifies, calm, found>> => Pulse'
    BY <1>0
  <1>n. ref' = None /\ text' = <<>> /\ UNCHANGED body => Line'
    BY <1>0
  <1>1. CASE Cycle!Collect
    <2>1. PICK s \in Cycle!Arrives(found') :
            \/ Cycle!cycleFailed /\ calm' = FALSE
            \/ /\ classifies => Cycle!Parse(s) # Cycle!Malformed
               /\ IF Cycle!decide(Cycle!Parse(s)) = "quiet"
                  THEN calm' = TRUE /\ ref' = None /\ text' = <<>>
                  ELSE calm' = FALSE /\ UNCHANGED <<ref, text>>
      BY Zenon, <1>1 DEF Cycle!Collect
    <2>2. Line'
      BY Zenon, <1>1, <2>1, <1>l, <1>n DEF Cycle!Collect, Cycle!cycleFailed, Cycle!chat
    <2>3. ASSUME calm' PROVE found' = 0
      <3>1. Cycle!decide(Cycle!Parse(s)) = "quiet" /\ (classifies => Cycle!Parse(s) # Cycle!Malformed)
        BY Zenon, <2>1, <2>3
      <3>2. classifies /\ ~(Cycle!Parse(s) > 0)
        BY Zenon, <3>1 DEF Cycle!decide
      <3> QED
        BY Zenon, <1>1, <3>1, <3>2, QuietAnswer DEF Cycle!Collect
    <2> QED
      BY <1>0, <1>1, <1>a, <2>2, <2>3 DEF Cycle!Collect, Cycle!setup, Cycle!acks
  <1>2. CASE Cycle!Turn
    BY Zenon, <1>2, <1>a, <1>l, <1>n, <1>b DEF Cycle!Turn, Cycle!cycleFailed, Cycle!setup, Cycle!acks,
       Cycle!chat
  <1>3. CASE Cycle!Speak
    <2>1. CASE UNCHANGED <<text, body, ref>>
      BY Zenon, <1>3, <2>1, <1>a, <1>l, <1>b DEF Cycle!Speak, Cycle!setup, Cycle!acks
    <2>2. CASE Cycle!Send
      BY <1>3, <2>2, <1>a, <1>b, TimelineKeeps DEF Cycle!Speak, Cycle!setup, Cycle!acks
    <2> QED
      BY Zenon, <1>3, <2>1, <2>2 DEF Cycle!Speak, Cycle!timeline
  <1>4. CASE Cycle!IngressForgets
    BY Zenon, <1>4, <1>a, <1>l, <1>b DEF Cycle!IngressForgets, Cycle!setup, Cycle!timeline, Cycle!acks
  <1>5. CASE Cycle!MessageDeleted
    BY Zenon, <1>0, <1>5, <1>a, <1>b DEF Cycle!MessageDeleted, Cycle!setup, Cycle!timeline, Cycle!acks
  <1>6. CASE Cycle!Restart
    BY Zenon, <1>0, <1>6, <1>n, <1>b DEF Cycle!Restart, Cycle!setup, Cycle!chat
  <1>7. ASSUME NEW o \in Ackers, Cycle!AckRecord(o) \/ Cycle!AckForward(o) \/ Cycle!AckNote(o)
        PROVE  Acks' /\ Line' /\ Pulse'
    <2>1. Line' /\ Pulse'
      BY <1>7, <1>l, <1>b DEF Cycle!AckRecord, Cycle!AckForward, Cycle!AckNote, Cycle!setup, Cycle!timeline,
                              Cycle!chat
    <2>2. Acks'
      BY Zenon, <1>0, <1>7 DEF Cycle!AckRecord, Cycle!AckForward, Cycle!AckNote
    <2> QED
      BY <2>1, <2>2
  <1>8. CASE UNCHANGED Cycle!vars
    BY Zenon, <1>8, <1>a, <1>l, <1>b DEF Cycle!vars, Cycle!setup, Cycle!timeline, Cycle!chat, Cycle!acks
  <1> HIDE DEF Acks, Line, Pulse
  <1> QED
    BY Zenon, <1>1, <1>2, <1>3, <1>4, <1>5, <1>6, <1>7, <1>8 DEF Cycle!Next

\* Whatever the collected answers lost on the way, a quiet cycle found nothing
\* (Parse); while a timeline is open its message says what mast believes it says
\* (send, speak); and the producer suppresses nothing that is not recorded (forward).
THEOREM MonitoringIsHonest ==
  ASSUME MaxFound \in Nat
  PROVE  Cycle!Spec => [](Cycle!QuietOnlyWhenCalm /\ Cycle!TimelineIntact /\ Cycle!SuppressionAttributed)
  <1>1. CycleInv => Cycle!QuietOnlyWhenCalm /\ Cycle!TimelineIntact /\ Cycle!SuppressionAttributed
    BY DEF CycleInv
  <1> QED
    BY <1>1, InitCycle, NextCycle, PTL DEF Cycle!Spec
=============================================================================
