-------------------------- MODULE EffectOutboxProofs --------------------------
(***************************************************************************)
(* What the effect outbox and the boot pass guarantee for any calls, any   *)
(* number of turns and any number of exits.                                *)
(*                                                                         *)
(* The properties speak of a step; why the step is right was settled when  *)
(* its turn began.  The invariant says what the turn-start snapshot still  *)
(* is worth later (TurnInv), what the watermark covers (AckInv), what the  *)
(* log says of a call that ran (RanInv), what the boot pass's candidate    *)
(* still says of the log it was read from (ScanInv), and how many attempts *)
(* a window has seen (WindowInv).                                          *)
(***************************************************************************)
EXTENDS EffectOutbox, TLAPS

\* What a composed root makes of its calls: a sub-run is a spawning call's, makes
\* mutating calls the write gate does not see and dispatches nothing itself, and
\* the gate parks only calls that mutate.
CallTree ==
  /\ None \notin Calls /\ Parent \in [Calls -> Calls \cup {None}]
  /\ \A c \in Calls : Parent[c] # None =>
       /\ Class[Parent[c]] = "spawning" /\ Parent[Parent[c]] = None
       /\ Class[c] = "mutating" /\ c \notin Gated
  /\ \A c \in Gated \cap Calls : Class[c] = "mutating"

Types ==
  /\ intent \in [Calls -> Nat] /\ ext \in [Calls -> Nat] /\ effects \in [Calls -> Nat]
  /\ resp \in [Calls -> {"none", "placeholder", "done"}]
  /\ confirm \in [Calls -> {"none", "asked", "approve", "reject"}]
  /\ stage \in [Calls -> {"idle", "issued", "recorded", "executed", "stopped"}]
  /\ events \in Nat /\ clock \in Nat /\ began \in Nat /\ ack \in Nat

\* Times are of the past, and a call that only its sub-run's record knows is not in
\* the log.
TimeInv ==
  /\ ack <= clock /\ began <= clock
  /\ \A c \in Calls : intent[c] <= clock /\ ext[c] <= clock
LogInv ==
  \A c \in Calls :
    /\ resp[c] # "none" => intent[c] # 0
    /\ confirm[c] # "none" => intent[c] # 0 /\ c \in Gated
    /\ resp[c] = "placeholder" => c \in Gated
    /\ c = lastUser => intent[c] # 0 /\ c \in Gated
    /\ stage[c] = "issued" => Parent[c] = None /\ (c \notin Gated => resp[c] = "none")
    /\ stage[c] # "idle" /\ Parent[c] = None => intent[c] # 0
    /\ intent[c] # 0 => Parent[c] = None
    /\ ext[c] # 0 => Parent[c] # None /\ c \in made

\* No call is under way between turns.  A call runs in a turn only if nothing
\* dangled when it began; an issued call with a completion on record is in the
\* snapshot.
TurnInv ==
  /\ turn = "none" => stage = Idle
  /\ \A c \in Calls :
       /\ stage[c] \in {"recorded", "executed", "stopped"} /\ Class[c] # "readonly" => dangling = {}
       /\ stage[c] = "issued" /\ resp[c] = "done" /\ Class[c] = "mutating" => c \in completions
       /\ stage[c] = "recorded" => Parent[c] # None
       /\ stage[c] = "stopped" => Parent[c] = None
       /\ stage[c] \in {"executed", "stopped"} /\ Class[c] = "spawning" => c \in Unpaired

\* What dangled and the watermark covers, an operator has seen; so has what dangled
\* when a turn began that found nothing to refuse.
AckInv ==
  /\ \A d \in Open : When(d) <= ack => d \in seen
  /\ turn # "none" /\ dangling = {} => \A d \in Open : When(d) <= began => d \in seen

\* A root call that ran is in the log; a sub-run's is on the ops row until its
\* response was observed.
RanInv ==
  \A c \in Calls :
    /\ Parent[c] = None /\ effects[c] > 0 => intent[c] # 0
    /\ Parent[c] # None /\ (effects[c] > 0 \/ stage[c] \in {"recorded", "executed"}) =>
         c \in made /\ (ext[c] # 0 \/ c \in settled)
    /\ Parent[c] # None /\ stage[c] \in {"recorded", "executed"} => ext[c] # 0

\* While no event was appended since the scan, the log is the one scanned; the
\* calls to repair are in it.  Once the attempt is counted nothing dangles.
ScanInv ==
  /\ boot \in {"scanned", "counted"} =>
       /\ cand.events \in Nat /\ cand.events <= events
       /\ \A c \in cand.repairable : c \in Calls => intent[c] # 0 /\ Class[c] = "readonly"
       /\ events = cand.events => cand.mutating = Unpaired \cap Effectful
  /\ boot = "counted" /\ events = cand.events => Open = {}

\* A window sees an attempt more only below the limit.
Pending == IF boot = "counted" THEN 1 ELSE 0
WindowInv ==
  /\ attempts \in Nat /\ autoRuns \in Nat /\ recent \in BOOLEAN
  /\ ~recent => autoRuns = 0
  /\ recent => /\ autoRuns + Pending <= MaxAttempts
               /\ attempts < MaxAttempts => autoRuns + Pending <= attempts

IInv == Types /\ TimeInv /\ LogInv /\ TurnInv /\ AckInv /\ RanInv /\ ScanInv

-----------------------------------------------------------------------------
LEMMA InitIInv == ASSUME CallTree, Init PROVE IInv
  BY DEF Init, IInv, Types, TimeInv, LogInv, TurnInv, AckInv, RanInv, ScanInv, Zero, Idle, Unpaired, External,
     Open, CallTree

\* An event appended since the scan: the log is no longer the one scanned.
LEMMA Outdated ==
  ASSUME Types, ScanInv, events' = events + 1, \A c \in Calls : intent[c] # 0 => intent'[c] # 0,
         (boot' = boot /\ cand' = cand) \/ boot' \notin {"scanned", "counted"}
  PROVE  ScanInv'
  BY DEF Types, ScanInv

LEMMA NextIInv == ASSUME CallTree, IInv, [Next]_vars PROVE IInv'
  <1> USE DEF log, ops, snapshot, bootvars, sub, hist
  <1>1. ASSUME FreshTurn PROVE IInv'
    <2>1. Types'
      BY <1>1 DEF FreshTurn, StartTurn, Append, IInv, Types
    <2>2. TimeInv'
      BY <1>1 DEF FreshTurn, StartTurn, Append, IInv, Types, TimeInv
    <2>3. LogInv'
      BY <1>1 DEF FreshTurn, IInv, LogInv, CallTree
    <2>4. TurnInv'
      BY Zenon, <1>1 DEF FreshTurn, StartTurn, IInv, TurnInv, Idle
    <2>5. AckInv'
      BY <1>1 DEF FreshTurn, StartTurn, IInv, Types, AckInv, Open, When, Unpaired, External, Unacked
    <2>6. RanInv'
      BY Zenon, <1>1 DEF FreshTurn, IInv, RanInv
    <2>7. ScanInv'
      BY Zenon, <1>1, Outdated DEF FreshTurn, Append, IInv
    <2> QED
      BY Zenon, <2>1, <2>2, <2>3, <2>4, <2>5, <2>6, <2>7 DEF IInv
  <1>2. ASSUME NEW c \in Calls, NEW v \in {"approve", "reject"}, ConfirmTurn(c, v) PROVE IInv'
    <2>1. Types'
      BY <1>2 DEF ConfirmTurn, StartTurn, Append, IInv, Types
    <2>2. TimeInv'
      BY <1>2 DEF ConfirmTurn, StartTurn, Append, IInv, Types, TimeInv
    <2>3. LogInv'
      BY <1>2 DEF ConfirmTurn, IInv, LogInv
    <2>4. TurnInv'
      BY Zenon, <1>2 DEF ConfirmTurn, StartTurn, IInv, TurnInv, Idle, Completed
    <2>5. AckInv'
      BY <1>2 DEF ConfirmTurn, StartTurn, IInv, Types, AckInv, Open, When, Unpaired, External, Unacked
    <2>6. RanInv'
      BY <1>2 DEF ConfirmTurn, IInv, RanInv
    <2>7. ScanInv'
      BY <1>2, Outdated DEF ConfirmTurn, Append, IInv
    <2> QED
      BY Zenon, <2>1, <2>2, <2>3, <2>4, <2>5, <2>6, <2>7 DEF IInv
  <1>3. ASSUME AckEffects PROVE IInv'
    <2>1. Types'
      BY <1>3 DEF AckEffects, IInv, Types
    <2>2. TimeInv'
      BY <1>3 DEF AckEffects, IInv, Types, TimeInv
    <2>3. LogInv'
      BY Zenon, <1>3 DEF AckEffects, IInv, LogInv
    <2>4. TurnInv'
      BY <1>3 DEF AckEffects, IInv, TurnInv, Idle
    <2>5. AckInv'
      BY Zenon, <1>3 DEF AckEffects, IInv, AckInv, TurnInv, Open, Unpaired, External, Idle
    <2>6. RanInv'
      BY Zenon, <1>3 DEF AckEffects, IInv, RanInv
    <2>7. ScanInv'
      BY Zenon, <1>3 DEF AckEffects, IInv, ScanInv, Open, Unpaired, External
    <2> QED
      BY Zenon, <2>1, <2>2, <2>3, <2>4, <2>5, <2>6, <2>7 DEF IInv
  <1>4. ASSUME NEW c \in Calls, Issue(c) PROVE IInv'
    <2>1. Types'
      BY <1>4 DEF Issue, Append, IInv, Types
    <2>2. TimeInv'
      BY <1>4 DEF Issue, Append, IInv, Types, TimeInv
    <2>3. LogInv'
      BY <1>4 DEF Issue, IInv, Types, LogInv
    <2>4. TurnInv'
      BY <1>4 DEF Issue, IInv, TurnInv, LogInv, Unpaired
    <2>5. AckInv'
      BY <1>4 DEF Issue, IInv, Types, AckInv, TimeInv, Open, When, Unpaired, External
    <2>6. RanInv'
      BY <1>4 DEF Issue, IInv, RanInv
    <2>7. ScanInv'
      BY <1>4, Outdated DEF Issue, Append, IInv
    <2> QED
      BY Zenon, <2>1, <2>2, <2>3, <2>4, <2>5, <2>6, <2>7 DEF IInv
  <1>5. ASSUME NEW c \in Calls, BeforeToolAnswers(c) PROVE IInv'
    <2>1. Types'
      BY <1>5 DEF BeforeToolAnswers, Respond, Append, IInv, Types
    <2>2. TimeInv'
      BY <1>5 DEF BeforeToolAnswers, Respond, Append, IInv, Types, TimeInv
    <2>3. LogInv'
      BY <1>5 DEF BeforeToolAnswers, Respond, IInv, Types, LogInv
    <2>4. TurnInv'
      BY <1>5 DEF BeforeToolAnswers, Respond, IInv, Types, TurnInv, Idle, Unpaired
    <2>5. AckInv'
      BY <1>5 DEF BeforeToolAnswers, Respond, IInv, AckInv, Open, When, Unpaired, External
    <2>6. RanInv'
      BY <1>5 DEF BeforeToolAnswers, Respond, IInv, RanInv
    <2>7. ScanInv'
      BY Zenon, <1>5, Outdated DEF BeforeToolAnswers, Respond, Append, IInv
    <2> QED
      BY Zenon, <2>1, <2>2, <2>3, <2>4, <2>5, <2>6, <2>7 DEF IInv
  <1>6. ASSUME NEW c \in Calls, GateParks(c) PROVE IInv'
    <2>1. Types'
      BY <1>6 DEF GateParks, Respond, Append, IInv, Types
    <2>2. TimeInv'
      BY <1>6 DEF GateParks, Respond, Append, IInv, Types, TimeInv
    <2>3. LogInv'
      BY <1>6 DEF GateParks, Respond, IInv, LogInv
    <2>4. TurnInv'
      BY <1>6 DEF GateParks, Respond, IInv, TurnInv, Idle, Unpaired
    <2>5. AckInv'
      BY <1>6 DEF GateParks, Respond, IInv, AckInv, Open, When, Unpaired, External
    <2>6. RanInv'
      BY <1>6 DEF GateParks, Respond, IInv, RanInv
    <2>7. ScanInv'
      BY <1>6, Outdated DEF GateParks, Respond, Append, IInv
    <2> QED
      BY Zenon, <2>1, <2>2, <2>3, <2>4, <2>5, <2>6, <2>7 DEF IInv
  <1>7. ASSUME NEW c \in Calls, GateDenies(c) PROVE IInv'
    <2>1. Types'
      BY <1>7 DEF GateDenies, Respond, Append, IInv, Types
    <2>2. TimeInv'
      BY <1>7 DEF GateDenies, Respond, Append, IInv, Types, TimeInv
    <2>3. LogInv'
      BY <1>7 DEF GateDenies, Respond, IInv, LogInv
    <2>4. TurnInv'
      BY <1>7 DEF GateDenies, Respond, IInv, Types, TurnInv, Idle, Unpaired
    <2>5. AckInv'
      BY <1>7 DEF GateDenies, Respond, IInv, AckInv, Open, When, Unpaired, External
    <2>6. RanInv'
      BY <1>7 DEF GateDenies, Respond, IInv, RanInv
    <2>7. ScanInv'
      BY <1>7, Outdated DEF GateDenies, Respond, Append, IInv
    <2> QED
      BY Zenon, <2>1, <2>2, <2>3, <2>4, <2>5, <2>6, <2>7 DEF IInv
  <1>8. ASSUME NEW c \in Calls, Execute(c) PROVE IInv'
    <2>1. Types'
      BY <1>8 DEF Execute, IInv, Types
    <2>2. TimeInv'
      BY Zenon, <1>8 DEF Execute, IInv, TimeInv
    <2>3. LogInv'
      BY <1>8 DEF Execute, IInv, LogInv
    <2>4. TurnInv'
      BY <1>8 DEF Execute, Substituted, IInv, TurnInv, LogInv, Idle, Unpaired, CallTree
    <2>5. AckInv'
      BY Zenon, <1>8 DEF Execute, IInv, AckInv, Open, When, Unpaired, External
    <2>6. RanInv'
      <3>1. \A d \in Calls : d # c => effects'[d] = effects[d] /\ stage'[d] = stage[d]
        BY Zenon, <1>8 DEF Execute, IInv, Types
      <3>2. stage[c] = "issued" /\ UNCHANGED <<intent, ext, made, settled>>
        BY Zenon, <1>8 DEF Execute, log, ops, sub
      <3>3. Parent[c] = None /\ intent[c] # 0
        BY <3>2 DEF IInv, LogInv
      <3> QED
        BY Zenon, <3>1, <3>2, <3>3 DEF IInv, RanInv
    <2>7. ScanInv'
      BY Zenon, <1>8 DEF Execute, IInv, ScanInv, Open, Unpaired, External
    <2> QED
      BY Zenon, <2>1, <2>2, <2>3, <2>4, <2>5, <2>6, <2>7 DEF IInv
  <1>9. ASSUME NEW c \in Calls, ToolReturns(c) PROVE IInv'
    <2>1. Types'
      BY <1>9 DEF ToolReturns, Respond, Append, IInv, Types
    <2>2. TimeInv'
      BY <1>9 DEF ToolReturns, Respond, Append, IInv, Types, TimeInv
    <2>3. LogInv'
      BY <1>9 DEF ToolReturns, Respond, IInv, LogInv
    <2>4. TurnInv'
      BY <1>9 DEF ToolReturns, Respond, IInv, Types, TurnInv, Idle, Unpaired
    <2>5. AckInv'
      BY <1>9 DEF ToolReturns, Respond, IInv, AckInv, Open, When, Unpaired, External
    <2>6. RanInv'
      BY <1>9 DEF ToolReturns, Respond, IInv, RanInv
    <2>7. ScanInv'
      BY <1>9, Outdated DEF ToolReturns, Respond, Append, IInv
    <2> QED
      BY Zenon, <2>1, <2>2, <2>3, <2>4, <2>5, <2>6, <2>7 DEF IInv
  <1>10. ASSUME NEW c \in Calls, SubIntent(c) PROVE IInv'
    <2>1. Types'
      BY <1>10 DEF SubIntent, IInv, Types
    <2>2. TimeInv'
      BY <1>10 DEF SubIntent, IInv, Types, TimeInv
    <2>3. LogInv'
      BY <1>10 DEF SubIntent, IInv, Types, LogInv
    <2>4. TurnInv'
      BY <1>10 DEF SubIntent, IInv, Types, TurnInv, Idle, Unpaired, CallTree
    <2>5. AckInv'
      BY <1>10 DEF SubIntent, IInv, Types, AckInv, TimeInv, Open, When, Unpaired, External
    <2>6. RanInv'
      BY <1>10 DEF SubIntent, IInv, Types, RanInv
    <2>7. ScanInv'
      BY <1>10 DEF SubIntent, IInv, ScanInv, TurnInv, Open, Unpaired, Effectful, CallTree
    <2> QED
      BY Zenon, <2>1, <2>2, <2>3, <2>4, <2>5, <2>6, <2>7 DEF IInv
  <1>11. ASSUME NEW c \in Calls, SubExecute(c) PROVE IInv'
    <2>1. Types'
      BY <1>11 DEF SubExecute, IInv, Types
    <2>2. TimeInv'
      BY <1>11 DEF SubExecute, IInv, TimeInv
    <2>3. LogInv'
      BY <1>11 DEF SubExecute, IInv, LogInv
    <2>4. TurnInv'
      BY <1>11 DEF SubExecute, IInv, TurnInv, Idle, Unpaired, CallTree
    <2>5. AckInv'
      BY <1>11 DEF SubExecute, IInv, AckInv, Open, When, Unpaired, External
    <2>6. RanInv'
      BY <1>11 DEF SubExecute, IInv, RanInv, LogInv
    <2>7. ScanInv'
      BY <1>11 DEF SubExecute, IInv, ScanInv, Open, Unpaired, External
    <2> QED
      BY Zenon, <2>1, <2>2, <2>3, <2>4, <2>5, <2>6, <2>7 DEF IInv
  <1>12. ASSUME NEW c \in Calls, SubComplete(c) PROVE IInv'
    <2>1. Types'
      BY <1>12 DEF SubComplete, IInv, Types
    <2>2. TimeInv'
      BY <1>12 DEF SubComplete, IInv, Types, TimeInv
    <2>3. LogInv'
      <3>1. \A d \in Calls : stage'[d] \in {stage[d], "idle"} /\ ext'[d] \in {ext[d], 0}
        BY <1>12 DEF SubComplete, IInv, Types
      <3>2. UNCHANGED <<intent, resp, confirm, lastUser, made>>
        BY Zenon, <1>12 DEF SubComplete, log
      <3> QED
        BY Zenon, <3>1, <3>2 DEF IInv, LogInv
    <2>4. TurnInv'
      BY <1>12 DEF SubComplete, IInv, TurnInv, Idle, Unpaired
    <2>5. AckInv'
      BY Zenon, <1>12 DEF SubComplete, IInv, Types, AckInv, LogInv, Open, When, Unpaired, External
    <2>6. RanInv'
      BY <1>12 DEF SubComplete, IInv, Types, RanInv
    <2>7. ScanInv'
      BY <1>12 DEF SubComplete, IInv, Types, ScanInv, Open, Unpaired, External
    <2> QED
      BY Zenon, <2>1, <2>2, <2>3, <2>4, <2>5, <2>6, <2>7 DEF IInv
  <1>13. ASSUME TurnEnds PROVE IInv'
    <2>1. Types'
      BY <1>13 DEF TurnEnds, Append, IInv, Types
    <2>2. TimeInv'
      BY <1>13 DEF TurnEnds, Append, IInv, Types, TimeInv
    <2>3. LogInv'
      BY <1>13 DEF TurnEnds, IInv, LogInv
    <2>4. TurnInv'
      BY <1>13 DEF TurnEnds, TurnInv, Idle
    <2>5. AckInv'
      BY <1>13 DEF TurnEnds, IInv, AckInv, Open, When, Unpaired, External
    <2>6. RanInv'
      BY <1>13 DEF TurnEnds, IInv, RanInv
    <2>7. ScanInv'
      BY <1>13, Outdated DEF TurnEnds, Append, IInv
    <2> QED
      BY Zenon, <2>1, <2>2, <2>3, <2>4, <2>5, <2>6, <2>7 DEF IInv
  <1>14. ASSUME Cancel PROVE IInv'
    <2>1. Types'
      BY <1>14 DEF Cancel, CutTurn, IInv, Types, Idle
    <2>2. TimeInv'
      BY <1>14 DEF Cancel, CutTurn, IInv, TimeInv
    <2>3. LogInv'
      BY <1>14 DEF Cancel, CutTurn, IInv, LogInv, Idle
    <2>4. TurnInv'
      BY <1>14 DEF Cancel, CutTurn, TurnInv, Idle
    <2>5. AckInv'
      BY <1>14 DEF Cancel, CutTurn, IInv, AckInv, Open, When, Unpaired, External
    <2>6. RanInv'
      BY <1>14 DEF Cancel, CutTurn, IInv, RanInv, Idle
    <2>7. ScanInv'
      BY <1>14 DEF Cancel, CutTurn, IInv, ScanInv, Open, Unpaired, External
    <2> QED
      BY Zenon, <2>1, <2>2, <2>3, <2>4, <2>5, <2>6, <2>7 DEF IInv
  <1>15. ASSUME ProcessExits PROVE IInv'
    <2>1. Types'
      BY <1>15 DEF ProcessExits, CutTurn, IInv, Types, Idle
    <2>2. TimeInv'
      BY <1>15 DEF ProcessExits, CutTurn, IInv, TimeInv
    <2>3. LogInv'
      BY <1>15 DEF ProcessExits, CutTurn, IInv, LogInv, Idle
    <2>4. TurnInv'
      BY <1>15 DEF ProcessExits, CutTurn, TurnInv, Idle
    <2>5. AckInv'
      BY <1>15 DEF ProcessExits, CutTurn, IInv, AckInv, Open, When, Unpaired, External
    <2>6. RanInv'
      BY <1>15 DEF ProcessExits, CutTurn, IInv, RanInv, Idle
    <2>7. ScanInv'
      BY <1>15 DEF ProcessExits, ScanInv
    <2> QED
      BY Zenon, <2>1, <2>2, <2>3, <2>4, <2>5, <2>6, <2>7 DEF IInv
  <1>16. ASSUME BootScan PROVE IInv'
    <2>1. Types'
      BY Zenon, <1>16 DEF BootScan, IInv, Types
    <2>2. TimeInv'
      BY Zenon, <1>16 DEF BootScan, IInv, TimeInv
    <2>3. LogInv'
      BY Zenon, <1>16 DEF BootScan, IInv, LogInv
    <2>4. TurnInv'
      BY Zenon, <1>16 DEF BootScan, IInv, TurnInv, Unpaired
    <2>5. AckInv'
      BY Zenon, <1>16 DEF BootScan, IInv, AckInv, Open, When, Unpaired, External
    <2>6. RanInv'
      BY <1>16 DEF BootScan, IInv, RanInv
    <2>7. ScanInv'
      <3>1. boot' # "counted" /\ events' = events /\ Unpaired' = Unpaired
        BY Zenon, <1>16 DEF BootScan, Unpaired, log
      <3>2. ASSUME boot' = "scanned"
            PROVE  /\ cand'.events = events /\ cand'.mutating = Unpaired \cap Effectful
                   /\ cand'.repairable = {c \in Unpaired : Class[c] = "readonly"}
        BY <1>16, <3>2 DEF BootScan
      <3>3. events \in Nat /\ events <= events
        BY DEF IInv, Types
      <3>4. \A c \in Unpaired : c \in Calls => intent'[c] # 0
        BY Zenon, <1>16 DEF BootScan, Unpaired, log
      <3>5. Effectful' = Effectful
        BY Zenon DEF Effectful
      <3> QED
        BY Zenon, <3>1, <3>2, <3>3, <3>4, <3>5 DEF ScanInv
    <2> QED
      BY Zenon, <2>1, <2>2, <2>3, <2>4, <2>5, <2>6, <2>7 DEF IInv
  <1>17. ASSUME BootDecide PROVE IInv'
    <2>1. Types'
      BY <1>17 DEF BootDecide, IInv, Types
    <2>2. TimeInv'
      BY <1>17 DEF BootDecide, IInv, TimeInv
    <2>3. LogInv'
      BY Zenon, <1>17 DEF BootDecide, IInv, LogInv
    <2>4. TurnInv'
      BY <1>17 DEF BootDecide, IInv, TurnInv, Unpaired
    <2>5. AckInv'
      BY <1>17 DEF BootDecide, IInv, AckInv, Open, When, Unpaired, External
    <2>6. RanInv'
      BY <1>17 DEF BootDecide, IInv, RanInv
    <2>7. ScanInv'
      BY Zenon, <1>17 DEF BootDecide, Skipped, IInv, ScanInv, Open, Unpaired, External
    <2> QED
      BY Zenon, <2>1, <2>2, <2>3, <2>4, <2>5, <2>6, <2>7 DEF IInv
  <1>18. ASSUME BootSuperseded PROVE IInv'
    <2>1. Types'
      BY <1>18 DEF BootSuperseded, IInv, Types
    <2>2. TimeInv'
      BY <1>18 DEF BootSuperseded, IInv, TimeInv
    <2>3. LogInv'
      BY Zenon, <1>18 DEF BootSuperseded, IInv, LogInv
    <2>4. TurnInv'
      BY <1>18 DEF BootSuperseded, IInv, TurnInv, Idle
    <2>5. AckInv'
      BY <1>18 DEF BootSuperseded, IInv, AckInv, Open, When, Unpaired, External
    <2>6. RanInv'
      BY <1>18 DEF BootSuperseded, IInv, RanInv
    <2>7. ScanInv'
      BY <1>18 DEF BootSuperseded, ScanInv
    <2> QED
      BY Zenon, <2>1, <2>2, <2>3, <2>4, <2>5, <2>6, <2>7 DEF IInv
  <1>19. ASSUME BootDrive PROVE IInv'
    <2>1. /\ turn = "none" /\ stage = Idle /\ boot = "counted" /\ events = cand.events
          /\ dangling' = Unacked /\ completions' = Completed /\ began' = clock /\ boot' = "driving" /\ turn' = "auto"
          /\ UNCHANGED <<intent, confirm, ext, made, effects, settled, ack, seen>>
      BY Zenon, <1>19 DEF BootDrive, StartTurn, Superseded, IInv, TurnInv
    <2>2. /\ resp' \in [Calls -> {"none", "placeholder", "done"}]
          /\ \A d \in Calls : resp'[d] = resp[d] \/ (resp'[d] = "done" /\ intent[d] # 0 /\ Class[d] = "readonly")
      BY <1>19 DEF BootDrive, IInv, Types, ScanInv
    <2>3. /\ stage' \in [Calls -> {"idle", "issued"}]
          /\ \A d \in Calls : stage'[d] # "idle" => d = lastUser /\ resp' = resp
      BY <1>19, <2>1 DEF BootDrive, Idle
    <2>4. lastUser' \in {lastUser, None}
      BY Zenon, <1>19 DEF BootDrive
    <2>5. events' \in Nat /\ clock' \in Nat /\ clock' >= clock
      BY <1>19 DEF BootDrive, Append, IInv, Types
    <2>6. Types'
      BY <2>1, <2>2, <2>3, <2>5 DEF IInv, Types
    <2>7. TimeInv'
      BY <2>1, <2>5 DEF IInv, Types, TimeInv
    <2>8. LogInv'
      BY <2>1, <2>2, <2>3, <2>4 DEF IInv, LogInv, CallTree
    <2>9. TurnInv'
      BY <2>1, <2>3 DEF TurnInv, Completed
    <2>10. \A d \in Open' : d \in Open /\ When(d)' = When(d)
      BY <2>1, <2>2 DEF Open, When, Unpaired, External
    <2>11. AckInv'
      BY Zenon, <2>1, <2>10 DEF IInv, AckInv, ScanInv
    <2>12. RanInv'
      BY Zenon, <2>1, <2>3 DEF IInv, RanInv
    <2>13. ScanInv'
      BY Zenon, <2>1 DEF ScanInv
    <2> QED
      BY Zenon, <2>6, <2>7, <2>8, <2>9, <2>11, <2>12, <2>13 DEF IInv
  <1>20. ASSUME BootClears PROVE IInv'
    <2>1. Types'
      BY <1>20 DEF BootClears, IInv, Types
    <2>2. TimeInv'
      BY <1>20 DEF BootClears, IInv, TimeInv
    <2>3. LogInv'
      BY Zenon, <1>20 DEF BootClears, IInv, LogInv
    <2>4. TurnInv'
      BY <1>20 DEF BootClears, IInv, TurnInv, Unpaired
    <2>5. AckInv'
      BY <1>20 DEF BootClears, IInv, AckInv, Open, When, Unpaired, External
    <2>6. RanInv'
      BY <1>20 DEF BootClears, IInv, RanInv
    <2>7. ScanInv'
      BY <1>20 DEF BootClears, ScanInv
    <2> QED
      BY Zenon, <2>1, <2>2, <2>3, <2>4, <2>5, <2>6, <2>7 DEF IInv
  <1>21. ASSUME WindowPasses PROVE IInv'
    <2>1. Types'
      BY <1>21 DEF WindowPasses, IInv, Types
    <2>2. TimeInv'
      BY <1>21 DEF WindowPasses, IInv, TimeInv
    <2>3. LogInv'
      BY Zenon, <1>21 DEF WindowPasses, IInv, LogInv
    <2>4. TurnInv'
      BY <1>21 DEF WindowPasses, IInv, TurnInv, Unpaired
    <2>5. AckInv'
      BY <1>21 DEF WindowPasses, IInv, AckInv, Open, When, Unpaired, External
    <2>6. RanInv'
      BY <1>21 DEF WindowPasses, IInv, RanInv
    <2>7. ScanInv'
      BY <1>21 DEF WindowPasses, IInv, ScanInv, Open, Unpaired, External
    <2> QED
      BY Zenon, <2>1, <2>2, <2>3, <2>4, <2>5, <2>6, <2>7 DEF IInv
  <1>22. ASSUME UNCHANGED vars PROVE IInv'
    <2>1. Types' /\ TimeInv'
      BY Zenon, <1>22 DEF vars, log, ops, hist, snapshot, sub, bootvars, IInv, Types, TimeInv
    <2>2. LogInv' /\ RanInv'
      BY Zenon, <1>22 DEF vars, log, ops, hist, sub, IInv, LogInv, RanInv
    <2>3. TurnInv'
      BY Zenon, <1>22 DEF vars, log, snapshot, IInv, TurnInv, Unpaired
    <2>4. AckInv'
      BY Zenon, <1>22 DEF vars, log, ops, hist, snapshot, IInv, AckInv, Open, When, Unpaired, External
    <2>5. ScanInv'
      BY Zenon, <1>22 DEF vars, log, ops, bootvars, IInv, ScanInv, Open, Unpaired, External
    <2> QED
      BY Zenon, <2>1, <2>2, <2>3, <2>4, <2>5 DEF IInv
  <1> QED
    BY Zenon, <1>1, <1>2, <1>3, <1>4, <1>5, <1>6, <1>7, <1>8, <1>9, <1>10, <1>11, <1>12, <1>13, <1>14, <1>15,
       <1>16, <1>17, <1>18, <1>19, <1>20, <1>21, <1>22 DEF Next, Serve, BootPass

-----------------------------------------------------------------------------
\* A window's attempts, whatever the rest of the session does.
LEMMA NextWindowInv ==
  ASSUME MaxAttempts \in Nat \ {0}, WindowInv, [Next]_vars
  PROVE  WindowInv'
  <1>1. CASE BootDecide
    <2>1. boot = "scanned" /\ autoRuns' = autoRuns
      BY Zenon, <1>1 DEF BootDecide, hist
    <2>2. CASE boot' = "done" /\ UNCHANGED <<attempts, recent>>
      BY <2>1, <2>2 DEF WindowInv, Pending
    <2>3. CASE ~LoopBroken /\ boot' = "counted" /\ attempts' = attempts + 1 /\ recent' = TRUE
      BY <2>1, <2>3 DEF LoopBroken, WindowInv, Pending
    <2> QED
      BY Zenon, <1>1, <2>2, <2>3 DEF BootDecide
  <1>2. CASE BootDrive
    BY <1>2 DEF BootDrive, ops, WindowInv, Pending
  <1>3. CASE UNCHANGED <<attempts, recent, autoRuns>> /\ (boot' = boot \/ boot' # "counted")
    BY <1>3 DEF WindowInv, Pending
  <1>4. CASE BootClears \/ WindowPasses
    <2>1. CASE UNCHANGED <<attempts, recent, autoRuns>> /\ boot' = "done"
      BY Zenon, <1>3, <2>1
    <2>2. CASE recent' = FALSE /\ autoRuns' = 0 /\ attempts' \in {attempts, 0}
      <3>1. attempts' \in Nat /\ autoRuns' \in Nat
        BY <2>2 DEF WindowInv
      <3> QED
        BY Zenon, <2>2, <3>1 DEF WindowInv
    <2> QED
      BY Zenon, <1>4, <2>1, <2>2 DEF BootClears, WindowPasses
  <1>5. CASE Serve \/ ProcessExits \/ BootScan \/ BootSuperseded \/ UNCHANGED vars
    <2> DEFINE Kept == UNCHANGED <<attempts, recent, autoRuns>> /\ (boot' = boot \/ boot' # "counted")
    <2>1. ASSUME FreshTurn \/ AckEffects \/ TurnEnds \/ Cancel PROVE Kept
      BY Zenon, <2>1 DEF FreshTurn, AckEffects, TurnEnds, Cancel, CutTurn, ops, hist, bootvars
    <2>2. ASSUME NEW c \in Calls, NEW verdict, ConfirmTurn(c, verdict) PROVE Kept
      BY Zenon, <2>2 DEF ConfirmTurn, ops, hist, bootvars
    <2>3. ASSUME NEW c \in Calls, Issue(c) \/ BeforeToolAnswers(c) \/ GateParks(c) \/ GateDenies(c) PROVE Kept
      BY Zenon, <2>3 DEF Issue, Respond, BeforeToolAnswers, GateParks, GateDenies, ops, hist, bootvars
    <2>4. ASSUME NEW c \in Calls, Execute(c) \/ ToolReturns(c) PROVE Kept
      BY Zenon, <2>4 DEF Execute, ToolReturns, Respond, ops, hist, bootvars
    <2>5. ASSUME NEW c \in Calls, SubIntent(c) \/ SubExecute(c) \/ SubComplete(c) PROVE Kept
      BY Zenon, <2>5 DEF SubIntent, SubExecute, SubComplete, ops, hist, bootvars
    <2>6. ASSUME ProcessExits \/ BootScan \/ BootSuperseded \/ UNCHANGED vars PROVE Kept
      BY Zenon, <2>6 DEF ProcessExits, CutTurn, BootScan, BootSuperseded, vars, ops, hist, bootvars
    <2> HIDE DEF Kept
    <2>7. Kept
      BY Zenon, <1>5, <2>1, <2>2, <2>3, <2>4, <2>5, <2>6 DEF Serve
    <2> QED
      BY Zenon, <1>3, <2>7 DEF Kept
  <1> QED
    BY Zenon, <1>1, <1>2, <1>4, <1>5 DEF Next, BootPass

\* A tool runs in the root's loop or inside a dispatch, and nowhere else.
LEMMA RunsFrom ==
  ASSUME IInv, [Next]_vars, NEW c \in Calls, Runs(c)
  PROVE  Execute(c) \/ SubExecute(c)
  <1>1. effects'[c] # effects[c]
    BY DEF Runs, IInv, Types
  <1>2. PICK d \in Calls : Execute(d) \/ SubExecute(d)
    BY ZenonT(60), <1>1 DEF Next, Serve, BootPass, ProcessExits, WindowPasses, vars, FreshTurn, ConfirmTurn,
       AckEffects,
       Issue, Respond, BeforeToolAnswers, GateParks, GateDenies, ToolReturns, SubIntent, SubComplete, TurnEnds,
       CutTurn, Cancel, BootScan, BootDecide, BootSuperseded, BootDrive, BootClears
  <1>3. effects' = [effects EXCEPT ![d] = @ + 1]
    BY Zenon, <1>2 DEF Execute, SubExecute
  <1>4. d = c
    BY Zenon, <1>1, <1>3 DEF IInv, Types
  <1> QED
    BY Zenon, <1>2, <1>4

\* What a mutation's turn has behind it when the mutation runs.
LEMMA RunsOnlyClear ==
  ASSUME IInv, [Next]_vars, NEW c \in Calls, Runs(c)
  PROVE  /\ turn # "none" /\ dangling = {}
         /\ resp[c] # "done"
  <1>1. Class[c] = "mutating" /\ stage[c] # "idle"
    BY Zenon, RunsFrom DEF Runs, Execute, SubExecute
  <1>2. turn # "none"
    BY Zenon, <1>1 DEF IInv, TurnInv, Idle
  <1>3. CASE Execute(c)
    BY Zenon, <1>1, <1>2, <1>3 DEF Execute, Substituted, IInv, TurnInv
  <1>4. CASE SubExecute(c)
    BY Zenon, <1>1, <1>2, <1>4 DEF SubExecute, IInv, TurnInv, LogInv
  <1> QED
    BY Zenon, <1>3, <1>4, RunsFrom

LEMMA OutboxInvariant == ASSUME CallTree PROVE Spec => []IInv
  BY InitIInv, NextIInv, PTL DEF Spec

-----------------------------------------------------------------------------
\* beforeRun and beforeTool: a mutation, the root's or a specialist's inside a
\* dispatch, runs only if an operator has acknowledged every mutating or spawning
\* call an earlier turn left without an outcome, whatever was cancelled or crashed.
THEOREM AmbiguityIsBlocked ==
  ASSUME CallTree
  PROVE  Spec => AmbiguityBlocks
  <1>1. IInv /\ [Next]_vars => [BlockedByAmbiguity]_vars
    BY Zenon, RunsOnlyClear DEF BlockedByAmbiguity, IInv, AckInv
  <1> QED
    BY <1>1, OutboxInvariant, PTL DEF Spec, AmbiguityBlocks

\* beforeTool: a mutation whose completion is on record never runs again, also
\* when a verdict or the boot pass has the call dispatched once more.
THEOREM CompletionReplayed ==
  ASSUME CallTree
  PROVE  Spec => CompletedNeverReruns
  <1>1. IInv /\ [Next]_vars => [RunsUnlessDone]_vars
    BY Zenon, RunsOnlyClear DEF RunsUnlessDone
  <1> QED
    BY <1>1, OutboxInvariant, PTL DEF Spec, CompletedNeverReruns

\* Between turns a mutation that ran unconfirmed has an outcome on record or
\* dangles, and so is replayed or refused (the log, and SubRunRecorder's row).
THEOREM NothingUnaccounted ==
  ASSUME CallTree
  PROVE  Spec => []MutationAccounted
  <1>1. IInv => MutationAccounted
    <2> SUFFICES ASSUME IInv, NEW c \in Calls \ Gated, Class[c] = "mutating", turn = "none", effects[c] > 0,
                        resp[c] # "done", c \notin settled
                 PROVE  c \in Open
      BY Zenon DEF MutationAccounted, Accounted
    <2>1. CASE Parent[c] = None
      <3>1. intent[c] # 0 /\ resp[c] = "none"
        BY Zenon, <2>1 DEF IInv, Types, LogInv, RanInv
      <3> QED
        BY Zenon, <3>1 DEF Open, Unpaired, Effectful
    <2>2. CASE Parent[c] # None
      BY Zenon, <2>2 DEF IInv, RanInv, Open, External
    <2> QED
      BY Zenon, <2>1, <2>2
  <1> QED
    BY <1>1, OutboxInvariant, PTL

\* resumeOne: auto-resume starts a turn only where nothing mutating dangles; the
\* count of events, read with the buckets and compared under the turn slot, stands
\* for the log they were read from.
THEOREM AutoResumesClean ==
  ASSUME CallTree
  PROVE  Spec => AutoOverCleanLog
  <1>1. IInv /\ [Next]_vars => [AutoStartsClean]_vars
    <2> SUFFICES ASSUME IInv, Next, turn = "none", turn' = "auto"
                 PROVE  Open = {}
      BY Zenon DEF AutoStartsClean, vars
    <2>1. BootDrive
      BY ZenonT(60) DEF Next, Serve, BootPass, ProcessExits, WindowPasses, StartTurn, FreshTurn, ConfirmTurn,
         AckEffects, Issue, Respond, BeforeToolAnswers, GateParks, GateDenies, Execute, ToolReturns, SubIntent,
         SubExecute, SubComplete, TurnEnds, CutTurn, Cancel, BootScan, BootDecide, BootSuperseded, BootClears
    <2> QED
      BY Zenon, <2>1 DEF BootDrive, Superseded, IInv, ScanInv
  <1> QED
    BY <1>1, OutboxInvariant, PTL DEF Spec, AutoOverCleanLog

\* The restart-loop breaker: the attempts stamped within one window drive at most
\* MaxAttempts turns before one succeeds (IncrAutoResumeAttempts before the turn).
THEOREM RestartLoopBroken ==
  ASSUME MaxAttempts \in Nat \ {0}
  PROVE  Spec => []AutoBounded
  <1>1. Init => WindowInv
    <2>1. 0 \in Nat
      OBVIOUS
    <2> QED
      BY Zenon, <2>1 DEF Init, WindowInv
  <1>2. WindowInv => AutoBounded
    BY DEF WindowInv, Pending, AutoBounded
  <1> QED
    BY <1>1, <1>2, NextWindowInv, PTL DEF Spec
===============================================================================
