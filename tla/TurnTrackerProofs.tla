-------------------------- MODULE TurnTrackerProofs ---------------------------
(***************************************************************************)
(* What TurnTracker guarantees for any number of sessions and turns.  The  *)
(* slot of a session and writeMu each name one holder (SlotInv,            *)
(* WriterInv); with them a session has at most one turn in its bracket     *)
(* (ActiveInv) and a mark in progress cannot be overtaken by a clear       *)
(* (DiskInv).  Only the boot pass writes a marker outside writeMu, so the  *)
(* results about the disk assume that no boot turn exists.  What a drain   *)
(* leaves on disk comes second.                                            *)
(***************************************************************************)
EXTENDS TurnTracker, TLAPS

Holding == {"locked", "starting", "running", "clear", "clearwrite", "clearflip", "unlock"}
Writing(a) ==
  \/ mk[a] \in {"write", "pause", "flip"}
  \/ a \in Turns /\ pc[a] \in {"clearwrite", "clearflip"}

\* The turn between lock and release is the one the session's slot names.
SlotInv ==
  \A s \in Sessions, t \in Turns :
    lock[s] = t <=> SessionOf[t] = s /\ pc[t] \in Holding

\* A turn marks only inside begin(); the drain goroutine marks a session.
MarkingInv ==
  /\ \A t \in Turns : mk[t] # "idle" => pc[t] = "starting"
  /\ mk[Drainer] # "idle" => cur \in Sessions
  /\ \A t \in Turns : pc[t] \in {"decide", "bootclear"} => t \in BootTurns

\* The in-flight count is the slot holder's bracket.
ActiveInv ==
  \A s \in Sessions :
    active[s] = IF lock[s] # Nobody /\ Bracketed(lock[s]) THEN 1 ELSE 0

\* writeMu names whoever is between a decision and its bookkeeping.
WriterInv == \A a \in Actors : writeMu = a <=> Writing(a)

\* A mark whose write landed is on disk until its flip, and a session counted
\* as marked is marked on disk except between a clear's write and its flip.
DiskInv ==
  /\ \A a \in Actors : mk[a] \in {"pause", "flip"} => marker[Target(a)]
  /\ \A s \in Sessions : marked[s] =>
       marker[s] \/ \E t \in Turns : SessionOf[t] = s /\ pc[t] = "clearflip"

IInv == TypeOK /\ SlotInv /\ MarkingInv /\ ActiveInv /\ WriterInv

-----------------------------------------------------------------------------

\* The state the daemon starts in.
LEMMA InitIInv == Init => IInv
  <1> SUFFICES ASSUME Init PROVE IInv
    OBVIOUS
  <1> USE ActorAssumption DEF Init, Actors
  <1>1. TypeOK
    <2>1. /\ \A s \in Sessions : (s \in Known) \in BOOLEAN /\ (s \in Leftover) \in BOOLEAN
          /\ marker = [s \in Sessions |-> s \in Leftover]
          /\ row = [s \in Sessions |-> s \in Known]
      OBVIOUS
    <2>3. marker \in [Sessions -> BOOLEAN] /\ row \in [Sessions -> BOOLEAN]
      BY ONLY <2>1, Zenon
    <2>2. active \in [Sessions -> Nat] /\ candidates \subseteq Sessions
      OBVIOUS
    <2> QED
      BY Zenon, <2>3, <2>2 DEF TypeOK, Phases, MarkSteps, TurnSteps
  <1>2. SlotInv
    BY DEF SlotInv, Holding
  <1>3. MarkingInv
    BY DEF MarkingInv
  <1>4. ActiveInv
    BY Zenon DEF ActiveInv
  <1>5. WriterInv
    BY DEF WriterInv, Writing
  <1> QED
    BY Zenon, <1>1, <1>2, <1>3, <1>4, <1>5 DEF IInv

\* Every step keeps the types, the slots, the counts and the write lock.
LEMMA NextIInv == IInv /\ [Next]_vars => IInv'
  <1> SUFFICES ASSUME IInv, [Next]_vars PROVE IInv'
    OBVIOUS
  <1> USE ActorAssumption DEF Actors, drain, tracker, turn, disk
  <1>1. ASSUME NEW a \in Actors, MarkEnter(a) PROVE IInv'
    <2>1. TypeOK'
      BY <1>1 DEF IInv, TypeOK, Phases, MarkSteps, TurnSteps, MarkEnter, Target
    <2>2. SlotInv'
      BY <1>1 DEF IInv, TypeOK, SlotInv, Holding, MarkEnter, Target
    <2>3. MarkingInv'
      BY Zenon, <1>1 DEF IInv, TypeOK, MarkingInv, BootTurns, MarkEnter, Target
    <2>4. ActiveInv'
      BY Zenon, <1>1 DEF IInv, TypeOK, SlotInv, Holding, ActiveInv, Bracketed, MarkEnter, Target
    <2>5. WriterInv'
      BY Zenon, <1>1 DEF IInv, TypeOK, WriterInv, Writing, MarkingInv, MarkEnter, Target
    <2> QED
      BY <2>1, <2>2, <2>3, <2>4, <2>5 DEF IInv
  <1>2. ASSUME NEW a \in Actors, MarkWrite(a) PROVE IInv'
    <2>1. TypeOK'
      <3>1. Target(a) \in Sessions
        BY Zenon, <1>2 DEF IInv, TypeOK, MarkingInv, Target, MarkWrite
      <3>2. marker' \in [Sessions -> BOOLEAN]
        BY Zenon, <1>2, <3>1 DEF IInv, TypeOK, MarkWrite
      <3>3. mk' \in [Actors -> MarkSteps] /\ writeMu' \in Actors \cup {Nobody} /\ failed' \subseteq Sessions
        BY <1>2, <3>1 DEF IInv, TypeOK, MarkSteps, MarkWrite
      <3> QED
        BY Zenon, <1>2, <3>2, <3>3 DEF IInv, TypeOK, MarkWrite
    <2>2. SlotInv'
      BY <1>2 DEF IInv, TypeOK, SlotInv, Holding, MarkWrite, Target
    <2>3. MarkingInv'
      BY Zenon, <1>2 DEF IInv, TypeOK, MarkingInv, BootTurns, MarkWrite, Target
    <2>4. ActiveInv'
      BY Zenon, <1>2 DEF IInv, TypeOK, SlotInv, Holding, ActiveInv, Bracketed, MarkWrite, Target
    <2>5. WriterInv'
      BY <1>2 DEF IInv, TypeOK, WriterInv, Writing, MarkingInv, MarkWrite, Target
    <2> QED
      BY <2>1, <2>2, <2>3, <2>4, <2>5 DEF IInv
  <1>3. ASSUME NEW a \in Actors, MarkPause(a) PROVE IInv'
    <2>1. TypeOK'
      <3>1. Target(a) \in Sessions
        BY Zenon, <1>3 DEF IInv, TypeOK, MarkingInv, Target, MarkPause
      <3>2. gate' \in [Sessions -> BOOLEAN]
        BY Zenon, <1>3, <3>1 DEF IInv, TypeOK, MarkPause
      <3>3. mk' \in [Actors -> MarkSteps] /\ failed' \subseteq Sessions
        BY Zenon, <1>3, <3>1 DEF IInv, TypeOK, MarkSteps, MarkPause
      <3> QED
        BY <1>3, <3>2, <3>3 DEF IInv, TypeOK, MarkPause
    <2>2. SlotInv'
      BY <1>3 DEF IInv, TypeOK, SlotInv, Holding, MarkPause, Target
    <2>3. MarkingInv'
      BY Zenon, <1>3 DEF IInv, TypeOK, MarkingInv, BootTurns, MarkPause, Target
    <2>4. ActiveInv'
      BY Zenon, <1>3 DEF IInv, TypeOK, SlotInv, Holding, ActiveInv, Bracketed, MarkPause, Target
    <2>5. WriterInv'
      BY Zenon, <1>3 DEF IInv, TypeOK, WriterInv, Writing, MarkingInv, MarkPause, Target
    <2> QED
      BY <2>1, <2>2, <2>3, <2>4, <2>5 DEF IInv
  <1>4. ASSUME NEW a \in Actors, MarkFlip(a) PROVE IInv'
    <2>1. TypeOK'
      BY ZenonT(60), <1>4
         DEF IInv, TypeOK, Phases, MarkSteps, TurnSteps, MarkFlip, Target
    <2>2. SlotInv'
      BY <1>4 DEF IInv, TypeOK, SlotInv, Holding, MarkFlip, Target
    <2>3. MarkingInv'
      BY Zenon, <1>4 DEF IInv, TypeOK, MarkingInv, BootTurns, MarkFlip, Target
    <2>4. ActiveInv'
      BY Zenon, <1>4 DEF IInv, TypeOK, SlotInv, Holding, ActiveInv, Bracketed, MarkFlip, Target
    <2>5. WriterInv'
      BY <1>4 DEF IInv, TypeOK, WriterInv, Writing, MarkingInv, MarkFlip, Target
    <2> QED
      BY Zenon, <2>1, <2>2, <2>3, <2>4, <2>5 DEF IInv
  <1>5. ASSUME NEW t \in Turns, Accept(t) PROVE IInv'
    <2>1. TypeOK'
      BY <1>5 DEF IInv, TypeOK, Phases, MarkSteps, TurnSteps, Accept, Goto
    <2>2. SlotInv'
      BY <1>5 DEF IInv, TypeOK, SlotInv, Holding, Accept, Goto
    <2>3. MarkingInv'
      BY <1>5 DEF IInv, TypeOK, MarkingInv, BootTurns, Accept, Goto
    <2>4. ActiveInv'
      BY <1>5 DEF IInv, TypeOK, SlotInv, Holding, ActiveInv, Bracketed, Accept, Goto
    <2>5. WriterInv'
      BY <1>5 DEF IInv, TypeOK, WriterInv, Writing, MarkingInv, Accept, Goto
    <2> QED
      BY <2>1, <2>2, <2>3, <2>4, <2>5 DEF IInv
  <1>6. ASSUME NEW t \in Turns, BootDecide(t) PROVE IInv'
    <2>1. TypeOK'
      <3>1. marker' \in [Sessions -> BOOLEAN]
        BY Zenon, <1>6 DEF IInv, TypeOK, BootDecide, Goto
      <3>2. pc' \in [Turns -> TurnSteps] /\ lock' = lock
        BY Zenon, <1>6 DEF IInv, TypeOK, TurnSteps, BootDecide, Goto
      <3> QED
        BY <1>6, <3>1, <3>2 DEF IInv, TypeOK, BootDecide
    <2>2. SlotInv'
      BY <1>6 DEF IInv, TypeOK, SlotInv, Holding, BootDecide, Goto
    <2>3. MarkingInv'
      BY <1>6 DEF IInv, TypeOK, MarkingInv, BootTurns, BootDecide, Goto
    <2>4. ActiveInv'
      BY <1>6 DEF IInv, TypeOK, SlotInv, Holding, ActiveInv, Bracketed, BootDecide, Goto
    <2>5. WriterInv'
      BY <1>6 DEF IInv, TypeOK, WriterInv, Writing, MarkingInv, BootDecide, Goto
    <2> QED
      BY <2>1, <2>2, <2>3, <2>4, <2>5 DEF IInv
  <1>7. ASSUME NEW t \in Turns, Lock(t) PROVE IInv'
    <2>1. TypeOK'
      BY <1>7 DEF IInv, TypeOK, Phases, MarkSteps, TurnSteps, Lock, Goto
    <2>2. SlotInv'
      BY <1>7 DEF IInv, TypeOK, SlotInv, Holding, Lock, Goto
    <2>3. MarkingInv'
      BY <1>7 DEF IInv, TypeOK, MarkingInv, BootTurns, Lock, Goto
    <2>4. ActiveInv'
      BY <1>7 DEF IInv, TypeOK, SlotInv, Holding, ActiveInv, Bracketed, Lock, Goto
    <2>5. WriterInv'
      BY <1>7 DEF IInv, TypeOK, WriterInv, Writing, MarkingInv, Lock, Goto
    <2> QED
      BY <2>1, <2>2, <2>3, <2>4, <2>5 DEF IInv
  <1>8. ASSUME NEW t \in Turns, Refuse(t) PROVE IInv'
    <2>1. TypeOK'
      BY <1>8 DEF IInv, TypeOK, Phases, MarkSteps, TurnSteps, Refuse, Goto
    <2>2. SlotInv'
      BY <1>8 DEF IInv, TypeOK, SlotInv, Holding, Refuse, Goto
    <2>3. MarkingInv'
      BY Zenon, <1>8 DEF IInv, TypeOK, MarkingInv, BootTurns, Refuse, Goto
    <2>4. ActiveInv'
      BY <1>8 DEF IInv, TypeOK, SlotInv, Holding, ActiveInv, Bracketed, Refuse, Goto
    <2>5. WriterInv'
      BY Zenon, <1>8 DEF IInv, TypeOK, WriterInv, Writing, MarkingInv, Refuse, Goto
    <2> QED
      BY <2>1, <2>2, <2>3, <2>4, <2>5 DEF IInv
  <1>9. ASSUME NEW t \in Turns, Begin(t) PROVE IInv'
    <2>1. TypeOK'
      BY <1>9 DEF IInv, TypeOK, Phases, MarkSteps, TurnSteps, Begin, Goto
    <2>2. SlotInv'
      BY <1>9 DEF IInv, TypeOK, SlotInv, Holding, Begin, Goto
    <2>3. MarkingInv'
      BY SMTT(60), <1>9 DEF IInv, TypeOK, MarkingInv, BootTurns, Begin, Goto
    <2>4. ActiveInv'
      BY <1>9 DEF IInv, TypeOK, SlotInv, Holding, ActiveInv, Bracketed, Begin, Goto
    <2>5. WriterInv'
      BY Zenon, <1>9 DEF IInv, TypeOK, WriterInv, Writing, MarkingInv, Begin, Goto
    <2> QED
      BY Zenon, <2>1, <2>2, <2>3, <2>4, <2>5 DEF IInv
  <1>10. ASSUME NEW t \in Turns, Run(t) PROVE IInv'
    <2>1. TypeOK'
      BY <1>10 DEF IInv, TypeOK, Phases, MarkSteps, TurnSteps, Run, Goto
    <2>2. SlotInv'
      BY <1>10 DEF IInv, TypeOK, SlotInv, Holding, Run, Goto
    <2>3. MarkingInv'
      BY Zenon, <1>10 DEF IInv, TypeOK, MarkingInv, BootTurns, Run, Goto
    <2>4. ActiveInv'
      BY <1>10 DEF IInv, TypeOK, SlotInv, Holding, ActiveInv, Bracketed, Run, Goto
    <2>5. WriterInv'
      BY Zenon, <1>10 DEF IInv, TypeOK, WriterInv, Writing, MarkingInv, Run, Goto
    <2> QED
      BY Zenon, <2>1, <2>2, <2>3, <2>4, <2>5 DEF IInv
  <1>11. ASSUME NEW t \in Turns, End(t) PROVE IInv'
    <2>1. TypeOK'
      <3>1. active[SessionOf[t]] = 1
        BY <1>11 DEF IInv, TypeOK, SlotInv, Holding, ActiveInv, Bracketed, End
      <3>2. active' \in [Sessions -> Nat]
        BY <1>11, <3>1 DEF IInv, TypeOK, End
      <3>3. ok' \in [Turns -> BOOLEAN]
        <4>1. ok' = ok \/ \E u \in Turns : ok' = [ok EXCEPT ![u] = TRUE]
          BY Zenon, <1>11 DEF End
        <4> QED
          BY Zenon, <4>1 DEF IInv, TypeOK
      <3>4. pc' \in [Turns -> TurnSteps]
        BY Zenon, <1>11 DEF IInv, TypeOK, TurnSteps, End, Goto
      <3> QED
        BY ZenonT(60), <1>11, <3>2, <3>3, <3>4 DEF IInv, TypeOK, End
    <2>2. SlotInv'
      BY <1>11 DEF IInv, TypeOK, SlotInv, Holding, End, Goto
    <2>3. MarkingInv'
      BY Zenon, <1>11 DEF IInv, TypeOK, MarkingInv, BootTurns, End, Goto
    <2>4. ActiveInv'
      BY <1>11 DEF IInv, TypeOK, SlotInv, Holding, ActiveInv, Bracketed, End, Goto
    <2>5. WriterInv'
      BY Zenon, <1>11 DEF IInv, TypeOK, WriterInv, Writing, MarkingInv, End, Goto
    <2> QED
      BY Zenon, <2>1, <2>2, <2>3, <2>4, <2>5 DEF IInv
  <1>12. ASSUME NEW t \in Turns, ClearEnter(t) PROVE IInv'
    <2>1. TypeOK'
      BY <1>12 DEF IInv, TypeOK, Phases, MarkSteps, TurnSteps, ClearEnter, Goto
    <2>2. SlotInv'
      BY <1>12 DEF IInv, TypeOK, SlotInv, Holding, ClearEnter, Goto
    <2>3. MarkingInv'
      BY ZenonT(60), <1>12 DEF IInv, TypeOK, MarkingInv, BootTurns, ClearEnter, Goto
    <2>4. ActiveInv'
      BY <1>12 DEF IInv, TypeOK, SlotInv, Holding, ActiveInv, Bracketed, ClearEnter, Goto
    <2>5. WriterInv'
      BY ZenonT(60), <1>12
         DEF IInv, TypeOK, WriterInv, Writing, MarkingInv, ClearEnter, Goto
    <2> QED
      BY Zenon, <2>1, <2>2, <2>3, <2>4, <2>5 DEF IInv
  <1>13. ASSUME NEW t \in Turns, ClearWrite(t) PROVE IInv'
    <2>1. TypeOK'
      <3>1. marker' \in [Sessions -> BOOLEAN]
        BY Zenon, <1>13 DEF IInv, TypeOK, ClearWrite, Goto
      <3>2. pc' \in [Turns -> TurnSteps] /\ writeMu' \in Actors \cup {Nobody} /\ failed' \subseteq Sessions
        BY <1>13 DEF IInv, TypeOK, TurnSteps, ClearWrite, Goto
      <3> QED
        BY Zenon, <1>13, <3>1, <3>2 DEF IInv, TypeOK, ClearWrite
    <2>2. SlotInv'
      BY <1>13 DEF IInv, TypeOK, SlotInv, Holding, ClearWrite, Goto
    <2>3. MarkingInv'
      BY ZenonT(60), <1>13 DEF IInv, TypeOK, MarkingInv, BootTurns, ClearWrite, Goto
    <2>4. ActiveInv'
      BY <1>13 DEF IInv, TypeOK, SlotInv, Holding, ActiveInv, Bracketed, ClearWrite, Goto
    <2>5. WriterInv'
      BY <1>13 DEF IInv, TypeOK, WriterInv, Writing, MarkingInv, ClearWrite, Goto
    <2> QED
      BY Zenon, <2>1, <2>2, <2>3, <2>4, <2>5 DEF IInv
  <1>14. ASSUME NEW t \in Turns, ClearFlip(t) PROVE IInv'
    <2>1. TypeOK'
      BY ZenonT(60), <1>14 DEF IInv, TypeOK, Phases, MarkSteps, TurnSteps, ClearFlip, Goto
    <2>2. SlotInv'
      BY <1>14 DEF IInv, TypeOK, SlotInv, Holding, ClearFlip, Goto
    <2>3. MarkingInv'
      BY Zenon, <1>14 DEF IInv, TypeOK, MarkingInv, BootTurns, ClearFlip, Goto
    <2>4. ActiveInv'
      BY <1>14 DEF IInv, TypeOK, SlotInv, Holding, ActiveInv, Bracketed, ClearFlip, Goto
    <2>5. WriterInv'
      BY <1>14 DEF IInv, TypeOK, WriterInv, Writing, MarkingInv, ClearFlip, Goto
    <2> QED
      BY Zenon, <2>1, <2>2, <2>3, <2>4, <2>5 DEF IInv
  <1>15. ASSUME NEW t \in Turns, Unlock(t) PROVE IInv'
    <2>1. TypeOK'
      BY <1>15 DEF IInv, TypeOK, Phases, MarkSteps, TurnSteps, Unlock, Goto
    <2>2. SlotInv'
      BY <1>15 DEF IInv, TypeOK, SlotInv, Holding, Unlock, Goto
    <2>3. MarkingInv'
      BY ZenonT(60), <1>15 DEF IInv, TypeOK, MarkingInv, BootTurns, Unlock, Goto
    <2>4. ActiveInv'
      BY <1>15 DEF IInv, TypeOK, SlotInv, Holding, ActiveInv, Bracketed, Unlock, Goto
    <2>5. WriterInv'
      BY Zenon, <1>15 DEF IInv, TypeOK, WriterInv, Writing, MarkingInv, Unlock, Goto
    <2> QED
      BY Zenon, <2>1, <2>2, <2>3, <2>4, <2>5 DEF IInv
  <1>16. ASSUME NEW t \in Turns, BootClear(t) PROVE IInv'
    <2>1. TypeOK'
      <3>1. marker' \in [Sessions -> BOOLEAN]
        BY Zenon, <1>16 DEF IInv, TypeOK, BootClear, Goto
      <3>2. pc' \in [Turns -> TurnSteps] /\ failed' \subseteq Sessions
        BY ZenonT(60), <1>16 DEF IInv, TypeOK, TurnSteps, BootClear, Goto
      <3> QED
        BY ZenonT(60), <1>16, <3>1, <3>2 DEF IInv, TypeOK, BootClear
    <2>2. SlotInv'
      BY <1>16 DEF IInv, TypeOK, SlotInv, Holding, BootClear, Goto
    <2>3. MarkingInv'
      BY Zenon, <1>16 DEF IInv, TypeOK, MarkingInv, BootTurns, BootClear, Goto
    <2>4. ActiveInv'
      BY <1>16 DEF IInv, TypeOK, SlotInv, Holding, ActiveInv, Bracketed, BootClear, Goto
    <2>5. WriterInv'
      BY Zenon, <1>16 DEF IInv, TypeOK, WriterInv, Writing, MarkingInv, BootClear, Goto
    <2> QED
      BY Zenon, <2>1, <2>2, <2>3, <2>4, <2>5 DEF IInv
  <1>17. CASE BeginDrain
    <2>1. TypeOK'
      BY Zenon, <1>17 DEF IInv, TypeOK, Phases, MarkSteps, TurnSteps, BeginDrain
    <2>2. SlotInv'
      BY <1>17 DEF IInv, TypeOK, SlotInv, Holding, BeginDrain
    <2>3. MarkingInv'
      BY Zenon, <1>17 DEF IInv, TypeOK, MarkingInv, BootTurns, BeginDrain
    <2>4. ActiveInv'
      BY Zenon, <1>17 DEF IInv, TypeOK, SlotInv, Holding, ActiveInv, Bracketed, BeginDrain
    <2>5. WriterInv'
      BY Zenon, <1>17 DEF IInv, TypeOK, WriterInv, Writing, MarkingInv, BeginDrain
    <2> QED
      BY Zenon, <2>1, <2>2, <2>3, <2>4, <2>5 DEF IInv
  <1>18. CASE PremarkNext
    <2>1. TypeOK'
      BY <1>18 DEF IInv, TypeOK, Phases, MarkSteps, TurnSteps, PremarkNext
    <2>2. SlotInv'
      BY <1>18 DEF IInv, TypeOK, SlotInv, Holding, PremarkNext
    <2>3. MarkingInv'
      BY <1>18 DEF IInv, TypeOK, MarkingInv, BootTurns, PremarkNext
    <2>4. ActiveInv'
      BY Zenon, <1>18 DEF IInv, TypeOK, SlotInv, Holding, ActiveInv, Bracketed, PremarkNext
    <2>5. WriterInv'
      BY Zenon, <1>18 DEF IInv, TypeOK, WriterInv, Writing, MarkingInv, PremarkNext
    <2> QED
      BY Zenon, <2>1, <2>2, <2>3, <2>4, <2>5 DEF IInv
  <1>19. CASE Freeze
    <2>1. TypeOK'
      BY <1>19 DEF IInv, TypeOK, Phases, MarkSteps, TurnSteps, Freeze
    <2>2. SlotInv'
      BY Zenon, <1>19 DEF IInv, TypeOK, SlotInv, Holding, Freeze
    <2>3. MarkingInv'
      BY Zenon, <1>19 DEF IInv, TypeOK, MarkingInv, BootTurns, Freeze
    <2>4. ActiveInv'
      BY Zenon, <1>19 DEF IInv, TypeOK, SlotInv, Holding, ActiveInv, Bracketed, Freeze
    <2>5. WriterInv'
      BY Zenon, <1>19 DEF IInv, TypeOK, WriterInv, Writing, MarkingInv, Freeze
    <2> QED
      BY <2>1, <2>2, <2>3, <2>4, <2>5 DEF IInv
  <1>20. CASE CancelTurns
    <2>1. TypeOK'
      BY <1>20 DEF IInv, TypeOK, Phases, MarkSteps, TurnSteps, CancelTurns
    <2>2. SlotInv'
      BY Zenon, <1>20 DEF IInv, TypeOK, SlotInv, Holding, CancelTurns
    <2>3. MarkingInv'
      BY Zenon, <1>20 DEF IInv, TypeOK, MarkingInv, BootTurns, CancelTurns
    <2>4. ActiveInv'
      BY Zenon, <1>20 DEF IInv, TypeOK, SlotInv, Holding, ActiveInv, Bracketed, CancelTurns
    <2>5. WriterInv'
      BY Zenon, <1>20 DEF IInv, TypeOK, WriterInv, Writing, MarkingInv, CancelTurns
    <2> QED
      BY <2>1, <2>2, <2>3, <2>4, <2>5 DEF IInv
  <1>21. CASE PremarkDone \/ HandlersDone \/ WaitClean \/ WaitExpired \/ GraceOver \/ Deadline
    <2>1. /\ phase' \in Phases /\ deadline' \in BOOLEAN
          /\ UNCHANGED <<tracker, writeMu, mk, turn, candidates, disk>>
      BY Zenon, <1>21 DEF IInv, TypeOK, Phases, PremarkDone, HandlersDone, WaitClean, WaitExpired,
                   GraceOver, Deadline
    <2>2. TypeOK'
      BY Zenon, <2>1 DEF IInv, TypeOK
    <2>3. SlotInv' /\ MarkingInv'
      BY Zenon, <2>1 DEF IInv, SlotInv, MarkingInv
    <2>4. ActiveInv' /\ WriterInv'
      BY Zenon, <2>1 DEF IInv, ActiveInv, Bracketed, WriterInv, Writing
    <2> QED
      BY Zenon, <2>2, <2>3, <2>4 DEF IInv
  <1>22. CASE UNCHANGED vars
    <2>1. TypeOK'
      BY <1>22 DEF IInv, TypeOK, Phases, MarkSteps, TurnSteps, vars
    <2>2. SlotInv'
      BY Zenon, <1>22 DEF IInv, TypeOK, SlotInv, Holding, vars
    <2>3. MarkingInv'
      BY Zenon, <1>22 DEF IInv, TypeOK, MarkingInv, BootTurns, vars
    <2>4. ActiveInv'
      BY Zenon, <1>22 DEF IInv, TypeOK, SlotInv, Holding, ActiveInv, Bracketed, vars
    <2>5. WriterInv'
      BY Zenon, <1>22 DEF IInv, TypeOK, WriterInv, Writing, MarkingInv, vars
    <2> QED
      BY Zenon, <2>1, <2>2, <2>3, <2>4, <2>5 DEF IInv
  <1> QED
    BY Zenon, <1>1, <1>2, <1>3, <1>4, <1>5, <1>6, <1>7, <1>8, <1>9, <1>10, <1>11, <1>12,
       <1>13, <1>14, <1>15, <1>16, <1>17, <1>18, <1>19, <1>20, <1>21, <1>22
       DEF Next, Drain, Mark, Turn

\* Every reachable state has the types the code's declarations give it; the
\* in-flight count never goes negative although end() decrements blindly.
THEOREM TypeCorrect == Spec => []TypeOK
  <1>1. Spec => []IInv
    BY InitIInv, NextIInv, PTL DEF Spec
  <1>2. IInv => TypeOK
    BY Zenon DEF IInv
  <1> QED
    BY <1>1, <1>2, PTL

\* A step that leaves markers and marks alone, neither ends a clear nor moves a
\* mark past its write, keeps DiskInv.
DiskQuiet ==
  /\ marker' = marker /\ marked' = marked /\ cur' = cur
  /\ \A u \in Turns : pc[u] = "clearflip" => pc'[u] = "clearflip"
  /\ \A a \in Actors : mk'[a] \in {"pause", "flip"} => mk[a] \in {"pause", "flip"}

\* Steps that leave marks and markers alone keep the disk honest.
LEMMA DiskFrame ==
  ASSUME DiskInv, DiskQuiet
  PROVE  DiskInv'
  <1>1. \A a \in Actors : mk'[a] \in {"pause", "flip"} => marker'[Target(a)']
    BY Zenon DEF DiskInv, DiskQuiet, Target
  <1>2. ASSUME NEW s \in Sessions, marked'[s], ~marker'[s]
        PROVE  \E u \in Turns : SessionOf[u] = s /\ pc'[u] = "clearflip"
    <2>1. PICK u \in Turns : SessionOf[u] = s /\ pc[u] = "clearflip"
      BY Zenon, <1>2 DEF DiskInv, DiskQuiet
    <2> QED
      BY Zenon, <2>1 DEF DiskQuiet
  <1> QED
    BY Zenon, <1>1, <1>2 DEF DiskInv

\* Without a boot turn no step parts a recorded mark from its disk marker.
LEMMA NextDiskInv ==
  ASSUME BootTurns = {}, IInv, IInv', DiskInv, [Next]_vars
  PROVE  DiskInv'
  <1> USE ActorAssumption DEF Actors, drain, tracker, turn, disk
  <1>0. \A t \in Turns : pc[t] \notin {"decide", "bootclear"}
    BY Zenon DEF IInv, MarkingInv
  <1>t. \A a \in Actors : mk[a] # "idle" => Target(a) \in Sessions
    BY Zenon DEF IInv, TypeOK, MarkingInv, Target
  <1>1. ASSUME NEW a \in Actors, MarkEnter(a) PROVE DiskInv'
    <2>1. DiskQuiet
      BY Zenon, <1>1 DEF IInv, TypeOK, DiskQuiet, MarkEnter
    <2> QED
      BY Zenon, <2>1, DiskFrame
  <1>2. ASSUME NEW a \in Actors, MarkWrite(a) PROVE DiskInv'
    <2>1. \A b \in Actors \ {a} : ~Writing(b)
      BY Zenon, <1>2 DEF IInv, WriterInv, Writing, MarkWrite
    <2>2. /\ marked' = marked /\ cur' = cur /\ pc' = pc
          /\ \A s \in Sessions : marker[s] => marker'[s]
      <3>1. marked' = marked /\ cur' = cur /\ pc' = pc
        BY Zenon, <1>2 DEF MarkWrite
      <3>2. marker' = marker \/ marker' = [marker EXCEPT ![Target(a)] = TRUE]
        BY Zenon, <1>2 DEF MarkWrite
      <3>3. \A s \in Sessions : marker[s] => marker'[s]
        BY ZenonT(60), <3>2 DEF IInv, TypeOK
      <3> QED
        BY Zenon, <3>1, <3>3
    <2>3. /\ \A b \in Actors \ {a} : mk'[b] = mk[b]
          /\ mk'[a] \in {"pause", "flip"} => marker'[Target(a)]
      BY ZenonT(60), <1>2, <1>t DEF IInv, TypeOK, MarkWrite
    <2>4. \A b \in Actors : mk'[b] \in {"pause", "flip"} => marker'[Target(b)']
      BY Zenon, <2>1, <2>2, <2>3 DEF Writing, Target
    <2> QED
      BY Zenon, <2>2, <2>4 DEF DiskInv
  <1>3. ASSUME NEW a \in Actors, MarkPause(a) PROVE DiskInv'
    <2>1. DiskQuiet
      BY Zenon, <1>3 DEF IInv, TypeOK, DiskQuiet, MarkPause
    <2> QED
      BY Zenon, <2>1, DiskFrame
  <1>4. ASSUME NEW a \in Actors, MarkFlip(a) PROVE DiskInv'
    <2>1. /\ marker' = marker /\ cur' = cur /\ pc' = pc /\ marker[Target(a)]
          /\ \A s \in Sessions : marked'[s] => marked[s] \/ s = Target(a)
      BY ZenonT(60), <1>4, <1>t DEF IInv, TypeOK, DiskInv, MarkFlip
    <2>2. \A b \in Actors : mk'[b] \in {"pause", "flip"} => mk[b] \in {"pause", "flip"}
      BY Zenon, <1>4 DEF IInv, TypeOK, MarkFlip
    <2> QED
      BY ZenonT(60), <2>1, <2>2 DEF DiskInv, Target
  <1>5. ASSUME NEW t \in Turns, Accept(t) PROVE DiskInv'
    <2>1. DiskQuiet
      BY ZenonT(60), <1>5 DEF IInv, TypeOK, DiskQuiet, Accept, Goto
    <2> QED
      BY Zenon, <2>1, DiskFrame
  <1>6. ASSUME NEW t \in Turns, Lock(t) PROVE DiskInv'
    <2>1. DiskQuiet
      BY ZenonT(60), <1>6 DEF IInv, TypeOK, DiskQuiet, Lock, Goto
    <2> QED
      BY Zenon, <2>1, DiskFrame
  <1>7. ASSUME NEW t \in Turns, Refuse(t) PROVE DiskInv'
    <2>1. DiskQuiet
      BY ZenonT(60), <1>7 DEF IInv, TypeOK, DiskQuiet, Refuse, Goto
    <2> QED
      BY Zenon, <2>1, DiskFrame
  <1>8. ASSUME NEW t \in Turns, Begin(t) PROVE DiskInv'
    <2>1. DiskQuiet
      BY ZenonT(60), <1>8 DEF IInv, TypeOK, DiskQuiet, Begin, Goto
    <2> QED
      BY Zenon, <2>1, DiskFrame
  <1>9. ASSUME NEW t \in Turns, Run(t) PROVE DiskInv'
    <2>1. DiskQuiet
      BY ZenonT(60), <1>9 DEF IInv, TypeOK, DiskQuiet, Run, Goto
    <2> QED
      BY Zenon, <2>1, DiskFrame
  <1>10. ASSUME NEW t \in Turns, End(t) PROVE DiskInv'
    <2>1. DiskQuiet
      BY ZenonT(60), <1>10 DEF IInv, TypeOK, DiskQuiet, End, Goto
    <2> QED
      BY Zenon, <2>1, DiskFrame
  <1>11. ASSUME NEW t \in Turns, ClearEnter(t) PROVE DiskInv'
    <2>1. DiskQuiet
      BY ZenonT(60), <1>11 DEF IInv, TypeOK, DiskQuiet, ClearEnter, Goto
    <2> QED
      BY Zenon, <2>1, DiskFrame
  <1>12. ASSUME NEW t \in Turns, ClearWrite(t) PROVE DiskInv'
    <2>1. \A b \in Actors \ {t} : ~Writing(b)
      BY Zenon, <1>12 DEF IInv, WriterInv, Writing, ClearWrite
    <2>2. /\ mk' = mk /\ marked' = marked /\ cur' = cur /\ mk[t] = "idle"
          /\ \A u \in Turns \ {t} : pc'[u] = pc[u]
          /\ pc[t] = "clearwrite"
      BY ZenonT(60), <1>12 DEF IInv, TypeOK, MarkingInv, ClearWrite, Goto
    <2>3. \A b \in Actors : mk'[b] \notin {"pause", "flip"}
      BY Zenon, <2>1, <2>2 DEF Writing
    <2>4. \A s \in Sessions : marker[s] => marker'[s] \/ (s = SessionOf[t] /\ pc'[t] = "clearflip")
      <3>1. \/ marker' = marker
            \/ marker' = [marker EXCEPT ![SessionOf[t]] = FALSE] /\ pc' = [pc EXCEPT ![t] = "clearflip"]
        BY Zenon, <1>12 DEF ClearWrite, Goto
      <3> QED
        BY ZenonT(60), <3>1 DEF IInv, TypeOK
    <2>5. ASSUME NEW s \in Sessions, marked'[s], ~marker'[s]
          PROVE  \E u \in Turns : SessionOf[u] = s /\ pc'[u] = "clearflip"
      <3>1. CASE marker[s]
        BY Zenon, <2>4, <2>5, <3>1
      <3>2. CASE ~marker[s]
        <4>1. PICK u \in Turns : SessionOf[u] = s /\ pc[u] = "clearflip"
          BY Zenon, <2>2, <2>5, <3>2 DEF DiskInv
        <4> QED
          BY Zenon, <2>2, <4>1
      <3> QED
        BY Zenon, <3>1, <3>2
    <2> QED
      BY Zenon, <2>3, <2>5 DEF DiskInv
  <1>13. ASSUME NEW t \in Turns, ClearFlip(t) PROVE DiskInv'
    <2>1. /\ mk' = mk /\ marker' = marker /\ cur' = cur /\ ~marked'[SessionOf[t]]
          /\ \A s \in Sessions : marked'[s] => marked[s]
          /\ \A u \in Turns \ {t} : pc'[u] = pc[u]
      BY ZenonT(60), <1>13 DEF IInv, TypeOK, ClearFlip, Goto
    <2>2. ASSUME NEW s \in Sessions, marked'[s], ~marker'[s]
          PROVE  \E u \in Turns : SessionOf[u] = s /\ pc'[u] = "clearflip"
      <3>1. PICK u \in Turns : SessionOf[u] = s /\ pc[u] = "clearflip"
        BY Zenon, <2>1, <2>2 DEF DiskInv
      <3> QED
        BY Zenon, <2>1, <2>2, <3>1
    <2>3. \A b \in Actors : mk'[b] \in {"pause", "flip"} => marker'[Target(b)']
      BY Zenon, <2>1 DEF DiskInv, Target
    <2> QED
      BY Zenon, <2>2, <2>3 DEF DiskInv
  <1>14. ASSUME NEW t \in Turns, Unlock(t) PROVE DiskInv'
    <2>1. DiskQuiet
      BY ZenonT(60), <1>14 DEF IInv, TypeOK, DiskQuiet, Unlock, Goto
    <2> QED
      BY Zenon, <2>1, DiskFrame
  <1>15. ASSUME NEW t \in Turns, BootDecide(t) \/ BootClear(t) PROVE DiskInv'
    BY Zenon, <1>15, <1>0 DEF BootDecide, BootClear
  <1>16. CASE Drain \/ Deadline
    <2>1. CASE BeginDrain
      BY Zenon, <2>1 DEF IInv, TypeOK, DiskInv, Target, BeginDrain
    <2>2. CASE PremarkNext
      BY Zenon, <2>2
         DEF IInv, TypeOK, DiskInv, Target, PremarkNext
    <2>3. CASE PremarkDone
      BY Zenon, <2>3 DEF IInv, TypeOK, DiskInv, Target, PremarkDone
    <2>4. CASE HandlersDone
      BY Zenon, <2>4 DEF IInv, TypeOK, DiskInv, Target, HandlersDone
    <2>5. CASE WaitClean
      BY Zenon, <2>5 DEF IInv, TypeOK, DiskInv, Target, WaitClean
    <2>6. CASE WaitExpired
      BY Zenon, <2>6 DEF IInv, TypeOK, DiskInv, Target, WaitExpired
    <2>7. CASE Freeze
      BY Zenon, <2>7 DEF IInv, TypeOK, DiskInv, Target, Freeze
    <2>8. CASE CancelTurns
      BY Zenon, <2>8 DEF IInv, TypeOK, DiskInv, Target, CancelTurns
    <2>9. CASE GraceOver
      BY Zenon, <2>9 DEF IInv, TypeOK, DiskInv, Target, GraceOver
    <2>10. CASE Deadline
      BY Zenon, <2>10 DEF IInv, TypeOK, DiskInv, Target, Deadline
    <2> QED
      BY Zenon, <1>16, <2>1, <2>2, <2>3, <2>4, <2>5, <2>6, <2>7, <2>8, <2>9,
         <2>10
         DEF Drain
  <1>17. CASE UNCHANGED vars
    BY Zenon, <1>17 DEF IInv, TypeOK, DiskInv, Target, vars
  <1> QED
    BY Zenon, <1>1, <1>2, <1>3, <1>4, <1>5, <1>6, <1>7, <1>8, <1>9, <1>10, <1>11, <1>12,
       <1>13,
       <1>14, <1>15, <1>16, <1>17
       DEF Next, Mark, Turn

\* Nothing is marked before the drain.
LEMMA InitDiskInv == Init => DiskInv
  BY Zenon, ActorAssumption DEF Init, DiskInv, Actors

\* Both invariants hold together.
LEMMA DiskInvHolds ==
  ASSUME BootTurns = {}
  PROVE  Spec => [](IInv /\ DiskInv)
  <1>1. IInv /\ DiskInv /\ [Next]_vars => (IInv /\ DiskInv)'
    BY NextIInv, NextDiskInv
  <1> QED
    BY <1>1, InitIInv, InitDiskInv, PTL DEF Spec

\* survivors() tells the truth: a session with a turn in flight that the
\* tracker counts as marked carries the marker on disk, for any number of
\* sessions and turns, whichever writes fail, unless the boot pass clears
\* behind the tracker's back.
THEOREM SurvivorsTruthful ==
  ASSUME BootTurns = {}
  PROVE  Spec => []SurvivorsMarkedOnDisk
  <1>1. IInv /\ DiskInv => SurvivorsMarkedOnDisk
    <2> SUFFICES ASSUME IInv, DiskInv, NEW s \in Sessions, active[s] > 0, marked[s]
                 PROVE  marker[s]
      BY Zenon DEF SurvivorsMarkedOnDisk
    <2>1. lock[s] \in Turns /\ Bracketed(lock[s])
      BY SMTT(60) DEF IInv, TypeOK, ActiveInv
    <2>2. \A t \in Turns : SessionOf[t] = s => pc[t] # "clearflip"
      BY Zenon, <2>1 DEF IInv, SlotInv, Holding, Bracketed
    <2> QED
      BY Zenon, <2>2 DEF DiskInv
  <1> QED
    BY <1>1, DiskInvHolds, PTL

\* clear() belongs to the turn that just ended: without a boot turn no step
\* takes the marker of a session that has a turn in flight.
THEOREM ClearsOnlyIdle ==
  ASSUME BootTurns = {}
  PROVE  Spec => NoClearUnderATurn
  <1>1. IInv /\ [Next]_vars =>
          [\A s \in Sessions : marker[s] /\ ~marker'[s] => active[s] = 0]_vars
    <2> SUFFICES ASSUME IInv, Next, NEW s \in Sessions, marker[s], ~marker'[s]
                 PROVE  active[s] = 0
      BY Zenon DEF vars, disk
    <2> USE DEF drain, tracker, turn, disk
    <2>1. ~ \E a \in Actors : Mark(a)
      BY ZenonT(60) DEF IInv, TypeOK, Mark, MarkEnter, MarkWrite, MarkPause, MarkFlip
    <2>2. ~ (Drain \/ Deadline)
      BY Zenon
         DEF Drain, BeginDrain, PremarkNext, PremarkDone, HandlersDone, WaitClean,
         WaitExpired, Freeze, CancelTurns, GraceOver, Deadline
    <2>3. PICK t \in Turns : Turn(t)
      BY Zenon, <2>1, <2>2 DEF Next
    <2>4. SessionOf[t] = s /\ pc[t] = "clearwrite"
      BY Zenon, <2>3, ActorAssumption
         DEF IInv, TypeOK, MarkingInv, Turn, Accept, BootDecide, Lock,
         Refuse, Begin, Run, End, ClearEnter, ClearWrite, ClearFlip, Unlock, BootClear
    <2> QED
      BY ZenonT(60), <2>4, ActorAssumption DEF IInv, SlotInv, Holding, ActiveInv, Bracketed
  <1> QED
    BY <1>1, DiskInvHolds, PTL DEF Spec, NoClearUnderATurn

-----------------------------------------------------------------------------
(***************************************************************************)
(* What a drain leaves on disk, for any number of sessions and turns.      *)
(* Once a drain has begun, a turn in its bracket is marked or about to be, *)
(* and a marker this process wrote is owed a clear by the turn that holds  *)
(* the slot (DrainInv).                                                    *)
(***************************************************************************)

\* The phases of a drain.  The tracker freezes only after the window has
\* elapsed, nothing is marked before the drain, and the pre-mark pass is over
\* when the drain goroutine waits.
PhaseInv ==
  /\ draining <=> phase # "serving"
  /\ frozen => deadline
  /\ phase \in {"freeze", "cancel", "grace", "exit3"} => deadline
  /\ phase # "premark" => mk[Drainer] = "idle"
  /\ phase \notin {"serving", "premark"} => toMark = {} \/ deadline
  /\ ~draining => (\A a \in Actors : mk[a] = "idle") /\ (\A s \in Sessions : ~marked[s])

\* A turn in its bracket is marked on disk, or somebody is about to mark it.
Covered(t) ==
  \/ marker[SessionOf[t]] \/ SessionOf[t] \in toMark
  \/ mk[Drainer] \in {"want", "write"} /\ cur = SessionOf[t]
  \/ mk[t] \in {"want", "write"}
PremarkInv ==
  \A t \in Turns :
    draining /\ ~deadline /\ Bracketed(t) /\ SessionOf[t] \notin failed => Covered(t)

\* A mark under way is for a session whose slot is held by a turn that has yet
\* to look at the mark when it ends.
WillLook(s) == lock[s] \in Turns /\ pc[lock[s]] \in {"starting", "running", "clear"}
HeldInv ==
  ~deadline =>
    \A a \in Actors : mk[a] \in {"write", "pause", "flip"} => WillLook(Target(a))

\* A marker this process wrote is still owed a clear by the turn in the slot,
\* which will find it recorded.
ToClear(s) == WillLook(s) \/ (lock[s] \in Turns /\ pc[lock[s]] = "clearwrite")
Recorded(s) ==
  marked[s] \/ (writeMu \in Actors /\ Target(writeMu) = s /\ mk[writeMu] \in {"pause", "flip"})
OwedInv ==
  ~deadline =>
    \A s \in Sessions : marker[s] /\ s \notin Leftover \cup failed => ToClear(s) /\ Recorded(s)

\* A known session is paused before its mark is recorded.
PauseInv ==
  /\ \A s \in Known : row[s]
  /\ pauseOnDrain => \A a \in Actors : mk[a] = "flip" /\ Target(a) \in Known =>
                       gate[Target(a)] \/ Target(a) \in failed
  /\ KnownPausedWithMark

DrainInv == PhaseInv /\ PremarkInv /\ HeldInv /\ OwedInv /\ PauseInv

\* A step that moves no mark, opens no bracket and takes no turn out of a slot
\* before it has looked keeps what the marks promise.
MarksAlone == UNCHANGED <<marker, marked, failed, deadline, draining, toMark, cur, mk, writeMu>>

\* Steps that leave the marks alone and widen no bracket keep the drain invariant.
LEMMA QuietDrain ==
  ASSUME DrainInv, MarksAlone, PhaseInv',
         \A a \in Actors : mk[a] # "idle" => Target(a) \in Sessions,
         \A s \in Sessions : ToClear(s) => ToClear(s)' /\ (WillLook(s) => WillLook(s)'),
         \A u \in Turns : Bracketed(u)' => Bracketed(u),
         \A s \in Sessions : row[s] => row'[s], UNCHANGED <<pauseOnDrain, gate>>
  PROVE  DrainInv'
  <1>1. PremarkInv'
    BY Zenon DEF DrainInv, PremarkInv, Covered, MarksAlone
  <1>2. ASSUME ~deadline, NEW a \in Actors, mk[a] \in {"write", "pause", "flip"}
        PROVE  WillLook(Target(a))'
    <2>1. WillLook(Target(a)) /\ ToClear(Target(a)) /\ Target(a) \in Sessions
      BY Zenon, <1>2 DEF DrainInv, HeldInv, ToClear
    <2>2. \A s \in Sessions : WillLook(s) => WillLook(s)'
      BY Zenon DEF ToClear
    <2>3. Target(a)' = Target(a)
      BY Zenon DEF Target, MarksAlone
    <2> QED
      BY <2>1, <2>2, <2>3
  <1>3. HeldInv'
    BY Zenon, <1>2 DEF HeldInv, MarksAlone
  <1>4. \A s \in Sessions : Recorded(s) => Recorded(s)'
    BY Zenon DEF Recorded, Target, MarksAlone
  <1>5. OwedInv'
    BY Zenon, <1>4 DEF DrainInv, OwedInv, MarksAlone
  <1>6. PauseInv'
    BY Zenon, ActorAssumption
       DEF DrainInv, PauseInv, KnownPausedWithMark, PausedWithMark, Target, MarksAlone
  <1> QED
    BY <1>1, <1>3, <1>5, <1>6 DEF DrainInv

\* Every step of the drain, of a mark and of a turn keeps DrainInv.
LEMMA NextDrainInv ==
  ASSUME BootTurns = {}, IInv, IInv', DiskInv, DrainInv, [Next]_vars
  PROVE  DrainInv'
  <1> USE ActorAssumption DEF Actors, drain, tracker, turn, disk
  <1>0. \A t \in Turns : pc[t] \notin {"decide", "bootclear"}
    BY Zenon DEF IInv, MarkingInv
  <1>t. \A a \in Actors : mk[a] # "idle" => Target(a) \in Sessions
    BY Zenon DEF IInv, TypeOK, MarkingInv, Target
  <1>m. \A a \in Actors : mk[a] \in {"write", "pause", "flip"} => writeMu = a
    BY Zenon DEF IInv, WriterInv, Writing
  <1>1. ASSUME NEW a \in Actors, MarkEnter(a) PROVE DrainInv'
    <2>x. /\ mk[a] = "want" /\ Target(a) \in Sessions
          /\ \/ mk'[a] = "idle" /\ (frozen \/ marked[Target(a)] \/ active[Target(a)] = 0)
             \/ mk'[a] = "write" /\ active[Target(a)] # 0
          /\ \A b \in Actors : b # a => mk'[b] = mk[b]
          /\ UNCHANGED <<deadline, draining, toMark, cur, marked, pc, lock, marker, failed>>
      BY Zenon, <1>1, <1>t DEF MarkEnter, IInv, TypeOK
    <2>y. writeMu = Nobody
      BY Zenon, <1>1 DEF MarkEnter
    <2>1. PhaseInv'
      <3>1. draining /\ UNCHANGED <<phase, frozen>> /\ (phase # "premark" => a # Drainer)
        BY Zenon, <1>1, <2>x DEF MarkEnter, DrainInv, PhaseInv
      <3> QED
        BY Zenon, <2>x, <3>1 DEF DrainInv, PhaseInv
    <2>2. PremarkInv'
      <3> SUFFICES ASSUME draining', ~deadline', NEW u \in Turns, Bracketed(u)',
                          SessionOf[u] \notin failed'
                   PROVE  Covered(u)'
        BY Zenon DEF PremarkInv
      <3>1. lock[SessionOf[u]] = u /\ Bracketed(u) /\ SessionOf[u] \in Sessions
        BY ZenonT(60), <2>x DEF IInv, SlotInv, Holding, Bracketed
      <3>2. active[SessionOf[u]] # 0
        <4>1. active[SessionOf[u]] = 1
          BY Zenon, <3>1 DEF IInv, ActiveInv
        <4> QED
          BY <4>1
      <3>3. ~frozen /\ Covered(u)
        BY Zenon, <2>x, <3>1 DEF DrainInv, PhaseInv, PremarkInv
      <3>4. marked[SessionOf[u]] => marker[SessionOf[u]]
        <4>1. ASSUME NEW v \in Turns, SessionOf[v] = SessionOf[u], pc[v] = "clearflip"
              PROVE  FALSE
          BY <3>1, <4>1 DEF IInv, SlotInv, Holding, Bracketed
        <4> QED
          BY Zenon, <3>1, <4>1 DEF DiskInv
      <3> QED
        BY Zenon, <2>x, <3>2, <3>3, <3>4 DEF Covered, Target
    <2>3. HeldInv'
      <3>1. ASSUME mk'[a] = "write" PROVE WillLook(Target(a))
        BY ZenonT(60), <2>x, <3>1 DEF IInv, TypeOK, ActiveInv, Bracketed, WillLook
      <3> QED
        BY Zenon, <2>x, <3>1 DEF DrainInv, HeldInv, WillLook, Target
    <2>4. OwedInv'
      BY Zenon, <2>x, <2>y DEF DrainInv, OwedInv, WillLook, ToClear, Recorded
    <2>5. PauseInv'
      <3>1. UNCHANGED <<row, pauseOnDrain, gate>>
        BY Zenon, <1>1 DEF MarkEnter
      <3> QED
        BY Zenon, <2>x, <3>1 DEF DrainInv, PauseInv, KnownPausedWithMark, PausedWithMark, Target
    <2> QED
      BY Zenon, <2>1, <2>2, <2>3, <2>4, <2>5 DEF DrainInv
  <1>2. ASSUME NEW a \in Actors, MarkWrite(a) PROVE DrainInv'
    <2>x. /\ mk[a] = "write" /\ Target(a) \in Sessions /\ writeMu = a
          /\ \/ /\ mk'[a] = IF pauseOnDrain THEN "pause" ELSE "flip"
                /\ marker'[Target(a)] /\ \A s \in Sessions : s # Target(a) => marker'[s] = marker[s]
                /\ UNCHANGED <<writeMu, failed>>
             \/ mk'[a] = "idle" /\ failed' = failed \cup {Target(a)} /\ UNCHANGED marker
          /\ \A b \in Actors : b # a => mk'[b] = mk[b]
          /\ UNCHANGED <<deadline, draining, toMark, cur, marked, pc, lock, row, gate, pauseOnDrain>>
      BY <1>2, <1>t, <1>m DEF MarkWrite, IInv, TypeOK
    <2>1. PhaseInv'
      BY Zenon, <1>2 DEF MarkWrite, IInv, TypeOK, DrainInv, PhaseInv
    <2>2. PremarkInv'
      <3> SUFFICES ASSUME draining', ~deadline', NEW u \in Turns, Bracketed(u)',
                          SessionOf[u] \notin failed'
                   PROVE  Covered(u)'
        BY Zenon DEF PremarkInv
      <3>1. SessionOf[u] \in Sessions /\ Covered(u)
        BY Zenon, <2>x DEF DrainInv, PremarkInv, Bracketed
      <3> QED
        BY ZenonT(60), <2>x, <3>1 DEF Covered, Target
    <2>3. HeldInv'
      BY ZenonT(60), <2>x DEF DrainInv, HeldInv, WillLook, Target
    <2>4. OwedInv'
      <3> SUFFICES ASSUME ~deadline', NEW s \in Sessions, marker'[s], s \notin Leftover \cup failed'
                   PROVE  ToClear(s)' /\ Recorded(s)'
        BY Zenon DEF OwedInv
      <3>1. CASE s = Target(a)
        BY Zenon, <2>x, <3>1 DEF DrainInv, HeldInv, ToClear, WillLook, Recorded, Target
      <3>2. CASE s # Target(a)
        <4>1. ToClear(s) /\ Recorded(s)
          BY Zenon, <2>x, <3>2 DEF DrainInv, OwedInv
        <4> QED
          BY Zenon, <2>x, <3>2, <4>1 DEF ToClear, WillLook, Recorded, Target
      <3> QED
        BY Zenon, <3>1, <3>2
    <2>5. PauseInv'
      BY Zenon, <2>x DEF DrainInv, PauseInv, KnownPausedWithMark, PausedWithMark, Target
    <2> QED
      BY Zenon, <2>1, <2>2, <2>3, <2>4, <2>5 DEF DrainInv
  <1>3. ASSUME NEW a \in Actors, MarkPause(a) PROVE DrainInv'
    <2>x. /\ mk[a] = "pause" /\ mk'[a] = "flip" /\ Target(a) \in Sessions /\ writeMu = a
          /\ failed \subseteq failed' /\ \A s \in Sessions : gate[s] => gate'[s]
          /\ row[Target(a)] => gate'[Target(a)] \/ Target(a) \in failed'
          /\ \A b \in Actors : b # a => mk'[b] = mk[b]
          /\ UNCHANGED <<deadline, draining, toMark, cur, marked, marker, writeMu, pc, lock, row, pauseOnDrain>>
      BY <1>3, <1>t, <1>m DEF MarkPause, IInv, TypeOK
    <2>1. PhaseInv'
      BY <1>3 DEF MarkPause, DrainInv, PhaseInv
    <2>2. PremarkInv'
      BY Zenon, <2>x DEF DrainInv, PremarkInv, Bracketed, Covered
    <2>3. HeldInv'
      BY ZenonT(60), <2>x DEF DrainInv, HeldInv, WillLook, Target
    <2>4. OwedInv'
      BY ZenonT(60), <2>x DEF DrainInv, OwedInv, ToClear, WillLook, Recorded, Target
    <2>5. PauseInv'
      BY Zenon, <2>x DEF DrainInv, PauseInv, KnownPausedWithMark, PausedWithMark, Target
    <2> QED
      BY Zenon, <2>1, <2>2, <2>3, <2>4, <2>5 DEF DrainInv
  <1>4. ASSUME NEW a \in Actors, MarkFlip(a) PROVE DrainInv'
    <2>x. /\ mk[a] = "flip" /\ mk'[a] = "idle" /\ Target(a) \in Sessions /\ writeMu = a
          /\ marked'[Target(a)] /\ \A s \in Sessions : s # Target(a) => marked'[s] = marked[s]
          /\ \A b \in Actors : b # a => mk'[b] = mk[b]
          /\ UNCHANGED <<deadline, draining, toMark, cur, marker, failed, pc, lock, row, gate, pauseOnDrain>>
      BY ZenonT(60), <1>4, <1>t, <1>m DEF MarkFlip, IInv, TypeOK
    <2>1. PhaseInv'
      BY <1>4 DEF MarkFlip, DrainInv, PhaseInv
    <2>2. PremarkInv'
      BY ZenonT(60), <2>x DEF DrainInv, PremarkInv, Bracketed, Covered
    <2>3. HeldInv'
      BY ZenonT(60), <2>x DEF DrainInv, HeldInv, WillLook, Target
    <2>4. OwedInv'
      BY ZenonT(60), <2>x DEF DrainInv, OwedInv, ToClear, WillLook, Recorded, Target
    <2>5. PauseInv'
      BY ZenonT(60), <2>x DEF DrainInv, PauseInv, KnownPausedWithMark, PausedWithMark, Target
    <2> QED
      BY Zenon, <2>1, <2>2, <2>3, <2>4, <2>5 DEF DrainInv
  <1>5. ASSUME NEW t \in Turns, Accept(t) PROVE DrainInv'
    <2>x. /\ pc[t] = "new" /\ SessionOf[t] \in Sessions /\ mk[t] = "idle"
          /\ pc'[t] = "queued"
          /\ \A u \in Turns : u # t => pc'[u] = pc[u]
          /\ lock' = lock /\ MarksAlone
      BY ZenonT(60), <1>5 DEF MarksAlone, Accept, IInv, TypeOK, MarkingInv, Goto
    <2>1. PhaseInv'
      BY Zenon, <1>5 DEF Accept, DrainInv, PhaseInv
    <2>2. \A s \in Sessions : ToClear(s) => ToClear(s)' /\ (WillLook(s) => WillLook(s)')
      BY Zenon, <2>x DEF ToClear, WillLook
    <2>3. \A u \in Turns : Bracketed(u)' => Bracketed(u)
      BY Zenon, <2>x DEF Bracketed
    <2>4. UNCHANGED <<row, pauseOnDrain, gate>>
      BY Zenon, <1>5 DEF Accept
    <2> QED
      BY Zenon, <2>x, <2>1, <2>2, <2>3, <2>4, <1>t, QuietDrain
  <1>6. ASSUME NEW t \in Turns, Lock(t) PROVE DrainInv'
    <2>x. /\ pc[t] = "queued" /\ SessionOf[t] \in Sessions /\ mk[t] = "idle"
          /\ pc'[t] \in {"locked", "done"}
          /\ \A s \in Sessions : lock'[s] = lock[s] \/ (lock[s] = Nobody /\ s = SessionOf[t])
          /\ \A u \in Turns : u # t => pc'[u] = pc[u]
          /\ MarksAlone
      BY ZenonT(60), <1>6 DEF MarksAlone, Lock, IInv, TypeOK, MarkingInv, Goto
    <2>1. PhaseInv'
      BY Zenon, <1>6 DEF Lock, DrainInv, PhaseInv
    <2>2. \A s \in Sessions : ToClear(s) => ToClear(s)' /\ (WillLook(s) => WillLook(s)')
      BY Zenon, <2>x DEF ToClear, WillLook
    <2>3. \A u \in Turns : Bracketed(u)' => Bracketed(u)
      BY Zenon, <2>x DEF Bracketed
    <2>4. UNCHANGED <<row, pauseOnDrain, gate>>
      BY Zenon, <1>6 DEF Lock
    <2> QED
      BY Zenon, <2>x, <2>1, <2>2, <2>3, <2>4, <1>t, QuietDrain
  <1>7. ASSUME NEW t \in Turns, Refuse(t) PROVE DrainInv'
    <2>x. /\ pc[t] = "locked" /\ SessionOf[t] \in Sessions /\ mk[t] = "idle" /\ lock[SessionOf[t]] = t
          /\ pc'[t] = "done"
          /\ lock'[SessionOf[t]] = Nobody /\ \A s \in Sessions : s # SessionOf[t] => lock'[s] = lock[s]
          /\ \A u \in Turns : u # t => pc'[u] = pc[u]
          /\ MarksAlone
      BY SMTT(60), <1>7
         DEF MarksAlone, Refuse, IInv, TypeOK, MarkingInv, Goto, SlotInv, Holding
    <2>1. PhaseInv'
      BY Zenon, <1>7 DEF Refuse, DrainInv, PhaseInv
    <2>2. \A s \in Sessions : ToClear(s) => ToClear(s)' /\ (WillLook(s) => WillLook(s)')
      BY ZenonT(60), <2>x DEF ToClear, WillLook
    <2>3. \A u \in Turns : Bracketed(u)' => Bracketed(u)
      BY Zenon, <2>x DEF Bracketed
    <2>4. UNCHANGED <<row, pauseOnDrain, gate>>
      BY Zenon, <1>7 DEF Refuse
    <2> QED
      BY Zenon, <2>x, <2>1, <2>2, <2>3, <2>4, <1>t, QuietDrain
  <1>8. ASSUME NEW t \in Turns, Begin(t) PROVE DrainInv'
    <2>x. /\ pc[t] = "locked" /\ pc'[t] = "starting" /\ SessionOf[t] \in Sessions
          /\ \A u \in Turns : u # t => pc'[u] = pc[u]
          /\ \A a \in Actors : a # t => mk'[a] = mk[a]
          /\ mk[t] = "idle" /\ mk'[t] = IF draining /\ ~frozen /\ ~marked[SessionOf[t]] THEN "want" ELSE "idle"
          /\ UNCHANGED <<lock, marker, marked, failed, deadline, draining, toMark, cur, writeMu>>
      BY ZenonT(60), <1>8 DEF Begin, IInv, TypeOK, MarkingInv, Goto
    <2>1. PhaseInv'
      BY Zenon, <1>8, <1>0, <1>t DEF Begin, IInv, TypeOK, DrainInv, PhaseInv
    <2>2. PremarkInv'
      <3> SUFFICES ASSUME draining', ~deadline', NEW u \in Turns, Bracketed(u)',
                          SessionOf[u] \notin failed'
                   PROVE  Covered(u)'
        BY Zenon DEF PremarkInv
      <3>1. (marked[SessionOf[t]] => marker[SessionOf[t]]) /\ (frozen => deadline)
        <4>1. frozen => deadline
          BY Zenon DEF DrainInv, PhaseInv
        <4>2. lock[SessionOf[t]] = t
          BY Zenon, <2>x DEF IInv, SlotInv, Holding
        <4>3. ASSUME NEW v \in Turns, SessionOf[v] = SessionOf[t], pc[v] = "clearflip"
              PROVE  v = t
          BY Zenon, <2>x, <4>2, <4>3 DEF IInv, SlotInv, Holding
        <4> QED
          BY ZenonT(60), <2>x, <4>1, <4>3 DEF DiskInv
      <3> QED
        BY Zenon, <3>1, <2>x DEF DrainInv, PremarkInv, Covered, Bracketed
    <2>3. HeldInv'
      <3> SUFFICES ASSUME ~deadline', NEW a \in Actors, mk'[a] \in {"write", "pause", "flip"}
                   PROVE  WillLook(Target(a))'
        BY Zenon DEF HeldInv
      <3>2. /\ mk[a] = mk'[a] /\ Target(a)' = Target(a)
            /\ Target(a) \in Sessions /\ WillLook(Target(a))
        BY Zenon, <2>x, <1>t DEF DrainInv, HeldInv, Target
      <3> QED
        BY ZenonT(60), <3>2, <2>x DEF WillLook
    <2>4. OwedInv'
      <3> SUFFICES ASSUME ~deadline', NEW s \in Sessions, marker'[s], s \notin Leftover \cup failed'
                   PROVE  ToClear(s)' /\ Recorded(s)'
        BY Zenon DEF OwedInv
      <3>2. ToClear(s) /\ Recorded(s)
        BY Zenon, <2>x DEF DrainInv, OwedInv
      <3> QED
        BY Zenon, <3>2, <2>x DEF ToClear, WillLook, Recorded, Target
    <2>5. PauseInv'
      BY <1>8 DEF Begin, DrainInv, PauseInv, KnownPausedWithMark, PausedWithMark, Target
    <2> QED
      BY Zenon, <2>1, <2>2, <2>3, <2>4, <2>5 DEF DrainInv
  <1>9. ASSUME NEW t \in Turns, Run(t) PROVE DrainInv'
    <2>x. /\ pc[t] = "starting" /\ pc'[t] = "running" /\ SessionOf[t] \in Sessions /\ mk[t] = "idle"
          /\ \A u \in Turns : u # t => pc'[u] = pc[u]
          /\ lock' = lock /\ MarksAlone
      BY ZenonT(60), <1>9 DEF MarksAlone, Run, IInv, TypeOK, Goto
    <2>1. PhaseInv'
      BY Zenon, <1>9 DEF Run, DrainInv, PhaseInv
    <2>2. \A s \in Sessions : ToClear(s) => ToClear(s)' /\ (WillLook(s) => WillLook(s)')
      BY Zenon, <2>x DEF ToClear, WillLook
    <2>3. \A u \in Turns : Bracketed(u)' => Bracketed(u)
      BY Zenon, <2>x DEF Bracketed
    <2>4. (\A s \in Sessions : row[s] => row'[s]) /\ UNCHANGED <<pauseOnDrain, gate>>
      BY ZenonT(60), <1>9 DEF Run, IInv, TypeOK
    <2> QED
      BY Zenon, <2>x, <2>1, <2>2, <2>3, <2>4, <1>t, QuietDrain
  <1>10. ASSUME NEW t \in Turns, End(t) PROVE DrainInv'
    <2>x. /\ pc[t] = "running" /\ SessionOf[t] \in Sessions /\ mk[t] = "idle"
          /\ pc'[t] = IF draining /\ ~frozen THEN "clear" ELSE "unlock"
          /\ \A u \in Turns : u # t => pc'[u] = pc[u]
          /\ UNCHANGED <<lock, marker, marked, failed, deadline, draining, toMark, cur, writeMu, mk>>
      <3>1. pc[t] = "running" /\ SessionOf[t] \in Sessions /\ mk[t] = "idle"
        BY Zenon, <1>10 DEF End, IInv, TypeOK, MarkingInv
      <3>2. lock[SessionOf[t]] = t
        BY Zenon, <3>1 DEF IInv, SlotInv, Holding
      <3>3. active[SessionOf[t]] = 1
        BY Zenon, <3>1, <3>2 DEF IInv, ActiveInv, Bracketed
      <3>4. active'[SessionOf[t]] = 0
        BY <1>10, <3>1, <3>3 DEF End, IInv, TypeOK
      <3> QED
        BY ZenonT(60), <1>10, <3>1, <3>4 DEF End, IInv, TypeOK, Goto
    <2>1. PhaseInv'
      BY Zenon, <1>10 DEF End, DrainInv, PhaseInv
    <2>2. PremarkInv'
      <3> SUFFICES ASSUME draining', ~deadline', NEW u \in Turns, Bracketed(u)',
                          SessionOf[u] \notin failed'
                   PROVE  Covered(u)'
        BY Zenon DEF PremarkInv
      <3> QED
        BY Zenon, <2>x DEF DrainInv, PremarkInv, Covered, Bracketed
    <2>3. HeldInv'
      <3> SUFFICES ASSUME ~deadline', NEW a \in Actors, mk'[a] \in {"write", "pause", "flip"}
                   PROVE  WillLook(Target(a))'
        BY Zenon DEF HeldInv
      <3>1. (frozen => deadline) /\ draining
        BY Zenon, <2>x DEF DrainInv, PhaseInv
      <3>2. /\ mk[a] = mk'[a] /\ Target(a)' = Target(a)
            /\ Target(a) \in Sessions /\ WillLook(Target(a))
        BY Zenon, <2>x, <1>t DEF DrainInv, HeldInv, Target
      <3> QED
        BY Zenon, <3>1, <3>2, <2>x DEF WillLook
    <2>4. OwedInv'
      <3> SUFFICES ASSUME ~deadline', NEW s \in Sessions, marker'[s], s \notin Leftover \cup failed'
                   PROVE  ToClear(s)' /\ Recorded(s)'
        BY Zenon DEF OwedInv
      <3>1. (frozen => deadline) /\ draining
        BY Zenon, <2>x DEF DrainInv, PhaseInv, OwedInv, Recorded
      <3>2. ToClear(s) /\ Recorded(s)
        BY Zenon, <3>1, <2>x DEF DrainInv, OwedInv
      <3> QED
        BY Zenon, <3>1, <3>2, <2>x DEF ToClear, WillLook, Recorded, Target
    <2>5. PauseInv'
      BY Zenon, <1>10
         DEF End, DrainInv, PauseInv, KnownPausedWithMark, PausedWithMark, Target
    <2> QED
      BY Zenon, <2>1, <2>2, <2>3, <2>4, <2>5 DEF DrainInv
  <1>11. ASSUME NEW t \in Turns, ClearEnter(t) PROVE DrainInv'
    <2>x. /\ pc[t] = "clear" /\ SessionOf[t] \in Sessions /\ mk[t] = "idle" /\ writeMu = Nobody
          /\ pc'[t] = IF ~marked[SessionOf[t]] \/ frozen THEN "unlock" ELSE "clearwrite"
          /\ pc'[t] = "unlock" => writeMu' = Nobody
          /\ pc'[t] = "clearwrite" => writeMu' = t
          /\ \A u \in Turns : u # t => pc'[u] = pc[u]
          /\ UNCHANGED <<lock, marker, marked, failed, deadline, draining, toMark, cur, mk>>
      BY <1>11
         DEF ClearEnter, IInv, TypeOK, MarkingInv, Goto, SlotInv, Holding, ActiveInv,
             Bracketed
    <2>1. PhaseInv'
      BY Zenon, <1>11 DEF ClearEnter, DrainInv, PhaseInv
    <2>2. PremarkInv'
      <3> SUFFICES ASSUME draining', ~deadline', NEW u \in Turns, Bracketed(u)',
                          SessionOf[u] \notin failed'
                   PROVE  Covered(u)'
        BY Zenon DEF PremarkInv
      <3> QED
        BY Zenon, <2>x DEF DrainInv, PremarkInv, Covered, Bracketed
    <2>3. HeldInv'
      <3> SUFFICES ASSUME ~deadline', NEW a \in Actors, mk'[a] \in {"write", "pause", "flip"}
                   PROVE  WillLook(Target(a))'
        BY Zenon DEF HeldInv
      <3>1. mk[a] = "idle"
        BY Zenon, <2>x DEF IInv, WriterInv, Writing
      <3>2. /\ mk[a] = mk'[a] /\ Target(a)' = Target(a)
            /\ Target(a) \in Sessions /\ WillLook(Target(a))
        BY Zenon, <2>x, <1>t DEF DrainInv, HeldInv, Target
      <3> QED
        BY Zenon, <3>1, <3>2, <2>x DEF WillLook
    <2>4. OwedInv'
      <3> SUFFICES ASSUME ~deadline', NEW s \in Sessions, marker'[s], s \notin Leftover \cup failed'
                   PROVE  ToClear(s)' /\ Recorded(s)'
        BY Zenon DEF OwedInv
      <3>1. (lock[s] = t => SessionOf[t] = s) /\ ~frozen /\ writeMu \notin Actors
        BY ZenonT(60), <2>x DEF DrainInv, PhaseInv, IInv, SlotInv
      <3>2. ToClear(s) /\ Recorded(s)
        BY Zenon, <3>1, <2>x DEF DrainInv, OwedInv
      <3> QED
        BY Zenon, <3>1, <3>2, <2>x DEF ToClear, WillLook, Recorded, Target
    <2>5. PauseInv'
      BY Zenon, <1>11
         DEF ClearEnter, DrainInv, PauseInv, KnownPausedWithMark, PausedWithMark, Target
    <2> QED
      BY Zenon, <2>1, <2>2, <2>3, <2>4, <2>5 DEF DrainInv
  <1>12. ASSUME NEW t \in Turns, ClearWrite(t) PROVE DrainInv'
    <2>w. mk[t] = "idle" /\ writeMu = t
      BY Zenon, <1>12 DEF ClearWrite, IInv, MarkingInv, WriterInv, Writing
    <2>x. /\ pc[t] = "clearwrite" /\ SessionOf[t] \in Sessions /\ mk[t] = "idle" /\ writeMu = t
          /\ pc'[t] \in {"clearflip", "unlock"}
          /\ failed' \in {failed, failed \cup {SessionOf[t]}}
          /\ marker'[SessionOf[t]] => SessionOf[t] \in failed'
          /\ \A s \in Sessions : s # SessionOf[t] => marker'[s] = marker[s]
          /\ \A u \in Turns : u # t => pc'[u] = pc[u]
          /\ UNCHANGED <<lock, marked, deadline, draining, toMark, cur, mk>>
      BY ZenonT(60), <2>w, <1>12, <1>0, <1>t DEF ClearWrite, IInv, TypeOK, Goto
    <2>1. PhaseInv'
      BY Zenon, <1>12 DEF ClearWrite, DrainInv, PhaseInv
    <2>2. PremarkInv'
      <3> SUFFICES ASSUME draining', ~deadline', NEW u \in Turns, Bracketed(u)',
                          SessionOf[u] \notin failed'
                   PROVE  Covered(u)'
        BY Zenon DEF PremarkInv
      <3>1. u # t /\ SessionOf[u] # SessionOf[t]
        <4>1. lock[SessionOf[t]] = t
          BY Zenon, <2>x DEF IInv, SlotInv, Holding
        <4>2. u # t /\ pc[u] \in Holding
          BY Zenon, <2>x DEF Bracketed, Holding
        <4> QED
          BY Zenon, <4>1, <4>2 DEF IInv, SlotInv
      <3> QED
        BY Zenon, <3>1, <2>x DEF DrainInv, PremarkInv, Covered, Bracketed
    <2>3. HeldInv'
      <3> SUFFICES ASSUME ~deadline', NEW a \in Actors, mk'[a] \in {"write", "pause", "flip"}
                   PROVE  WillLook(Target(a))'
        BY DEF HeldInv
      <3>2. /\ mk[a] = mk'[a] /\ Target(a)' = Target(a)
            /\ Target(a) \in Sessions /\ WillLook(Target(a))
        BY Zenon, <2>x, <1>t DEF DrainInv, HeldInv, Target
      <3> QED
        BY Zenon, <3>2, <2>x DEF WillLook
    <2>4. OwedInv'
      <3> SUFFICES ASSUME ~deadline', NEW s \in Sessions, marker'[s], s \notin Leftover \cup failed'
                   PROVE  ToClear(s)' /\ Recorded(s)'
        BY Zenon DEF OwedInv
      <3>0. lock[s] = t => SessionOf[t] = s
        BY ZenonT(60) DEF IInv, SlotInv
      <3>1. s # SessionOf[t] /\ (lock[s] = t => SessionOf[t] = s)
        BY Zenon, <2>x, <3>0
      <3>2. ToClear(s) /\ Recorded(s)
        BY Zenon, <3>1, <2>x DEF DrainInv, OwedInv
      <3> QED
        BY Zenon, <3>1, <3>2, <2>x DEF ToClear, WillLook, Recorded, Target
    <2>5. PauseInv'
      BY Zenon, <1>12
         DEF ClearWrite, DrainInv, PauseInv, KnownPausedWithMark, PausedWithMark, Target
    <2> QED
      BY Zenon, <2>1, <2>2, <2>3, <2>4, <2>5 DEF DrainInv
  <1>13. ASSUME NEW t \in Turns, ClearFlip(t) PROVE DrainInv'
    <2>w. mk[t] = "idle" /\ writeMu = t
      BY Zenon, <1>13 DEF ClearFlip, IInv, MarkingInv, WriterInv, Writing
    <2>x. /\ pc[t] = "clearflip" /\ SessionOf[t] \in Sessions /\ mk[t] = "idle" /\ writeMu = t
          /\ pc'[t] = "unlock"
          /\ \A s \in Sessions : s # SessionOf[t] => marked'[s] = marked[s]
          /\ \A u \in Turns : u # t => pc'[u] = pc[u]
          /\ UNCHANGED <<lock, marker, failed, deadline, draining, toMark, cur, mk>>
      BY ZenonT(60), <2>w, <1>13, <1>0, <1>t DEF ClearFlip, IInv, TypeOK, Goto
    <2>1. PhaseInv'
      BY ZenonT(60), <1>13, <1>0, <1>t
         DEF ClearFlip, IInv, TypeOK, DrainInv, PhaseInv
    <2>2. PremarkInv'
      <3> SUFFICES ASSUME draining', ~deadline', NEW u \in Turns, Bracketed(u)',
                          SessionOf[u] \notin failed'
                   PROVE  Covered(u)'
        BY Zenon DEF PremarkInv
      <3> QED
        BY Zenon, <2>x DEF DrainInv, PremarkInv, Covered, Bracketed
    <2>3. HeldInv'
      <3> SUFFICES ASSUME ~deadline', NEW a \in Actors, mk'[a] \in {"write", "pause", "flip"}
                   PROVE  WillLook(Target(a))'
        BY Zenon DEF HeldInv
      <3>2. /\ mk[a] = mk'[a] /\ Target(a)' = Target(a)
            /\ Target(a) \in Sessions /\ WillLook(Target(a))
        BY Zenon, <2>x, <1>t DEF DrainInv, HeldInv, Target
      <3> QED
        BY Zenon, <3>2, <2>x DEF WillLook
    <2>4. OwedInv'
      <3> SUFFICES ASSUME ~deadline', NEW s \in Sessions, marker'[s], s \notin Leftover \cup failed'
                   PROVE  ToClear(s)' /\ Recorded(s)'
        BY Zenon DEF OwedInv
      <3>1. lock[SessionOf[t]] = t
        BY ZenonT(60), <2>x DEF IInv, SlotInv, Holding
      <3>2. ToClear(s) /\ Recorded(s)
        BY Zenon, <2>x DEF DrainInv, OwedInv
      <3>3. s # SessionOf[t] /\ lock[s] # t
        BY Zenon, <2>x, <3>1, <3>2 DEF ToClear, WillLook
      <3> QED
        BY Zenon, <2>x, <3>2, <3>3 DEF ToClear, WillLook, Recorded, Target
    <2>5. PauseInv'
      <3>1. UNCHANGED <<row, gate, pauseOnDrain>> /\ \A s \in Sessions : marked'[s] => marked[s]
        BY <1>13 DEF ClearFlip, IInv, TypeOK
      <3> QED
        BY Zenon, <2>x, <3>1, ActorAssumption
           DEF DrainInv, PauseInv, KnownPausedWithMark, PausedWithMark, Target
    <2> QED
      BY Zenon, <2>1, <2>2, <2>3, <2>4, <2>5 DEF DrainInv
  <1>14. ASSUME NEW t \in Turns, Unlock(t) PROVE DrainInv'
    <2>x. /\ pc[t] = "unlock" /\ SessionOf[t] \in Sessions /\ mk[t] = "idle" /\ lock[SessionOf[t]] = t
          /\ pc'[t] = "done"
          /\ lock'[SessionOf[t]] = Nobody /\ \A s \in Sessions : s # SessionOf[t] => lock'[s] = lock[s]
          /\ \A u \in Turns : u # t => pc'[u] = pc[u]
          /\ MarksAlone
      BY SMTT(60), <1>14
         DEF MarksAlone, Unlock, IInv, TypeOK, MarkingInv, Goto, SlotInv, Holding
    <2>1. PhaseInv'
      BY Zenon, <1>14 DEF Unlock, DrainInv, PhaseInv
    <2>2. \A s \in Sessions : ToClear(s) => ToClear(s)' /\ (WillLook(s) => WillLook(s)')
      BY ZenonT(60), <2>x DEF ToClear, WillLook
    <2>3. \A u \in Turns : Bracketed(u)' => Bracketed(u)
      BY Zenon, <2>x DEF Bracketed
    <2>4. UNCHANGED <<row, pauseOnDrain, gate>>
      BY Zenon, <1>14 DEF Unlock
    <2> QED
      BY Zenon, <2>x, <2>1, <2>2, <2>3, <2>4, <1>t, QuietDrain
  <1>15. CASE BeginDrain
    <2>x. /\ ~draining /\ draining' /\ toMark' = {s \in Sessions : active[s] > 0}
          /\ UNCHANGED <<lock, pc, marker, marked, failed, deadline, cur, mk, writeMu>>
      BY Zenon, <1>15 DEF BeginDrain, DrainInv, PhaseInv
    <2>1. PhaseInv'
      BY Zenon, <1>15 DEF BeginDrain, DrainInv, PhaseInv
    <2>2. PremarkInv'
      <3> SUFFICES ASSUME draining', ~deadline', NEW u \in Turns, Bracketed(u)',
                          SessionOf[u] \notin failed'
                   PROVE  Covered(u)'
        BY Zenon DEF PremarkInv
      <3>1. active[SessionOf[u]] = 1 /\ SessionOf[u] \in Sessions /\ 1 > 0
        BY SMTT(60), <2>x, ActorAssumption
           DEF Bracketed, IInv, ActiveInv, SlotInv, Holding, TypeOK
      <3> QED
        BY Zenon, <3>1, <2>x DEF DrainInv, PremarkInv, Covered, Bracketed
    <2>3. HeldInv'
      <3> SUFFICES ASSUME ~deadline', NEW a \in Actors, mk'[a] \in {"write", "pause", "flip"}
                   PROVE  WillLook(Target(a))'
        BY Zenon DEF HeldInv
      <3>2. /\ mk[a] = mk'[a] /\ Target(a)' = Target(a)
            /\ Target(a) \in Sessions /\ WillLook(Target(a))
        BY Zenon, <2>x, <1>t DEF DrainInv, HeldInv, Target
      <3> QED
        BY Zenon, <3>2, <2>x DEF WillLook
    <2>4. OwedInv'
      <3> SUFFICES ASSUME ~deadline', NEW s \in Sessions, marker'[s], s \notin Leftover \cup failed'
                   PROVE  ToClear(s)' /\ Recorded(s)'
        BY Zenon DEF OwedInv
      <3>2. ToClear(s) /\ Recorded(s)
        BY Zenon, <2>x DEF DrainInv, OwedInv
      <3> QED
        BY Zenon, <3>2, <2>x DEF ToClear, WillLook, Recorded, Target
    <2>5. PauseInv'
      BY Zenon, <1>15
         DEF BeginDrain, DrainInv, PhaseInv, PauseInv, KnownPausedWithMark, PausedWithMark
    <2> QED
      BY Zenon, <2>1, <2>2, <2>3, <2>4, <2>5 DEF DrainInv
  <1>16. CASE Deadline
    <2>1. PhaseInv'
      BY Zenon, <1>16 DEF Deadline, DrainInv, PhaseInv
    <2>2. PremarkInv' /\ HeldInv' /\ OwedInv'
      BY Zenon, <1>16 DEF Deadline, PremarkInv, HeldInv, OwedInv
    <2>3. PauseInv'
      BY Zenon, <1>16
         DEF Deadline, DrainInv, PauseInv, KnownPausedWithMark, PausedWithMark, Target
    <2> QED
      BY Zenon, <2>1, <2>2, <2>3 DEF DrainInv
  <1>17. CASE PremarkNext
    <2>x. /\ mk[Drainer] = "idle" /\ mk'[Drainer] = "want" /\ draining
          /\ \A t \in Turns : mk'[t] = mk[t]
          /\ toMark' = toMark \ {cur'}
          /\ UNCHANGED <<lock, pc, marker, marked, failed, deadline, draining, writeMu>>
      BY Zenon, <1>17 DEF PremarkNext, IInv, TypeOK, PhaseInv, DrainInv
    <2>1. PhaseInv'
      BY Zenon, <1>17 DEF PremarkNext, DrainInv, PhaseInv
    <2>2. PremarkInv'
      <3> SUFFICES ASSUME draining', ~deadline', NEW u \in Turns, Bracketed(u)',
                          SessionOf[u] \notin failed'
                   PROVE  Covered(u)'
        BY Zenon DEF PremarkInv
      <3> QED
        BY Zenon, <2>x DEF DrainInv, PremarkInv, Covered, Bracketed
    <2>3. HeldInv'
      <3> SUFFICES ASSUME ~deadline', NEW a \in Actors, mk'[a] \in {"write", "pause", "flip"}
                   PROVE  WillLook(Target(a))'
        BY Zenon DEF HeldInv
      <3>2. /\ mk[a] = mk'[a] /\ Target(a)' = Target(a)
            /\ Target(a) \in Sessions /\ WillLook(Target(a))
        BY Zenon, <2>x, <1>t DEF DrainInv, HeldInv, Target
      <3> QED
        BY Zenon, <3>2, <2>x DEF WillLook
    <2>4. OwedInv'
      <3> SUFFICES ASSUME ~deadline', NEW s \in Sessions, marker'[s], s \notin Leftover \cup failed'
                   PROVE  ToClear(s)' /\ Recorded(s)'
        BY Zenon DEF OwedInv
      <3>1. writeMu = Drainer => mk[Drainer] # "idle" \/ ~(mk[writeMu] \in {"pause", "flip"})
        BY Zenon
      <3>2. ToClear(s) /\ Recorded(s)
        BY Zenon, <3>1, <2>x DEF DrainInv, OwedInv
      <3> QED
        BY Zenon, <3>1, <3>2, <2>x DEF ToClear, WillLook, Recorded, Target
    <2>5. PauseInv'
      BY SMTT(60), <1>17
         DEF PremarkNext, DrainInv, PauseInv, KnownPausedWithMark, PausedWithMark, Target
    <2> QED
      BY Zenon, <2>1, <2>2, <2>3, <2>4, <2>5 DEF DrainInv
  <1>18. CASE PremarkDone
    <2>x. UNCHANGED <<lock, pc>> /\ MarksAlone
      BY Zenon, <1>18 DEF MarksAlone, PremarkDone
    <2>1. PhaseInv'
      BY Zenon, <1>18 DEF PremarkDone, DrainInv, PhaseInv
    <2>2. \A s \in Sessions : ToClear(s) => ToClear(s)' /\ (WillLook(s) => WillLook(s)')
      BY Zenon, <2>x DEF ToClear, WillLook
    <2>3. \A u \in Turns : Bracketed(u)' => Bracketed(u)
      BY Zenon, <2>x DEF Bracketed
    <2>4. UNCHANGED <<row, pauseOnDrain, gate>>
      BY Zenon, <1>18 DEF PremarkDone
    <2> QED
      BY Zenon, <2>x, <2>1, <2>2, <2>3, <2>4, <1>t, QuietDrain
  <1>19. CASE HandlersDone
    <2>x. UNCHANGED <<lock, pc>> /\ MarksAlone
      BY Zenon, <1>19 DEF MarksAlone, HandlersDone
    <2>1. PhaseInv'
      BY Zenon, <1>19 DEF HandlersDone, DrainInv, PhaseInv
    <2>2. \A s \in Sessions : ToClear(s) => ToClear(s)' /\ (WillLook(s) => WillLook(s)')
      BY Zenon, <2>x DEF ToClear, WillLook
    <2>3. \A u \in Turns : Bracketed(u)' => Bracketed(u)
      BY Zenon, <2>x DEF Bracketed
    <2>4. UNCHANGED <<row, pauseOnDrain, gate>>
      BY Zenon, <1>19 DEF HandlersDone
    <2> QED
      BY Zenon, <2>x, <2>1, <2>2, <2>3, <2>4, <1>t, QuietDrain
  <1>20. CASE WaitClean
    <2>x. UNCHANGED <<lock, pc>> /\ MarksAlone
      BY Zenon, <1>20 DEF MarksAlone, WaitClean
    <2>1. PhaseInv'
      BY Zenon, <1>20 DEF WaitClean, DrainInv, PhaseInv
    <2>2. \A s \in Sessions : ToClear(s) => ToClear(s)' /\ (WillLook(s) => WillLook(s)')
      BY Zenon, <2>x DEF ToClear, WillLook
    <2>3. \A u \in Turns : Bracketed(u)' => Bracketed(u)
      BY Zenon, <2>x DEF Bracketed
    <2>4. UNCHANGED <<row, pauseOnDrain, gate>>
      BY Zenon, <1>20 DEF WaitClean
    <2> QED
      BY Zenon, <2>x, <2>1, <2>2, <2>3, <2>4, <1>t, QuietDrain
  <1>21. CASE WaitExpired
    <2>x. UNCHANGED <<lock, pc>> /\ MarksAlone
      BY Zenon, <1>21 DEF MarksAlone, WaitExpired
    <2>1. PhaseInv'
      BY Zenon, <1>21 DEF WaitExpired, DrainInv, PhaseInv
    <2>2. \A s \in Sessions : ToClear(s) => ToClear(s)' /\ (WillLook(s) => WillLook(s)')
      BY Zenon, <2>x DEF ToClear, WillLook
    <2>3. \A u \in Turns : Bracketed(u)' => Bracketed(u)
      BY Zenon, <2>x DEF Bracketed
    <2>4. UNCHANGED <<row, pauseOnDrain, gate>>
      BY Zenon, <1>21 DEF WaitExpired
    <2> QED
      BY Zenon, <2>x, <2>1, <2>2, <2>3, <2>4, <1>t, QuietDrain
  <1>22. CASE Freeze
    <2>x. UNCHANGED <<lock, pc>> /\ MarksAlone
      BY Zenon, <1>22 DEF MarksAlone, Freeze
    <2>1. PhaseInv'
      BY Zenon, <1>22 DEF Freeze, DrainInv, PhaseInv
    <2>2. \A s \in Sessions : ToClear(s) => ToClear(s)' /\ (WillLook(s) => WillLook(s)')
      BY Zenon, <2>x DEF ToClear, WillLook
    <2>3. \A u \in Turns : Bracketed(u)' => Bracketed(u)
      BY Zenon, <2>x DEF Bracketed
    <2>4. UNCHANGED <<row, pauseOnDrain, gate>>
      BY Zenon, <1>22 DEF Freeze
    <2> QED
      BY Zenon, <2>x, <2>1, <2>2, <2>3, <2>4, <1>t, QuietDrain
  <1>23. CASE CancelTurns
    <2>x. UNCHANGED <<lock, pc>> /\ MarksAlone
      BY Zenon, <1>23 DEF MarksAlone, CancelTurns
    <2>1. PhaseInv'
      BY Zenon, <1>23 DEF CancelTurns, DrainInv, PhaseInv
    <2>2. \A s \in Sessions : ToClear(s) => ToClear(s)' /\ (WillLook(s) => WillLook(s)')
      BY Zenon, <2>x DEF ToClear, WillLook
    <2>3. \A u \in Turns : Bracketed(u)' => Bracketed(u)
      BY Zenon, <2>x DEF Bracketed
    <2>4. UNCHANGED <<row, pauseOnDrain, gate>>
      BY Zenon, <1>23 DEF CancelTurns
    <2> QED
      BY Zenon, <2>x, <2>1, <2>2, <2>3, <2>4, <1>t, QuietDrain
  <1>24. CASE GraceOver
    <2>x. UNCHANGED <<lock, pc>> /\ MarksAlone
      BY Zenon, <1>24 DEF MarksAlone, GraceOver
    <2>1. PhaseInv'
      BY Zenon, <1>24 DEF GraceOver, DrainInv, PhaseInv
    <2>2. \A s \in Sessions : ToClear(s) => ToClear(s)' /\ (WillLook(s) => WillLook(s)')
      BY Zenon, <2>x DEF ToClear, WillLook
    <2>3. \A u \in Turns : Bracketed(u)' => Bracketed(u)
      BY Zenon, <2>x DEF Bracketed
    <2>4. UNCHANGED <<row, pauseOnDrain, gate>>
      BY Zenon, <1>24 DEF GraceOver
    <2> QED
      BY Zenon, <2>x, <2>1, <2>2, <2>3, <2>4, <1>t, QuietDrain
  <1>25. CASE UNCHANGED vars
    <2>x. UNCHANGED <<lock, pc>> /\ MarksAlone
      BY Zenon, <1>25 DEF MarksAlone, vars
    <2>1. PhaseInv'
      BY Zenon, <1>25 DEF vars, DrainInv, PhaseInv
    <2>2. \A s \in Sessions : ToClear(s) => ToClear(s)' /\ (WillLook(s) => WillLook(s)')
      BY Zenon, <2>x DEF ToClear, WillLook
    <2>3. \A u \in Turns : Bracketed(u)' => Bracketed(u)
      BY Zenon, <2>x DEF Bracketed
    <2>4. UNCHANGED <<row, pauseOnDrain, gate>>
      BY Zenon, <1>25 DEF vars
    <2> QED
      BY Zenon, <2>x, <2>1, <2>2, <2>3, <2>4, <1>t, QuietDrain
  <1>26. ASSUME NEW t \in Turns, BootDecide(t) \/ BootClear(t) PROVE DrainInv'
    BY Zenon, <1>26, <1>0 DEF BootDecide, BootClear
  <1> QED
    BY ZenonT(60), <1>1, <1>2, <1>3, <1>4, <1>5, <1>6, <1>7, <1>8, <1>9, <1>10, <1>11,
       <1>12, <1>13,
       <1>14, <1>15, <1>16, <1>17, <1>18, <1>19, <1>20, <1>21, <1>22, <1>23, <1>24, <1>25,
       <1>26
       DEF Next, Drain, Mark, Turn

\* Before the drain nothing is marked.
LEMMA InitDrainInv == Init => DrainInv
  BY ZenonT(60), ActorAssumption
     DEF Init, DrainInv, PhaseInv, PremarkInv, Bracketed, HeldInv, OwedInv, PauseInv,
         KnownPausedWithMark, PausedWithMark, Actors, Target

\* The three invariants hold together.
LEMMA DrainInvHolds ==
  ASSUME BootTurns = {}
  PROVE  Spec => [](IInv /\ DiskInv /\ DrainInv)
  <1>1. IInv /\ IInv' /\ DiskInv /\ DrainInv /\ [Next]_vars => DrainInv'
    BY NextDrainInv
  <1> QED
    BY <1>1, DiskInvHolds, InitDrainInv, PTL DEF Spec

\* The pre-mark contract and the pause that goes with it, whatever the requests:
\* while the window is open every running turn is marked on disk, and a planned
\* stop has paused every known session it marked (beginDrain, begin, mark).
THEOREM RunningMarked ==
  ASSUME BootTurns = {}
  PROVE  Spec => [](RunningIsMarkedOnDisk /\ KnownPausedWithMark)
  <1>1. IInv /\ DrainInv => RunningIsMarkedOnDisk /\ KnownPausedWithMark
    BY Zenon, ActorAssumption
       DEF RunningIsMarkedOnDisk, IInv, MarkingInv, DrainInv, PhaseInv, PremarkInv,
       Covered, Bracketed, PauseInv
  <1> QED
    BY <1>1, DrainInvHolds, PTL

\* Once the handlers are through within the window no turn is in flight: the
\* HTTP server waits for every inject handler.
StillInv == phase \in {"wait", "exit0"} /\ ~deadline => \A t \in Turns : ~InFlight(t)

\* No turn is accepted once the tracker drains.
LEMMA NextStillInv ==
  ASSUME \A t \in Turns : Kind[t] = "inject", IInv, DrainInv, StillInv, [Next]_vars
  PROVE  StillInv'
  <1> USE ActorAssumption DEF Actors, drain, tracker, turn, disk, DrainInv, PhaseInv, StillInv, InFlight
  <1>1. CASE Drain \/ Deadline
    BY Zenon, <1>1
       DEF Drain, BeginDrain, Deadline, PremarkNext, PremarkDone, HandlersDone, WaitClean,
       WaitExpired, Freeze, CancelTurns, GraceOver
  <1>2. ASSUME NEW a \in Actors, Mark(a) PROVE StillInv'
    BY Zenon, <1>2 DEF Mark, MarkEnter, MarkWrite, MarkPause, MarkFlip
  <1>3. ASSUME NEW t \in Turns, Turn(t) PROVE StillInv'
    BY ZenonT(60), <1>3
       DEF Turn, Accept, Lock, Refuse, Begin, Run, End, ClearEnter, ClearWrite, ClearFlip,
           Unlock,
       BootDecide, BootClear, Goto, IInv, TypeOK
  <1>4. CASE UNCHANGED vars
    BY Zenon, <1>4 DEF vars
  <1> QED
    BY Zenon, <1>1, <1>2, <1>3, <1>4 DEF Next

\* What the marks of a drain say is true (serve.go's drain sequence), for
\* requests that arrive over the inject route: every running turn is marked on
\* disk while the window is open, exit 0 leaves no mark behind, and a planned
\* stop has paused what it marked.
THEOREM MarksTruthful ==
  ASSUME \A t \in Turns : Kind[t] = "inject"
  PROVE  Spec => []MarksTellTheTruth
  <1>0. BootTurns = {}
    BY DEF BootTurns
  <1>1. Init => StillInv
    BY DEF Init, StillInv
  <1>2. IInv /\ DrainInv /\ StillInv /\ [Next]_vars => StillInv'
    BY NextStillInv
  <1>3. DrainInv /\ StillInv => CleanExitLeavesNoMark
    <2> SUFFICES ASSUME DrainInv, StillInv, phase = "exit0", ~deadline,
                        NEW s \in Sessions, marker[s], s \notin Leftover \cup failed
                 PROVE  FALSE
      BY DEF CleanExitLeavesNoMark
    <2> QED
      BY DEF DrainInv, OwedInv, ToClear, WillLook, StillInv, InFlight
  <1>4. Spec => [](RunningIsMarkedOnDisk /\ KnownPausedWithMark)
    BY <1>0, RunningMarked
  <1>5. CleanExitLeavesNoMark /\ RunningIsMarkedOnDisk /\ KnownPausedWithMark => MarksTellTheTruth
    BY DEF MarksTellTheTruth
  <1> QED
    BY <1>0, <1>1, <1>2, <1>3, <1>4, <1>5, DrainInvHolds, PTL DEF Spec
=============================================================================
