--------------------------- MODULE SessionOpsProofs ---------------------------
(***************************************************************************)
(* What the operations on a session guarantee for any set of calls.  An    *)
(* acknowledged abort stops the session's turns and stands; the second     *)
(* part is about pauses and tokens.                                        *)
(*                                                                         *)
(* AbortStopsTurns is not inductive: it needs that a turn past the slot is *)
(* the registered one (HoldingInv), so a sweep reaches it, and that an     *)
(* abort that has written is visible to every later check (MarkedInv).     *)
(***************************************************************************)
EXTENDS SessionOps, TLAPS

Results == {"ok", "err", "lost"}

ShapeInv ==
  /\ pc \in [Actors -> Points] /\ res \in [Actors -> Results]
  /\ aborted \in BOOLEAN /\ cut \subseteq Actors /\ reg \in Actors \cup {None}

\* A turn between the slot and its release holds the slot and is registered.
HoldingInv ==
  \A a \in Actors : pc[a] \in {"check", "running", "mint", "leave"} => slot = a /\ reg = a

\* The program points of an abort.
AbortPathInv ==
  /\ \A o \in Ops : Kind[o] = "abort" => pc[o] \in {"new", "writeabort", "sweep", "done"}
  /\ \A o \in Ops : pc[o] = "writeabort" => Kind[o] = "abort"

\* An abort that has written its marker is visible.
MarkedInv ==
  \A o \in Ops : Kind[o] = "abort" /\ (pc[o] = "sweep" \/ Succeeded(o)) => aborted

\* A swept abort leaves no turn running untold.
SweptInv ==
  \A o \in Ops : Kind[o] = "abort" /\ Succeeded(o) => \A a \in Actors : ~Unstopped(a)

IInv == ShapeInv /\ HoldingInv /\ AbortPathInv /\ MarkedInv /\ SweptInv

\* A step that moves one call to a point outside the slot and touches neither
\* the abort marker nor the registry; of the aborts, only a failing one.
Quiet(a) ==
  /\ pc' = [pc EXCEPT ![a] = pc'[a]] /\ res' = [res EXCEPT ![a] = res'[a]]
  /\ pc'[a] \in Points \ {"check", "running", "mint", "leave", "writeabort"}
  /\ res'[a] \in Results
  /\ Is(a, "abort") => pc'[a] = "done" /\ res'[a] = "err"
  /\ UNCHANGED <<aborted, slot, reg, cut>>

-----------------------------------------------------------------------------
\* A new session.
LEMMA InitIInv == Init => IInv
  <1> SUFFICES ASSUME Init PROVE IInv
    OBVIOUS
  <1> USE OpsAssumption DEF Init, Actors
  <1>1. \A a \in Actors : pc[a] = "new"
    BY Zenon
  <1>2. ShapeInv
    BY Zenon DEF ShapeInv, Points, Results
  <1> QED
    BY ONLY <1>1, <1>2 DEF IInv, HoldingInv, AbortPathInv, MarkedInv, SweptInv, Unstopped,
       Succeeded, Actors

\* A step that leaves the abort flag and every turn alone keeps the invariant.
LEMMA QuietStep ==
  ASSUME IInv, NEW a \in Actors, Quiet(a)
  PROVE  IInv'
  <1> USE OpsAssumption DEF Actors
  <1>1. ShapeInv'
    BY Zenon DEF IInv, ShapeInv, Quiet
  <1>2. \A b \in Actors : b # a => pc'[b] = pc[b] /\ res'[b] = res[b]
    BY Zenon DEF IInv, ShapeInv, Quiet
  <1>3. /\ pc'[a] \notin {"check", "running", "mint", "leave", "writeabort"}
        /\ a \in Ops /\ Kind[a] = "abort" => pc'[a] = "done" /\ res'[a] = "err"
        /\ aborted' = aborted /\ slot' = slot /\ reg' = reg /\ cut' = cut
    BY Zenon DEF Quiet, Is
  <1>4. HoldingInv'
    BY Zenon, <1>2, <1>3 DEF IInv, HoldingInv
  <1>5. AbortPathInv'
    BY Zenon, <1>2, <1>3 DEF IInv, AbortPathInv
  <1>6. MarkedInv'
    BY Zenon, <1>2, <1>3 DEF IInv, MarkedInv, Succeeded
  <1>7. SweptInv'
    BY Zenon, <1>2, <1>3 DEF IInv, SweptInv, Succeeded, Unstopped
  <1> QED
    BY Zenon, <1>1, <1>4, <1>5, <1>6, <1>7 DEF IInv

\* Every step of every call keeps the abort invariant.
LEMMA NextIInv ==
  ASSUME "" \notin AbortReasons, IInv, [Next]_vars
  PROVE  IInv'
  <1> USE OpsAssumption DEF Actors, Points, Results, disk, proc, locals, Succeeded
  <1>1. ASSUME NEW a \in Actors, ResumeInterrupt(a) PROVE IInv'
    <2>1. Quiet(a)
      <3>1. ~Is(a, "abort")
        BY Zenon, <1>1 DEF IInv, AbortPathInv, Is, ResumeInterrupt
      <3>2. CASE aborted
        BY ZenonT(60), <1>1, <3>1, <3>2
           DEF IInv, ShapeInv, Quiet, ResumeInterrupt, Goto, Report, AfterTurn
      <3>3. CASE ~aborted
        BY ZenonT(60), <1>1, <3>1, <3>3
           DEF IInv, ShapeInv, Quiet, ResumeInterrupt, Goto
      <3> QED
        BY Zenon, <3>2, <3>3
    <2> QED
      BY Zenon, <2>1, QuietStep
  <1>2. ASSUME NEW a \in Actors, PostCheck(a) PROVE IInv'
    <2>1. Quiet(a)
      BY ZenonT(60), <1>2
         DEF IInv, ShapeInv, AbortPathInv, Quiet, Results, Is, PostCheck, Goto, Report,
             Return
    <2> QED
      BY Zenon, <2>1, QuietStep
  <1>3. ASSUME NEW a \in Actors, Find(a) PROVE IInv'
    <2>1. Quiet(a)
      BY ZenonT(60), <1>3
         DEF IInv, ShapeInv, AbortPathInv, Quiet, Results, Is, Find, Goto, Report, Return,
             ConsumeFailed
    <2> QED
      BY Zenon, <2>1, QuietStep
  <1>4. ASSUME NEW a \in Actors, WriteRecord(a) PROVE IInv'
    <2>1. Quiet(a)
      BY Zenon, <1>4
         DEF IInv, ShapeInv, AbortPathInv, Quiet, Results, Is, WriteRecord, Goto, Report,
             Return
    <2> QED
      BY Zenon, <2>1, QuietStep
  <1>5. ASSUME NEW a \in Actors, StoreFault(a) PROVE IInv'
    <2>1. Quiet(a)
      BY Zenon, <1>5
         DEF IInv, ShapeInv, AbortPathInv, Quiet, Results, Is, StoreFault, Goto, Report,
             Return, ConsumeFailed
    <2> QED
      BY Zenon, <2>1, QuietStep
  <1>6. ASSUME NEW o \in Ops, InjectStart(o) PROVE IInv'
    <2>1. Quiet(o)
      BY Zenon, <1>6
         DEF IInv, ShapeInv, AbortPathInv, Quiet, Results, Is, InjectStart, Goto, Report
    <2> QED
      BY Zenon, <2>1, QuietStep
  <1>7. ASSUME NEW o \in Ops, ResumeStart(o) PROVE IInv'
    <2>1. Quiet(o)
      BY ZenonT(60), <1>7
         DEF IInv, ShapeInv, AbortPathInv, Quiet, Results, Is, ResumeStart, Goto, Report
    <2> QED
      BY Zenon, <2>1, QuietStep
  <1>8. ASSUME NEW o \in Ops, AnswerStart(o) PROVE IInv'
    <2>1. Quiet(o)
      BY Zenon, <1>8
         DEF IInv, ShapeInv, AbortPathInv, Quiet, Results, Is, AnswerStart, Goto, Report
    <2> QED
      BY Zenon, <2>1, QuietStep
  <1>9. ASSUME NEW o \in Ops, ExtendStart(o) PROVE IInv'
    <2>1. Quiet(o)
      BY Zenon, <1>9
         DEF IInv, ShapeInv, AbortPathInv, Quiet, Results, Is, ExtendStart, Goto, Report
    <2> QED
      BY Zenon, <2>1, QuietStep
  <1>10. ASSUME NEW o \in Ops, PauseCheck(o) PROVE IInv'
    <2>1. Quiet(o)
      BY ZenonT(60), <1>10
         DEF IInv, ShapeInv, AbortPathInv, Quiet, Results, Is, PauseCheck, Goto, Report,
             Return, IsPause
    <2> QED
      BY Zenon, <2>1, QuietStep
  <1>11. ASSUME NEW o \in Ops, PauseRead(o) PROVE IInv'
    <2>1. Quiet(o)
      BY Zenon, <1>11
         DEF IInv, ShapeInv, AbortPathInv, Quiet, Results, Is, PauseRead, Goto, Report
    <2> QED
      BY Zenon, <2>1, QuietStep
  <1>12. ASSUME NEW o \in Ops, PauseWrite(o) PROVE IInv'
    <2>1. Quiet(o)
      BY Zenon, <1>12
         DEF IInv, ShapeInv, AbortPathInv, Quiet, Results, Is, PauseWrite, Goto, Report
    <2> QED
      BY Zenon, <2>1, QuietStep
  <1>13. ASSUME NEW o \in Ops, Push(o) PROVE IInv'
    <2>1. Quiet(o)
      BY Zenon, <1>13
         DEF IInv, ShapeInv, AbortPathInv, Quiet, Results, Is, Push, Goto, Report
    <2> QED
      BY Zenon, <2>1, QuietStep
  <1>14. ASSUME NEW a \in Actors, TurnLock(a) PROVE IInv'
    <2>1. CASE slot' = a /\ reg' = a /\ cut' = cut \ {a} /\ slot = None /\ Goto(a, "check") /\ UNCHANGED res
      <3>1. ShapeInv'
        BY Zenon, <1>14, <2>1 DEF IInv, ShapeInv, TurnLock, Goto
      <3>2. HoldingInv'
        BY Zenon, <1>14, <2>1 DEF IInv, ShapeInv, HoldingInv, TurnLock, Goto
      <3>3. AbortPathInv'
        BY Zenon, <1>14, <2>1 DEF IInv, ShapeInv, AbortPathInv, TurnLock, Goto
      <3>4. MarkedInv'
        BY Zenon, <1>14, <2>1 DEF IInv, ShapeInv, AbortPathInv, MarkedInv, TurnLock, Goto
      <3>5. SweptInv'
        BY Zenon, <1>14, <2>1
           DEF IInv, ShapeInv, HoldingInv, AbortPathInv, MarkedInv, SweptInv, Unstopped,
               TurnLock, Goto
      <3> QED
        BY Zenon, <3>1, <3>2, <3>3, <3>4, <3>5 DEF IInv
    <2>2. CASE Goto(a, AfterTurn(a)) /\ Report(a, "err") /\ UNCHANGED proc
      <3>1. Quiet(a)
        BY Zenon, <1>14, <2>2
           DEF IInv, ShapeInv, AbortPathInv, Quiet, Results, Is, TurnLock, Goto, Report,
               AfterTurn
      <3> QED
        BY Zenon, <3>1, QuietStep
    <2> QED
      BY Zenon, <1>14, <2>1, <2>2 DEF TurnLock
  <1>15. ASSUME NEW a \in Actors, TurnCheck(a) PROVE IInv'
    <2>1. ShapeInv'
      BY ZenonT(60), <1>15 DEF IInv, ShapeInv, TurnCheck, Goto, Report
    <2>2. HoldingInv'
      BY ZenonT(60), <1>15 DEF IInv, ShapeInv, HoldingInv, TurnCheck, Goto, Report
    <2>3. AbortPathInv'
      BY ZenonT(60), <1>15
         DEF IInv, ShapeInv, AbortPathInv, TurnCheck, Goto, Report
    <2>4. MarkedInv'
      BY ZenonT(60), <1>15
         DEF IInv, ShapeInv, AbortPathInv, MarkedInv, TurnCheck, Goto, Report
    <2>5. SweptInv'
      <3>1. \A o \in Ops : Kind[o] = "abort" /\ Succeeded(o)' => o # a /\ Succeeded(o)
        BY ZenonT(60), <1>15
           DEF IInv, ShapeInv, AbortPathInv, TurnCheck, Goto, Report
      <3>2. CASE aborted
        <4>1. \A b \in Actors : Unstopped(b)' => Unstopped(b)
          BY Zenon, <1>15, <3>2 DEF IInv, ShapeInv, Unstopped, TurnCheck, Goto
        <4> QED
          BY Zenon, <3>1, <4>1 DEF IInv, SweptInv
      <3>3. CASE ~aborted
        BY Zenon, <3>1, <3>3 DEF IInv, MarkedInv, SweptInv
      <3> QED
        BY Zenon, <3>2, <3>3
    <2> QED
      BY Zenon, <2>1, <2>2, <2>3, <2>4, <2>5 DEF IInv
  <1>16. ASSUME NEW a \in Actors, AnswerRun(a) PROVE IInv'
    <2>1. ShapeInv'
      <3>1. PICK r \in Results : res' = [res EXCEPT ![a] = r]
        BY Zenon, <1>16 DEF AnswerRun, Report
      <3> QED
        BY ZenonT(60), <1>16, <3>1 DEF IInv, ShapeInv, AnswerRun, Goto
    <2>2. HoldingInv'
      BY Zenon, <1>16 DEF IInv, ShapeInv, HoldingInv, AnswerRun, Goto, Report, Is
    <2>3. AbortPathInv'
      BY Zenon, <1>16 DEF IInv, ShapeInv, AbortPathInv, AnswerRun, Goto, Report, Is
    <2>4. MarkedInv'
      BY Zenon, <1>16
         DEF IInv, ShapeInv, AbortPathInv, MarkedInv, AnswerRun, Goto, Report, Is
    <2>5. SweptInv'
      BY ZenonT(60), <1>16
         DEF IInv, ShapeInv, HoldingInv, AbortPathInv, MarkedInv, SweptInv, Unstopped,
             AnswerRun, Goto, Report, Is
    <2> QED
      BY ZenonT(60), <2>1, <2>2, <2>3, <2>4, <2>5 DEF IInv
  <1>17. ASSUME NEW a \in Actors, TurnLeave(a) PROVE IInv'
    <2>1. ShapeInv'
      BY Zenon, <1>17 DEF IInv, ShapeInv, TurnLeave, Goto, Report, AfterTurn, Is
    <2>2. HoldingInv'
      BY Zenon, <1>17 DEF IInv, ShapeInv, HoldingInv, TurnLeave, Goto, Report, AfterTurn, Is
    <2>3. AbortPathInv'
      BY Zenon, <1>17
         DEF IInv, ShapeInv, AbortPathInv, TurnLeave, Goto, Report, AfterTurn, Is
    <2>4. MarkedInv'
      BY Zenon, <1>17
         DEF IInv, ShapeInv, AbortPathInv, MarkedInv, TurnLeave, Goto, Report, AfterTurn, Is
    <2>5. SweptInv'
      BY Zenon, <1>17
         DEF IInv, ShapeInv, HoldingInv, AbortPathInv, MarkedInv, SweptInv, Unstopped,
             TurnLeave, Goto, Report, AfterTurn, Is
    <2> QED
      BY Zenon, <2>1, <2>2, <2>3, <2>4, <2>5 DEF IInv
  <1>18. ASSUME NEW o \in Ops, InjectRun(o) PROVE IInv'
    <2>1. ShapeInv'
      BY Zenon, <1>18 DEF IInv, ShapeInv, InjectRun, Goto
    <2>2. HoldingInv'
      BY Zenon, <1>18 DEF IInv, ShapeInv, HoldingInv, InjectRun, Goto
    <2>3. AbortPathInv'
      BY Zenon, <1>18 DEF IInv, ShapeInv, AbortPathInv, InjectRun, Goto
    <2>4. MarkedInv'
      BY Zenon, <1>18 DEF IInv, ShapeInv, AbortPathInv, MarkedInv, InjectRun, Goto
    <2>5. SweptInv'
      BY ZenonT(60), <1>18
         DEF IInv, ShapeInv, HoldingInv, AbortPathInv, MarkedInv, SweptInv, Unstopped,
             InjectRun, Goto
    <2> QED
      BY Zenon, <2>1, <2>2, <2>3, <2>4, <2>5 DEF IInv
  <1>19. ASSUME NEW o \in Ops, Mint(o) PROVE IInv'
    <2>1. ShapeInv'
      BY Zenon, <1>19 DEF IInv, ShapeInv, Mint, Goto
    <2>2. HoldingInv'
      BY Zenon, <1>19 DEF IInv, ShapeInv, HoldingInv, Mint, Goto
    <2>3. AbortPathInv'
      BY Zenon, <1>19 DEF IInv, ShapeInv, AbortPathInv, Mint, Goto
    <2>4. MarkedInv'
      BY Zenon, <1>19 DEF IInv, ShapeInv, AbortPathInv, MarkedInv, Mint, Goto
    <2>5. SweptInv'
      BY Zenon, <1>19
         DEF IInv, ShapeInv, HoldingInv, AbortPathInv, MarkedInv, SweptInv, Unstopped, Mint,
             Goto
    <2> QED
      BY Zenon, <2>1, <2>2, <2>3, <2>4, <2>5 DEF IInv
  <1>20. ASSUME NEW o \in Ops, Sweep(o) PROVE IInv'
    <2>1. ShapeInv'
      BY Zenon, <1>20 DEF IInv, ShapeInv, Sweep, Goto
    <2>2. HoldingInv'
      BY Zenon, <1>20 DEF IInv, ShapeInv, HoldingInv, Sweep, Goto
    <2>3. AbortPathInv'
      BY Zenon, <1>20 DEF IInv, ShapeInv, AbortPathInv, Sweep, Goto
    <2>4. MarkedInv'
      BY Zenon, <1>20 DEF IInv, ShapeInv, AbortPathInv, MarkedInv, Sweep, Goto
    <2>5. SweptInv'
      BY ZenonT(60), <1>20
         DEF IInv, ShapeInv, HoldingInv, AbortPathInv, MarkedInv, SweptInv, Unstopped,
             Sweep, Goto
    <2> QED
      BY Zenon, <2>1, <2>2, <2>3, <2>4, <2>5 DEF IInv
  <1>21. ASSUME NEW o \in Ops, AbortWrite(o) PROVE IInv'
    <2>1. ShapeInv'
      BY Zenon, <1>21 DEF IInv, ShapeInv, AbortWrite, Goto
    <2>2. HoldingInv'
      BY Zenon, <1>21 DEF IInv, ShapeInv, HoldingInv, AbortWrite, Goto
    <2>3. AbortPathInv'
      BY Zenon, <1>21 DEF IInv, ShapeInv, AbortPathInv, AbortWrite, Goto
    <2>4. MarkedInv'
      BY Zenon, <1>21 DEF IInv, ShapeInv, AbortPathInv, MarkedInv, AbortWrite, Goto
    <2>5. SweptInv'
      BY Zenon, <1>21
         DEF IInv, ShapeInv, HoldingInv, AbortPathInv, MarkedInv, SweptInv, Unstopped,
             AbortWrite, Goto
    <2> QED
      BY Zenon, <2>1, <2>2, <2>3, <2>4, <2>5 DEF IInv
  <1>22. ASSUME NEW o \in Ops, AbortRead(o) PROVE IInv'
    <2>1. CASE aborted
      <3>1. Quiet(o)
        BY ZenonT(60), <1>22, <2>1
           DEF IInv, ShapeInv, AbortPathInv, Quiet, Results, Is, AbortRead, Goto, Report,
               Return
      <3> QED
        BY Zenon, <3>1, QuietStep
    <2>2. CASE ~aborted
      <3>1. ShapeInv'
        BY Zenon, <1>22, <2>2 DEF IInv, ShapeInv, AbortRead, Goto
      <3>2. HoldingInv'
        BY ZenonT(60), <1>22, <2>2
           DEF IInv, ShapeInv, HoldingInv, AbortRead, Goto
      <3>3. AbortPathInv'
        BY Zenon, <1>22, <2>2 DEF IInv, ShapeInv, AbortPathInv, AbortRead, Goto
      <3>4. MarkedInv'
        BY Zenon, <1>22, <2>2 DEF IInv, ShapeInv, AbortPathInv, MarkedInv, AbortRead, Goto
      <3>5. SweptInv'
        BY ZenonT(60), <1>22, <2>2
           DEF IInv, ShapeInv, HoldingInv, AbortPathInv, MarkedInv, SweptInv, Unstopped,
               AbortRead, Goto
      <3> QED
        BY Zenon, <3>1, <3>2, <3>3, <3>4, <3>5 DEF IInv
    <2> QED
      BY Zenon, <2>1, <2>2
  <1>23. ASSUME NEW o \in Ops, TimerPop(o) PROVE IInv'
    <2>1. Quiet(Timer)
      BY Zenon, <1>23 DEF IInv, ShapeInv, Quiet, Results, Is, TimerPop, Goto
    <2> QED
      BY Zenon, <2>1, QuietStep DEF Actors
  <1>24. CASE TimerFetch
    <2>1. Quiet(Timer)
      BY ZenonT(60), <1>24
         DEF IInv, ShapeInv, Quiet, Results, Is, TimerFetch, Goto, Report
    <2> QED
      BY Zenon, <2>1, QuietStep DEF Actors
  <1>25. CASE Rescan \/ Tick \/ UNCHANGED vars
    BY Zenon, <1>25
       DEF IInv, ShapeInv, HoldingInv, AbortPathInv, MarkedInv, SweptInv, Unstopped, Rescan,
           Tick, vars
  <1>26. CASE Restart
    <2>1. ShapeInv'
      BY Zenon, <1>26 DEF IInv, ShapeInv, Restart
    <2>2. HoldingInv'
      BY Zenon, <1>26 DEF IInv, ShapeInv, HoldingInv, Restart
    <2>3. AbortPathInv'
      BY Zenon, <1>26 DEF IInv, ShapeInv, AbortPathInv, Restart
    <2>4. MarkedInv'
      BY Zenon, <1>26 DEF IInv, ShapeInv, AbortPathInv, MarkedInv, Restart
    <2>5. SweptInv'
      BY Zenon, <1>26
         DEF IInv, ShapeInv, HoldingInv, AbortPathInv, MarkedInv, SweptInv, Unstopped,
             Restart
    <2> QED
      BY Zenon, <2>1, <2>2, <2>3, <2>4, <2>5 DEF IInv
  <1> QED
    BY Zenon, <1>1, <1>2, <1>3, <1>4, <1>5, <1>6, <1>7, <1>8, <1>9, <1>10, <1>11, <1>12,
       <1>13,
       <1>14, <1>15, <1>16, <1>17, <1>18, <1>19, <1>20, <1>21, <1>22, <1>23, <1>24, <1>25, <1>26
       DEF Next, TurnStep, OpStep

\* abortHandler and runTurnPre: once an abort that carried a reason has
\* returned success, no turn of the session runs uncancelled, whatever calls,
\* timers, store faults and restarts interleave.
THEOREM AbortStops ==
  ASSUME "" \notin AbortReasons
  PROVE  Spec => []AbortStopsTurns
  <1>1. IInv => AbortStopsTurns
    BY Zenon DEF IInv, SweptInv, AbortStopsTurns
  <1>2. IInv /\ [Next]_vars => IInv'
    BY Zenon, NextIInv
  <1> QED
    BY <1>1, <1>2, InitIInv, PTL DEF Spec

\* transcript.Abort: an abort that carried a reason and reported success is
\* terminal.
THEOREM AbortTerminal ==
  ASSUME "" \notin AbortReasons
  PROVE  Spec => []AbortIsTerminal
  <1>1. IInv => AbortIsTerminal
    BY Zenon DEF IInv, MarkedInv, AbortIsTerminal
  <1>2. IInv /\ [Next]_vars => IInv'
    BY Zenon, NextIInv
  <1> QED
    BY <1>1, <1>2, InitIInv, PTL DEF Spec

-----------------------------------------------------------------------------
(***************************************************************************)
(* The pause records and the calls in flight: an invariant (PInv) under    *)
(* which an acknowledged hard pause stops the session's turns and a token  *)
(* is consumed only for an answer.  A pause depends on what a call that    *)
(* read the records long ago will still write (CallInv): a stale write     *)
(* brings back only a gate record that was replaced before, and consumes   *)
(* only a token that was settled when its call looked.  The steps that     *)
(* read and those that wait come first, then the ones that write a record  *)
(* or run a turn, and the theorems.                                        *)
(***************************************************************************)

\* The kinds of call that pass through each program point.
RouteInv(a) ==
  /\ a = Timer =>
       pc[a] \notin {"mint", "read", "writegate", "sweep", "push", "writeabort", "done"}
  /\ a # Timer =>
       /\ pc[a] \in {"queued", "check", "running", "leave"} => Kind[a] \in {"inject", "resume", "answer"}
       /\ pc[a] = "mint" => Kind[a] = "inject"
       /\ pc[a] = "resume" => Kind[a] \in {"resume", "answer"}
       /\ pc[a] = "postcheck" => Kind[a] = "resume"
       /\ pc[a] \in {"find", "write"} => Kind[a] \in {"resume", "extend"}
       /\ pc[a] \in {"read", "writegate", "push"} => IsPause(a)
       /\ pc[a] = "sweep" => Kind[a] \in {"hardpause", "abort"}
       /\ pc[a] = "writeabort" => Kind[a] = "abort"
       /\ pc[a] # "fetch"

\* A pause that has written; a token that is, or once was, the gate record's; a
\* turn whose interrupt is in the log and whose own call has moved on; an
\* interrupt that is answered or that nobody waits for any more.
Written(t) == t \in Ops /\ IsPause(t) /\ pc[t] \in {"sweep", "push", "done"}
Seen(t) == t = rec[Gate].token \/ t \in replaced
Parked(t) == t \in pending \cup answered /\ pc[t] \in {"leave", "done"}
Settled(t) == t \in answered \/ aborted

\* A call that is on its way with a token.
Holds(a) ==
  /\ a = Timer \/ Kind[a] \in {"resume", "answer", "extend"}
  /\ pc[a] \notin {"new", "done"}

\* What a call in flight may rely on between its read and its write.
CallInv(a) ==
  /\ RouteInv(a)
  /\ Holds(a) => tok[a] \in Ops
  /\ pc[a] = "write" =>
       /\ snap[a].token = tok[a]
       /\ Is(a, "extend") => ~snap[a].consumed
       /\ KeyOf(tok[a]) = Gate => Seen(tok[a])
  /\ pc[a] = "writegate" =>
       /\ snap[a].token \in Ops /\ ~snap[a].consumed
       /\ snap[a].token = a \/ Seen(snap[a].token)
  /\ pc[a] = "mint" => a \in pending \cup answered
  /\ Holds(a) /\ ~Is(a, "answer") /\ pc[a] # "fetch" /\ Kind[tok[a]] = "inject" => Parked(tok[a])
  /\ pc[a] \in {"find", "write"} /\ ~Is(a, "extend") /\ Kind[tok[a]] = "inject" => Settled(tok[a])

\* What the records on disk say of the calls that wrote them.
LocalTypes ==
  /\ snap \in [Actors -> Records] /\ tok \in [Actors -> Ops \cup {None}] /\ now \in Nat
StoreTypes ==
  /\ rec \in [Keys -> Records] /\ spent \subseteq Ops /\ replaced \subseteq Ops
  /\ pending \subseteq Ops /\ answered \subseteq Ops
GateInv ==
  /\ rec[Gate].token = None \/ Written(rec[Gate].token)
  /\ rec[Gate].consumed => rec[Gate].token \in spent
  /\ \A t \in replaced : Written(t)
ParkInv ==
  \A o \in Ops : Kind[o] = "inject" =>
    (rec[o].token # None => Parked(o)) /\ (rec[o].consumed => Settled(o))

\* A hard pause that has swept leaves no turn running untold while its record
\* stands.
Swept(o) == Kind[o] = "hardpause" /\ (pc[o] = "push" \/ Succeeded(o))
HushedInv ==
  \A o \in Ops :
    Swept(o) /\ rec[Gate].token = o /\ o \notin spent \cup replaced
      => \A a \in Actors : ~Unstopped(a)

PInv ==
  /\ LocalTypes /\ StoreTypes /\ GateInv /\ ParkInv /\ HushedInv
  /\ \A a \in Actors : CallInv(a)

\* A step of one call alone, that goes forward and loses no interrupt but the
\* one it is minting a record for.
Alone(a) ==
  /\ \A b \in Actors : b # a => pc'[b] = pc[b] /\ res'[b] = res[b] /\ tok'[b] = tok[b] /\ snap'[b] = snap[b]
  /\ pc[a] \in {"sweep", "push", "done"} /\ a # Timer => pc'[a] \in {"sweep", "push", "done"}
  /\ pc[a] \in {"leave", "done"} /\ Is(a, "inject") => pc'[a] \in {"leave", "done"}
  /\ LocalTypes' /\ pending' \subseteq Ops /\ answered' \subseteq Ops
  /\ answered \subseteq answered' /\ (aborted => aborted')
  /\ \A t \in pending \cup answered : t \in pending' \cup answered' \/ (t = a /\ pc[a] = "mint")

\* A step that starts no turn, cuts none loose and ends no hard pause's sweep.
Calm(a) ==
  /\ cut' = cut /\ (pc'[a] \in {"running", "mint"} => pc[a] \in {"running", "mint"})
  /\ Is(a, "hardpause") /\ (pc'[a] = "push" \/ (pc'[a] = "done" /\ res'[a] = "ok")) => pc[a] = "push"
Reads == UNCHANGED <<rec, spent, replaced>>

-----------------------------------------------------------------------------
\* Init of the store, the timers and the calls.
LEMMA InitPInv == Init => PInv
  <1> SUFFICES ASSUME Init PROVE PInv
    OBVIOUS
  <1> USE OpsAssumption DEF Init, Actors, Keys
  <1>1. LocalTypes /\ StoreTypes
    BY Zenon DEF LocalTypes, StoreTypes, Records, Blank
  <1>2. GateInv /\ ParkInv
    BY Zenon DEF GateInv, ParkInv, Blank
  <1>3. HushedInv
    BY Zenon DEF HushedInv, Unstopped
  <1>4. \A a \in Actors : CallInv(a)
    BY Zenon DEF CallInv, RouteInv, Holds
  <1> QED
    BY Zenon, <1>1, <1>2, <1>3, <1>4 DEF PInv

\* Of the other calls, and of the tokens they rely on, a call's step leaves
\* standing what they relied on.
LEMMA AloneStep ==
  ASSUME PInv, NEW a \in Actors, Alone(a), CallInv(a)',
         \A t \in Ops : Seen(t) => Seen(t)'
  PROVE  /\ \A b \in Actors : CallInv(b)'
         /\ \A t \in Ops : Written(t) => Written(t)'
         /\ \A t \in Ops : Kind[t] = "inject" /\ Parked(t) => Parked(t)'
         /\ \A t \in Ops : Settled(t) => Settled(t)'
  <1> USE OpsAssumption DEF Actors
  <1>1. \A t \in Ops : Written(t) => Written(t)'
    BY Zenon DEF Alone, Written, IsPause
  <1>2. \A t \in Ops : Kind[t] = "inject" /\ Parked(t) => Parked(t)'
    BY ZenonT(60) DEF Alone, Parked, Is
  <1>3. \A t \in Ops : Settled(t) => Settled(t)'
    BY Zenon DEF Alone, Settled
  <1>4. ASSUME NEW b \in Actors, b # a PROVE CallInv(b)'
    <2>1. /\ pc'[b] = pc[b] /\ tok'[b] = tok[b] /\ snap'[b] = snap[b]
          /\ CallInv(b) /\ snap[b] \in Records /\ tok[b] \in Ops \cup {None}
      BY Zenon, <1>4 DEF Alone, PInv, LocalTypes
    <2>2. RouteInv(b)' /\ (Holds(b)' <=> Holds(b))
      BY Zenon, <2>1 DEF CallInv, RouteInv, Holds, IsPause
    <2>3. pc[b] = "write" =>
            /\ snap'[b].token = tok'[b]
            /\ Is(b, "extend") => ~snap'[b].consumed
            /\ KeyOf(tok[b]) = Gate => Seen(tok[b])'
      <3>1. pc[b] = "write" => Holds(b)
        BY Zenon, <2>1 DEF CallInv, RouteInv, Holds
      <3> QED
        BY Zenon, <2>1, <3>1 DEF CallInv
    <2>4. pc[b] = "writegate" =>
            /\ snap'[b].token \in Ops /\ ~snap'[b].consumed
            /\ snap'[b].token = b \/ Seen(snap[b].token)'
      BY Zenon, <2>1 DEF CallInv
    <2>5. pc[b] = "mint" => b \in pending' \cup answered'
      BY Zenon, <1>4, <2>1 DEF CallInv, Alone
    <2>6. Holds(b) /\ ~Is(b, "answer") /\ pc[b] # "fetch" /\ Kind[tok[b]] = "inject" => Parked(tok[b])'
      BY Zenon, <1>2, <2>1 DEF CallInv
    <2>7. pc[b] \in {"find", "write"} /\ ~Is(b, "extend") /\ Kind[tok[b]] = "inject" => Settled(tok[b])'
      <3>1. pc[b] \in {"find", "write"} => Holds(b)
        BY Zenon, <2>1 DEF CallInv, RouteInv, Holds
      <3> QED
        BY Zenon, <1>3, <2>1, <3>1 DEF CallInv
    <2> QED
      BY ZenonT(60), <2>1, <2>2, <2>3, <2>4, <2>5, <2>6, <2>7
         DEF CallInv, Seen, Parked, Settled, KeyOf
  <1> QED
    BY Zenon, <1>1, <1>2, <1>3, <1>4

\* A call that writes no record.
LEMMA ReadStep ==
  ASSUME PInv, NEW a \in Actors, Alone(a), Reads, CallInv(a)', HushedInv'
  PROVE  PInv'
  <1> USE OpsAssumption DEF Actors
  <1>1. \A t \in Ops : Seen(t) => Seen(t)'
    BY Zenon DEF Reads, Seen
  <1>2. LocalTypes' /\ StoreTypes'
    BY ZenonT(60) DEF Alone, Reads, PInv, LocalTypes, StoreTypes
  <1>3. GateInv'
    BY Zenon, <1>1, AloneStep DEF PInv, GateInv, Reads, Written
  <1>4. ParkInv'
    BY Zenon, <1>1, AloneStep DEF PInv, ParkInv, Reads
  <1> QED
    BY Zenon, <1>1, <1>2, <1>3, <1>4, AloneStep DEF PInv

\* A step that lets no turn loose, and brings back no gate record but one that
\* was replaced before.
LEMMA CalmStep ==
  ASSUME PInv, IInv, NEW a \in Actors, Alone(a), Calm(a),
         spent \subseteq spent', replaced \subseteq replaced',
         \A o \in Ops : Swept(o)' /\ rec'[Gate].token = o => rec[Gate].token = o \/ o \in replaced
  PROVE  HushedInv'
  <1> USE OpsAssumption DEF Actors
  <1>1. ASSUME NEW b \in Actors, Unstopped(b)' PROVE Unstopped(b)
    BY Zenon, <1>1 DEF Unstopped, Alone, Calm
  <1>2. ASSUME NEW o \in Ops, Swept(o)' PROVE Swept(o)
    BY Zenon, <1>2 DEF Swept, Succeeded, Alone, Calm, Is
  <1> QED
    BY Zenon, <1>1, <1>2 DEF HushedInv, PInv

\* Both at once, for the steps that only read.
LEMMA CalmRead ==
  ASSUME PInv, IInv, NEW a \in Actors, Alone(a), Reads, CallInv(a)', Calm(a)
  PROVE  PInv'
  <1>1. HushedInv'
    BY CalmStep DEF Reads
  <1> QED
    BY <1>1, ReadStep

\* A step that moves one call and touches nothing but its result.
Jump(a) ==
  /\ pc' = [pc EXCEPT ![a] = pc'[a]] /\ res' = [res EXCEPT ![a] = res'[a]]
  /\ pc[a] \notin {"sweep", "push", "done"}
  /\ pc[a] = "leave" /\ Is(a, "inject") => pc'[a] = "done"
  /\ UNCHANGED <<rec, aborted, pending, answered, cut, tok, snap, spent, replaced, now>>

\* Where a call returns to.
Home(a) == IF a = Timer THEN "new" ELSE "done"

\* A call that moves to another point and changes nothing others rely on.
LEMMA JumpStep ==
  ASSUME IInv, PInv, NEW a \in Actors, Jump(a), CallInv(a)',
         pc'[a] \in {"running", "mint"} => pc[a] \in {"running", "mint"},
         ~Is(a, "hardpause") \/ pc'[a] \notin {"push", "done"} \/ (pc'[a] = "done" /\ res'[a] = "err")
  PROVE  PInv'
  <1>1. Alone(a)
    BY DEF IInv, ShapeInv, PInv, LocalTypes, StoreTypes, Jump, Alone, Actors
  <1>2. Calm(a)
    BY DEF Jump, Calm
  <1>3. Reads
    BY DEF Jump, Reads
  <1> QED
    BY <1>1, <1>2, <1>3, CalmRead

\* What a call relied on stands while it moves.
LEMMA JumpKeeps ==
  ASSUME IInv, PInv, NEW a \in Actors, Jump(a)
  PROVE  /\ tok'[a] = tok[a] /\ snap'[a] = snap[a]
         /\ \A t \in Ops : Kind[t] = "inject" /\ Parked(t) => Parked(t)'
         /\ \A t \in Ops : (Settled(t) => Settled(t)') /\ (Seen(t) => Seen(t)')
  <1>1. tok'[a] = tok[a] /\ snap'[a] = snap[a]
    BY DEF Jump
  <1>2. \A t \in Ops : Kind[t] = "inject" /\ Parked(t) => Parked(t)'
    <2> SUFFICES ASSUME NEW t \in Ops, Kind[t] = "inject", Parked(t) PROVE Parked(t)'
      OBVIOUS
    <2>1. CASE t = a
      BY Zenon, <2>1, OpsAssumption DEF Jump, Parked, Actors, Is
    <2>2. CASE t # a
      BY <2>2 DEF Jump, IInv, ShapeInv, Parked, Actors
    <2> QED
      BY <2>1, <2>2
  <1>3. \A t \in Ops : Settled(t) => Settled(t)'
    BY DEF Jump, Settled
  <1>4. \A t \in Ops : Seen(t) => Seen(t)'
    BY DEF Jump, Seen
  <1> QED
    BY <1>1, <1>2, <1>3, <1>4

\* A call that has returned owes nothing.
LEMMA HomeCall ==
  ASSUME NEW a \in Actors, pc'[a] = Home(a)
  PROVE  CallInv(a)'
  BY DEF CallInv, RouteInv, Holds, Home

\* A call that returns keeps what the others rely on.
LEMMA HomeStep ==
  ASSUME IInv, PInv, NEW a \in Actors, Jump(a), pc'[a] = Home(a), ~Is(a, "hardpause") \/ res'[a] = "err"
  PROVE  PInv'
  <1>1. pc'[a] \notin {"running", "mint", "push"}
    BY DEF Home
  <1> QED
    BY <1>1, HomeCall, JumpStep

\* The record a token is looked up by belongs to a turn that parked.
LEMMA ResolvesParked ==
  ASSUME PInv, NEW t \in Ops, Resolves(t), Kind[t] = "inject"
  PROVE  Parked(t)
  BY Zenon, OpsAssumption DEF PInv, ParkInv, Resolves, KeyOf, Actors

\* The expiry a pause writes is a time.
LEMMA ExpiryType == ASSUME PInv PROVE now + TTL \in Nat
  <1>1. now \in Nat /\ TTL \in Nat
    BY Zenon, OpsAssumption DEF PInv, LocalTypes
  <1> QED
    BY ONLY <1>1

\* Every step of a call or of the timer that writes no record and runs no new
\* turn keeps PInv.
LEMMA ReadingSteps ==
  ASSUME "" \notin AbortReasons, IInv, PInv,
         \/ \E a \in Actors :
              \/ ResumeInterrupt(a) \/ PostCheck(a) \/ Find(a) \/ StoreFault(a)
              \/ TurnLeave(a) \/ AnswerRun(a)
         \/ \E o \in Ops :
              \/ InjectStart(o) \/ ResumeStart(o) \/ AnswerStart(o) \/ ExtendStart(o)
              \/ PauseCheck(o) \/ PauseRead(o) \/ Push(o) \/ AbortRead(o) \/ TimerPop(o)
         \/ TimerFetch
  PROVE  PInv'
  <1> USE OpsAssumption DEF Actors, disk, proc, locals, history
  <1>1. ASSUME NEW a \in Actors, ResumeInterrupt(a) PROVE PInv'
    <2>1. /\ Jump(a) /\ pc[a] = "resume" /\ pc'[a] \in {"done", "postcheck", "queued"}
          /\ pc'[a] = "postcheck" => ~Is(a, "inject") /\ ~Is(a, "answer")
          /\ pc'[a] = "done" => Is(a, "inject") \/ Is(a, "answer")
      <3>1. CASE aborted
        BY Zenon, <1>1, <3>1
           DEF ResumeInterrupt, Goto, Report, AfterTurn, Jump, IInv, ShapeInv
      <3>2. CASE ~aborted
        BY ZenonT(60), <1>1, <3>2 DEF ResumeInterrupt, Goto, AfterTurn, Jump, IInv, ShapeInv
      <3> QED
        BY Zenon, <3>1, <3>2
    <2>2. Holds(a) /\ CallInv(a)
      BY ZenonT(60), <2>1 DEF PInv, CallInv, RouteInv, Holds
    <2>3. RouteInv(a)'
      BY ZenonT(60), <2>1, <2>2 DEF CallInv, RouteInv, Is, Jump
    <2>4. CallInv(a)'
      BY Zenon, <2>1, <2>2, <2>3, JumpKeeps DEF CallInv
    <2>5. ~Is(a, "hardpause")
      BY ZenonT(60), <2>2 DEF Is, Holds
    <2> QED
      BY ZenonT(60), <2>1, <2>4, <2>5, JumpStep
  <1>2. ASSUME NEW a \in Actors, PostCheck(a) PROVE PInv'
    <2>1. /\ Holds(a) /\ CallInv(a) /\ ~Is(a, "hardpause") /\ ~Is(a, "answer") /\ ~Is(a, "extend")
          /\ pc[a] = "postcheck" /\ tok[a] \in Ops
      BY ZenonT(60), <1>2 DEF PostCheck, PInv, CallInv, RouteInv, Holds, Is
    <2>2. CASE tok[a] \in pending /\ ~aborted
      <3>1. Return(a, res[a])
        BY ZenonT(60), <1>2, <2>2 DEF PostCheck
      <3>2. Jump(a) /\ pc'[a] = Home(a)
        BY ZenonT(60), <1>2, <2>1, <3>1
           DEF PostCheck, Return, Goto, Report, Jump, Home, IInv, ShapeInv
      <3> QED
        BY ZenonT(60), <2>1, <3>2, HomeStep
    <2>3. CASE ~(tok[a] \in pending /\ ~aborted)
      <3>1. Goto(a, "find") /\ res' = res
        BY ZenonT(60), <1>2, <2>3 DEF PostCheck
      <3>2. Jump(a) /\ pc'[a] = "find"
        BY ZenonT(60), <1>2, <2>1, <3>1 DEF PostCheck, Goto, Jump, IInv, ShapeInv
      <3>3. RouteInv(a)'
        BY ZenonT(60), <2>1, <3>2 DEF CallInv, RouteInv, Is
      <3>4. Kind[tok[a]] = "inject" => Settled(tok[a])
        BY ZenonT(60), <2>1, <2>3 DEF CallInv, Parked, Settled
      <3>5. CallInv(a)'
        BY Zenon, <2>1, <3>2, <3>3, <3>4, JumpKeeps DEF CallInv
      <3> QED
        BY Zenon, <2>1, <3>2, <3>5, JumpStep
    <2> QED
      BY ZenonT(60), <2>2, <2>3
  <1>3. ASSUME NEW a \in Actors, Find(a) PROVE PInv'
    <2>1. /\ Holds(a) /\ CallInv(a) /\ ~Is(a, "hardpause") /\ ~Is(a, "answer")
          /\ pc[a] = "find" /\ tok[a] \in Ops
      BY ZenonT(60), <1>3 DEF Find, PInv, CallInv, RouteInv, Holds, Is
    <2> DEFINE r == rec[KeyOf(tok[a])]
    <2>2. CASE snap' = snap /\ \E s : Return(a, s)
      <3>1. Jump(a) /\ pc'[a] = Home(a)
        BY Zenon, <1>3, <2>1, <2>2
           DEF Find, Return, Goto, Report, Jump, Home, IInv, ShapeInv
      <3> QED
        BY ZenonT(60), <2>1, <3>1, HomeStep
    <2>3. CASE /\ Resolves(tok[a]) /\ ~r.consumed /\ Goto(a, "write") /\ res' = res
               /\ snap' = [snap EXCEPT ![a] = IF Is(a, "extend") THEN [r EXCEPT !.expires = now + TTL]
                                                                 ELSE [r EXCEPT !.consumed = TRUE]]
      <3>1. r \in Records /\ r.token = tok[a]
        BY Zenon, <2>1, <2>3 DEF Resolves, KeyOf, Keys, PInv, StoreTypes
      <3>2. [r EXCEPT !.expires = now + TTL] \in Records /\ [r EXCEPT !.consumed = TRUE] \in Records
        BY ZenonT(60), <3>1, ExpiryType DEF Records
      <3>3. PICK s \in Records : /\ snap' = [snap EXCEPT ![a] = s] /\ s.token = tok[a]
                                 /\ Is(a, "extend") => ~s.consumed
        <4>1. CASE Is(a, "extend")
          BY Zenon, <2>3, <3>1, <3>2, <4>1 DEF Records
        <4>2. CASE ~Is(a, "extend")
          BY ZenonT(60), <2>3, <3>1, <3>2, <4>2 DEF Records
        <4> QED
          BY Zenon, <4>1, <4>2
      <3>4. /\ pc' = [pc EXCEPT ![a] = "write"] /\ res' = res
            /\ UNCHANGED <<rec, aborted, pending, answered, cut, tok, spent, replaced, now>>
        BY ZenonT(60), <1>3, <2>3 DEF Find, Goto
      <3>5. Alone(a) /\ Reads /\ Calm(a)
        BY ZenonT(60), <2>1, <3>3, <3>4
           DEF Alone, Reads, Calm, PInv, LocalTypes, StoreTypes, IInv, ShapeInv
      <3>6. /\ pc'[a] = "write" /\ tok'[a] = tok[a] /\ snap'[a] = s /\ RouteInv(a)'
        BY ZenonT(60), <2>1, <3>3, <3>4
           DEF PInv, LocalTypes, IInv, ShapeInv, CallInv, RouteInv
      <3>7. KeyOf(tok[a]) = Gate => Seen(tok[a])'
        BY ZenonT(60), <3>1, <3>4 DEF Seen
      <3>8. Kind[tok[a]] = "inject" => Parked(tok[a])' /\ (~Is(a, "extend") => Settled(tok[a])')
        <4>1. Kind[tok[a]] = "inject" => Parked(tok[a])'
          BY ZenonT(60), <2>1, <3>4 DEF CallInv, Parked, IInv, ShapeInv
        <4>2. Kind[tok[a]] = "inject" /\ ~Is(a, "extend") => Settled(tok[a])'
          BY ZenonT(60), <2>1, <3>4 DEF CallInv, Settled
        <4> QED
          BY ZenonT(60), <4>1, <4>2
      <3>9. CallInv(a)'
        BY ZenonT(60), <2>1, <3>3, <3>4, <3>6, <3>7, <3>8
           DEF CallInv, KeyOf, Seen, Parked, Settled
      <3> QED
        BY Zenon, <3>5, <3>9, CalmRead
    <2> QED
      BY ZenonT(60), <1>3, <2>2, <2>3 DEF Find
  <1>4. ASSUME NEW a \in Actors, StoreFault(a) PROVE PInv'
    <2>1. /\ Jump(a) /\ pc'[a] = Home(a) /\ CallInv(a)
          /\ pc[a] \in {"postcheck", "find", "write", "writegate", "writeabort", "fetch"}
      BY Zenon, <1>4 DEF StoreFault, Return, Goto, Report, Jump, Home, IInv, ShapeInv, PInv
    <2>2. ~Is(a, "hardpause") \/ res'[a] = "err"
      BY Zenon, <1>4, <2>1
         DEF StoreFault, Return, Report, CallInv, RouteInv, Is, IsPause, IInv, ShapeInv
    <2> QED
      BY Zenon, <2>1, <2>2, HomeStep
  <1>5. ASSUME NEW a \in Actors, TurnLeave(a) PROVE PInv'
    <2>1. /\ Jump(a) /\ pc[a] = "leave" /\ CallInv(a)
          /\ pc'[a] = AfterTurn(a)
      BY ZenonT(60), <1>5 DEF TurnLeave, Goto, Jump, AfterTurn, IInv, ShapeInv, PInv
    <2>2. CASE pc'[a] = "done"
      BY ZenonT(60), <2>1, <2>2, HomeStep DEF Home, AfterTurn, CallInv, RouteInv, Is
    <2>3. CASE pc'[a] = "postcheck" /\ ~Is(a, "inject") /\ ~Is(a, "answer")
      <3>1. Holds(a) /\ RouteInv(a)' /\ ~Is(a, "hardpause")
        BY ZenonT(60), <2>1, <2>3 DEF CallInv, RouteInv, Is, Holds
      <3>2. CallInv(a)'
        BY Zenon, <2>1, <2>3, <3>1, JumpKeeps DEF CallInv
      <3> QED
        BY ZenonT(60), <2>1, <2>3, <3>1, <3>2, JumpStep
    <2> QED
      BY Zenon, <2>1, <2>2, <2>3 DEF AfterTurn
  <1>6. ASSUME NEW a \in Actors, AnswerRun(a) PROVE PInv'
    <2>1. /\ pc[a] = "running" /\ ~Is(a, "inject") /\ CallInv(a) /\ Holds(a) /\ ~Is(a, "hardpause")
          /\ tok[a] \in Ops
      BY ZenonT(60), <1>6 DEF AnswerRun, PInv, CallInv, RouteInv, Holds, Is
    <2>2. PICK s : res' = [res EXCEPT ![a] = s]
      BY ZenonT(60), <1>6 DEF AnswerRun, Report
    <2>3. /\ pc' = [pc EXCEPT ![a] = "leave"]
          /\ UNCHANGED <<rec, aborted, cut, tok, snap, spent, replaced, now>>
      BY ZenonT(60), <1>6 DEF AnswerRun, Goto
    <2>4. /\ pending' \subseteq Ops /\ answered' \subseteq Ops /\ answered \subseteq answered'
          /\ pending \cup answered \subseteq pending' \cup answered'
      BY Zenon, <1>6, <2>1 DEF AnswerRun, PInv, StoreTypes
    <2>5. Alone(a) /\ Reads /\ Calm(a)
      BY ZenonT(60), <2>1, <2>2, <2>3, <2>4
         DEF Alone, Reads, Calm, PInv, LocalTypes, IInv, ShapeInv
    <2>6. pc'[a] = "leave" /\ RouteInv(a)' /\ tok'[a] = tok[a]
      BY ZenonT(60), <2>1, <2>3 DEF CallInv, RouteInv, IInv, ShapeInv, Is
    <2>7. Kind[tok[a]] = "inject" /\ ~Is(a, "answer") => Parked(tok[a])'
      BY ZenonT(60), <2>1, <2>3, <2>4 DEF CallInv, Parked, IInv, ShapeInv
    <2>8. CallInv(a)'
      BY ZenonT(60), <2>1, <2>6, <2>7 DEF CallInv, Parked
    <2> QED
      BY ZenonT(60), <2>5, <2>8, CalmRead
  <1>7. ASSUME NEW o \in Ops, InjectStart(o) PROVE PInv'
    <2>1. Jump(o) /\ pc'[o] = "queued" /\ Kind[o] = "inject" /\ o # Timer
      BY ZenonT(60), <1>7 DEF InjectStart, Goto, Jump, Is, IInv, ShapeInv
    <2>2. CallInv(o)'
      BY Zenon, <2>1 DEF CallInv, RouteInv, Holds
    <2> QED
      BY Zenon, <2>1, <2>2, JumpStep DEF Is
  <1>8. ASSUME NEW o \in Ops, ResumeStart(o) PROVE PInv'
    <2>1. PICK t \in Ops :
            /\ Resolves(t) /\ tok' = [tok EXCEPT ![o] = t]
            /\ pc'[o] \in {"done", "find", "resume"}
            /\ pc'[o] = "find" => KeyOf(t) = Gate
      BY ZenonT(60), <1>8 DEF ResumeStart, Goto, IInv, ShapeInv
    <2>2. /\ pc[o] = "new" /\ Kind[o] = "resume" /\ o # Timer /\ pc' = [pc EXCEPT ![o] = pc'[o]]
          /\ UNCHANGED <<rec, aborted, pending, answered, cut, res, snap, spent, replaced, now>>
      BY ZenonT(60), <1>8 DEF ResumeStart, Goto, IInv, ShapeInv
    <2>3. Alone(o) /\ Reads /\ Calm(o)
      BY Zenon, <2>1, <2>2
         DEF Alone, Reads, Calm, Is, PInv, LocalTypes, StoreTypes, IInv, ShapeInv
    <2>4. Kind[t] = "inject" => Parked(t)' /\ pc'[o] # "find"
      BY ZenonT(60), <2>1, <2>2, ResolvesParked DEF Parked, KeyOf, IInv, ShapeInv
    <2>5. tok'[o] = t /\ RouteInv(o)'
      BY ZenonT(60), <2>1, <2>2 DEF RouteInv, PInv, LocalTypes
    <2>6. CallInv(o)'
      BY Zenon, <2>1, <2>2, <2>4, <2>5 DEF CallInv, Parked
    <2> QED
      BY ZenonT(60), <2>3, <2>6, CalmRead
  <1>9. ASSUME NEW o \in Ops, AnswerStart(o) PROVE PInv'
    <2>1. PICK t \in Ops : tok' = [tok EXCEPT ![o] = t]
      BY Zenon, <1>9 DEF AnswerStart, PInv, StoreTypes
    <2>2. /\ pc[o] = "new" /\ Kind[o] = "answer" /\ o # Timer /\ pc' = [pc EXCEPT ![o] = "resume"]
          /\ UNCHANGED <<rec, aborted, pending, answered, cut, res, snap, spent, replaced, now>>
      BY Zenon, <1>9 DEF AnswerStart, Goto
    <2>3. Alone(o) /\ Reads /\ Calm(o)
      BY Zenon, <2>1, <2>2
         DEF Alone, Reads, Calm, Is, PInv, LocalTypes, StoreTypes, IInv, ShapeInv
    <2>4. tok'[o] = t /\ pc'[o] = "resume" /\ RouteInv(o)'
      BY ZenonT(60), <2>1, <2>2 DEF RouteInv, PInv, LocalTypes, IInv, ShapeInv
    <2>5. CallInv(o)'
      BY Zenon, <2>2, <2>4 DEF CallInv, Is
    <2> QED
      BY ZenonT(60), <2>3, <2>5, CalmRead
  <1>10. ASSUME NEW o \in Ops, ExtendStart(o) PROVE PInv'
    <2>1. PICK t \in Ops : Resolves(t) /\ tok' = [tok EXCEPT ![o] = t]
      BY Zenon, <1>10 DEF ExtendStart
    <2>2. /\ pc[o] = "new" /\ Kind[o] = "extend" /\ o # Timer /\ pc' = [pc EXCEPT ![o] = "find"]
          /\ UNCHANGED <<rec, aborted, pending, answered, cut, res, snap, spent, replaced, now>>
      BY ZenonT(60), <1>10 DEF ExtendStart, Goto
    <2>3. Alone(o) /\ Reads /\ Calm(o)
      BY ZenonT(60), <2>1, <2>2
         DEF Alone, Reads, Calm, Is, PInv, LocalTypes, StoreTypes, IInv, ShapeInv
    <2>4. Kind[t] = "inject" => Parked(t)'
      BY ZenonT(60), <2>1, <2>2, ResolvesParked DEF Parked, IInv, ShapeInv
    <2>5. tok'[o] = t /\ pc'[o] = "find" /\ RouteInv(o)'
      BY ZenonT(60), <2>1, <2>2 DEF RouteInv, PInv, LocalTypes, IInv, ShapeInv
    <2>6. CallInv(o)'
      BY Zenon, <2>1, <2>2, <2>4, <2>5 DEF CallInv, Parked, Is
    <2> QED
      BY ZenonT(60), <2>3, <2>6, CalmRead
  <1>11. ASSUME NEW o \in Ops, PauseCheck(o) PROVE PInv'
    <2>1. CASE aborted
      <3>1. Jump(o) /\ pc'[o] = Home(o) /\ res'[o] = "err"
        BY ZenonT(60), <1>11, <2>1
           DEF PauseCheck, Return, Goto, Report, Jump, Home, IInv, ShapeInv
      <3> QED
        BY ZenonT(60), <3>1, HomeStep
    <2>2. CASE ~aborted
      <3>1. Jump(o) /\ pc'[o] = "read" /\ IsPause(o)
        BY ZenonT(60), <1>11, <2>2 DEF PauseCheck, Goto, Jump, IInv, ShapeInv
      <3>2. CallInv(o)'
        BY Zenon, <3>1 DEF CallInv, RouteInv, Holds, IsPause
      <3> QED
        BY ZenonT(60), <3>1, <3>2, JumpStep
    <2> QED
      BY ZenonT(60), <2>1, <2>2
  <1>12. ASSUME NEW o \in Ops, PauseRead(o) PROVE PInv'
    <2>1. PICK at \in ResumeTimes :
            snap' = [snap EXCEPT ![o] = IF Active(rec[Gate]) THEN [rec[Gate] EXCEPT !.resumeAt = at]
                                                             ELSE Minted(o, at)]
      BY Zenon, <1>12 DEF PauseRead
    <2>2. /\ pc[o] = "read" /\ pc' = [pc EXCEPT ![o] = "writegate"] /\ IsPause(o) /\ o # Timer
          /\ UNCHANGED <<rec, aborted, pending, answered, cut, tok, res, spent, replaced, now>>
      BY ZenonT(60), <1>12 DEF PauseRead, Goto, PInv, CallInv, RouteInv
    <2>3. PICK s \in Records : /\ snap' = [snap EXCEPT ![o] = s] /\ ~s.consumed /\ s.token \in Ops
                               /\ s.token = o \/ s.token = rec[Gate].token
      <3>1. rec[Gate] \in Records /\ at \in Nat
        BY Zenon DEF PInv, StoreTypes, Keys
      <3>2. CASE Active(rec[Gate])
        <4>1. [rec[Gate] EXCEPT !.resumeAt = at] \in Records
          BY Zenon, <3>1 DEF Records
        <4>2. /\ ~[rec[Gate] EXCEPT !.resumeAt = at].consumed
              /\ [rec[Gate] EXCEPT !.resumeAt = at].token = rec[Gate].token /\ rec[Gate].token \in Ops
          BY Zenon, <3>1, <3>2 DEF Records, Active
        <4> QED
          BY Zenon, <2>1, <3>2, <4>1, <4>2
      <3>3. CASE ~Active(rec[Gate])
        <4>1. Minted(o, at) \in Records /\ ~Minted(o, at).consumed /\ Minted(o, at).token = o
          BY ZenonT(60), <3>1, ExpiryType DEF Minted, Records
        <4> QED
          BY ZenonT(60), <2>1, <3>3, <4>1
      <3> QED
        BY Zenon, <3>2, <3>3
    <2>4. Alone(o) /\ Reads /\ Calm(o)
      BY ZenonT(60), <2>2, <2>3
         DEF Alone, Reads, Calm, Is, PInv, LocalTypes, StoreTypes, IInv, ShapeInv
    <2>5. pc'[o] = "writegate" /\ snap'[o] = s /\ RouteInv(o)' /\ ~Holds(o)'
      BY ZenonT(60), <2>2, <2>3
         DEF RouteInv, IsPause, Holds, PInv, LocalTypes, IInv, ShapeInv
    <2>6. s.token = o \/ Seen(s.token)'
      BY ZenonT(60), <2>2, <2>3 DEF Seen
    <2>7. CallInv(o)'
      BY ZenonT(60), <2>3, <2>5, <2>6 DEF CallInv, Seen
    <2> QED
      BY Zenon, <2>4, <2>7, CalmRead
  <1>13. ASSUME NEW o \in Ops, Push(o) PROVE PInv'
    <2>1. /\ pc[o] = "push" /\ pc' = [pc EXCEPT ![o] = "done"] /\ IsPause(o) /\ o # Timer
          /\ UNCHANGED <<rec, aborted, pending, answered, cut, tok, snap, res, spent, replaced, now>>
      BY ZenonT(60), <1>13 DEF Push, Goto, PInv, CallInv, RouteInv
    <2>2. Alone(o) /\ Reads /\ Calm(o) /\ pc'[o] = Home(o)
      BY Zenon, <2>1
         DEF Alone, Reads, Calm, Is, IsPause, Home, PInv, LocalTypes, StoreTypes, IInv,
             ShapeInv
    <2> QED
      BY ZenonT(60), <2>2, HomeCall, CalmRead
  <1>14. ASSUME NEW o \in Ops, AbortRead(o) PROVE PInv'
    <2>1. CASE aborted
      <3>1. Jump(o) /\ pc'[o] = Home(o) /\ res'[o] = "err"
        BY ZenonT(60), <1>14, <2>1
           DEF AbortRead, Return, Goto, Report, Jump, Home, IInv, ShapeInv
      <3> QED
        BY ZenonT(60), <3>1, HomeStep
    <2>2. CASE ~aborted
      <3>1. Jump(o) /\ pc'[o] = "writeabort" /\ Kind[o] = "abort"
        BY ZenonT(60), <1>14, <2>2 DEF AbortRead, Goto, Jump, IInv, ShapeInv
      <3>2. CallInv(o)'
        BY Zenon, <3>1 DEF CallInv, RouteInv, Holds
      <3> QED
        BY ZenonT(60), <3>1, <3>2, JumpStep
    <2> QED
      BY ZenonT(60), <2>1, <2>2
  <1>15. ASSUME NEW o \in Ops, TimerPop(o) PROVE PInv'
    <2>1. /\ pc[Timer] = "new" /\ pc' = [pc EXCEPT ![Timer] = "fetch"] /\ tok' = [tok EXCEPT ![Timer] = o]
          /\ UNCHANGED <<rec, aborted, pending, answered, cut, snap, res, spent, replaced, now>>
      BY ZenonT(60), <1>15 DEF TimerPop, Goto
    <2>2. Alone(Timer) /\ Reads /\ Calm(Timer)
      BY ZenonT(60), <2>1
         DEF Alone, Reads, Calm, Is, PInv, LocalTypes, StoreTypes, IInv, ShapeInv
    <2>3. tok'[Timer] = o /\ pc'[Timer] = "fetch" /\ RouteInv(Timer)'
      BY ZenonT(60), <2>1 DEF RouteInv, PInv, LocalTypes, IInv, ShapeInv
    <2>4. CallInv(Timer)'
      BY ZenonT(60), <2>3 DEF CallInv
    <2> QED
      BY ZenonT(60), <2>2, <2>4, CalmRead
  <1>16. CASE TimerFetch
    <2>1. /\ pc[Timer] = "fetch" /\ tok[Timer] \in Ops /\ ~Is(Timer, "hardpause") /\ Jump(Timer)
          /\ pc'[Timer] \in {"new", "find", "resume"}
          /\ pc'[Timer] # "new" => Resolves(tok[Timer])
          /\ pc'[Timer] = "find" => KeyOf(tok[Timer]) = Gate
      <3>1. pc[Timer] = "fetch" /\ tok[Timer] \in Ops /\ ~Is(Timer, "hardpause")
        BY ZenonT(60), <1>16 DEF TimerFetch, PInv, CallInv, Holds, Is
      <3>2. UNCHANGED <<rec, aborted, pending, answered, cut, tok, snap, spent, replaced, now>>
        BY Zenon, <1>16 DEF TimerFetch
      <3>3. res' = [res EXCEPT ![Timer] = res'[Timer]]
        BY ZenonT(60), <1>16 DEF TimerFetch, Report, IInv, ShapeInv
      <3>4. /\ pc' = [pc EXCEPT ![Timer] = pc'[Timer]] /\ pc'[Timer] \in {"new", "find", "resume"}
            /\ pc'[Timer] # "new" => Resolves(tok[Timer])
            /\ pc'[Timer] = "find" => KeyOf(tok[Timer]) = Gate
        BY ZenonT(60), <1>16 DEF TimerFetch, Goto, IInv, ShapeInv
      <3> QED
        BY ZenonT(60), <3>1, <3>2, <3>3, <3>4 DEF Jump
    <2>2. CASE pc'[Timer] = "new"
      BY ZenonT(60), <2>1, <2>2, HomeStep DEF Home
    <2>3. CASE pc'[Timer] # "new"
      <3>1. Kind[tok[Timer]] = "inject" => Parked(tok[Timer])' /\ pc'[Timer] # "find"
        BY ZenonT(60), <2>1, <2>3, ResolvesParked, JumpKeeps DEF KeyOf
      <3>2. RouteInv(Timer)' /\ tok'[Timer] = tok[Timer]
        BY ZenonT(60), <2>1, JumpKeeps DEF RouteInv
      <3>3. CallInv(Timer)'
        BY Zenon, <2>1, <3>1, <3>2 DEF CallInv, Parked
      <3> QED
        BY ZenonT(60), <2>1, <3>3, JumpStep
    <2> QED
      BY ZenonT(60), <2>2, <2>3
  <1> QED
    BY ZenonT(60), <1>1, <1>2, <1>3, <1>4, <1>5, <1>6, <1>7, <1>8, <1>9, <1>10, <1>11,
       <1>12, <1>13,
       <1>14, <1>15, <1>16

\* Every step of every call and of the timer keeps PInv.
LEMMA NextPInv ==
  ASSUME "" \notin AbortReasons, IInv, PInv, [Next]_vars
  PROVE  PInv'
  <1> USE OpsAssumption DEF Actors, disk, proc, locals, history
  <1>1. ASSUME NEW a \in Actors, TurnLock(a) PROVE PInv'
    <2>1. /\ pc[a] = "queued" /\ CallInv(a) /\ ~Is(a, "hardpause") /\ (Is(a, "inject") \/ Holds(a))
      BY Zenon, <1>1 DEF TurnLock, PInv, CallInv, RouteInv, Holds, Is
    <2>2. CASE cut' = cut \ {a} /\ Goto(a, "check") /\ UNCHANGED res
      <3>1. /\ pc' = [pc EXCEPT ![a] = "check"]
            /\ UNCHANGED <<rec, aborted, pending, answered, tok, snap, res, spent, replaced, now>>
        BY Zenon, <1>1, <2>2 DEF TurnLock, Goto
      <3>2. Alone(a) /\ Reads
        BY Zenon, <2>1, <3>1 DEF Alone, Reads, PInv, LocalTypes, StoreTypes, IInv, ShapeInv
      <3>3. pc'[a] = "check" /\ tok'[a] = tok[a] /\ RouteInv(a)'
        BY Zenon, <2>1, <3>1 DEF CallInv, RouteInv, IInv, ShapeInv
      <3>4. tok[a] \in Ops /\ Parked(tok[a]) => Parked(tok[a])'
        BY Zenon, <2>1, <3>1 DEF Parked, IInv, ShapeInv
      <3>5. CallInv(a)'
        BY Zenon, <2>1, <3>3, <3>4 DEF CallInv, Holds, Is, Parked
      <3>6. HushedInv'
        <4>1. ASSUME NEW b \in Actors, Unstopped(b)' PROVE Unstopped(b)
          BY Zenon, <2>2, <3>1, <4>1 DEF Unstopped, IInv, ShapeInv
        <4>2. ASSUME NEW o \in Ops, Swept(o)' PROVE Swept(o)
          BY Zenon, <2>1, <3>1, <4>2 DEF Swept, Succeeded, IInv, ShapeInv
        <4> QED
          BY Zenon, <3>1, <4>1, <4>2 DEF HushedInv, PInv
      <3> QED
        BY Zenon, <3>2, <3>5, <3>6, ReadStep
    <2>3. CASE Goto(a, AfterTurn(a)) /\ Report(a, "err") /\ UNCHANGED proc
      <3>1. /\ Jump(a) /\ pc'[a] \in {"done", "postcheck"}
            /\ pc'[a] = "postcheck" => ~Is(a, "inject") /\ ~Is(a, "answer")
            /\ pc'[a] = "done" => Is(a, "inject") \/ Is(a, "answer")
        BY Zenon, <1>1, <2>1, <2>3
           DEF TurnLock, Goto, Report, AfterTurn, Jump, IInv, ShapeInv
      <3>2. RouteInv(a)'
        BY Zenon, <2>1, <3>1 DEF CallInv, RouteInv, Is
      <3>3. CallInv(a)'
        BY Zenon, <2>1, <3>1, <3>2, JumpKeeps DEF CallInv, Holds, Is
      <3> QED
        BY Zenon, <2>1, <3>1, <3>3, JumpStep
    <2> QED
      BY Zenon, <1>1, <2>2, <2>3 DEF TurnLock
  <1>2. ASSUME NEW a \in Actors, TurnCheck(a) PROVE PInv'
    <2>1. pc[a] = "check" /\ CallInv(a) /\ ~Is(a, "hardpause") /\ (Is(a, "inject") \/ Holds(a))
      BY Zenon, <1>2 DEF TurnCheck, PInv, CallInv, RouteInv, Holds, Is
    <2>2. CASE Goto(a, "leave") /\ Report(a, "err")
      <3>1. Jump(a) /\ pc'[a] = "leave"
        BY Zenon, <1>2, <2>1, <2>2 DEF TurnCheck, Goto, Report, Jump, IInv, ShapeInv
      <3>2. RouteInv(a)'
        BY Zenon, <2>1, <3>1 DEF CallInv, RouteInv
      <3>3. CallInv(a)'
        BY Zenon, <2>1, <3>1, <3>2, JumpKeeps DEF CallInv, Holds, Is
      <3> QED
        BY Zenon, <2>1, <3>1, <3>3, JumpStep
    <2>3. CASE ~Active(rec[Gate]) /\ Goto(a, "running") /\ Report(a, "ok")
      <3>1. Jump(a) /\ pc'[a] = "running" /\ Alone(a) /\ Reads
        BY Zenon, <1>2, <2>1, <2>3
           DEF TurnCheck, Goto, Report, Jump, Alone, Reads, PInv, LocalTypes, StoreTypes,
               IInv, ShapeInv
      <3>2. RouteInv(a)'
        BY ZenonT(60), <2>1, <3>1 DEF CallInv, RouteInv
      <3>3. CallInv(a)'
        BY Zenon, <2>1, <3>1, <3>2, JumpKeeps DEF CallInv, Holds, Is
      <3>4. \A o \in Ops : rec[Gate].token = o => o \in spent
        BY Zenon, <2>3 DEF Active, PInv, GateInv
      <3>5. HushedInv'
        BY Zenon, <3>1, <3>4 DEF HushedInv, Reads
      <3> QED
        BY Zenon, <3>1, <3>3, <3>5, ReadStep
    <2> QED
      BY Zenon, <1>2, <2>2, <2>3 DEF TurnCheck
  <1>3. ASSUME NEW o \in Ops, InjectRun(o) PROVE PInv'
    <2>1. /\ pc[o] = "running" /\ Kind[o] = "inject" /\ o # Timer
          /\ pc' = [pc EXCEPT ![o] = pc'[o]] /\ pc'[o] \in {"leave", "mint"}
          /\ pc'[o] = "mint" => o \in pending'
          /\ pending \subseteq pending' /\ pending' \subseteq Ops
          /\ UNCHANGED <<rec, aborted, answered, cut, tok, snap, res, spent, replaced, now>>
      BY Zenon, <1>3 DEF InjectRun, Goto, PInv, StoreTypes, IInv, ShapeInv
    <2>2. Alone(o) /\ Reads /\ Calm(o)
      BY ZenonT(60), <2>1
         DEF Alone, Reads, Calm, Is, PInv, LocalTypes, StoreTypes, IInv, ShapeInv
    <2>3. CallInv(o)'
      BY Zenon, <2>1 DEF CallInv, RouteInv, Holds
    <2> QED
      BY Zenon, <2>2, <2>3, CalmRead
  <1>4. ASSUME NEW o \in Ops, Mint(o) PROVE PInv'
    <2>1. /\ pc[o] = "mint" /\ Kind[o] = "inject" /\ o # Timer /\ o # Gate /\ pc' = [pc EXCEPT ![o] = "leave"]
          /\ o \in pending \cup answered
          /\ UNCHANGED <<aborted, answered, cut, tok, snap, res, spent, replaced, now>>
      BY Zenon, <1>4 DEF Mint, Goto, PInv, CallInv, RouteInv
    <2>2. PICK s \in Records : /\ rec' = [rec EXCEPT ![o] = s]
                               /\ s = rec[o] \/ (~s.consumed /\ pending' = pending)
                               /\ pending' \in {pending, pending \ {o}}
      <3>1. CASE \E at \in ResumeTimes : rec' = [rec EXCEPT ![o] = Minted(o, at)] /\ pending' = pending
        <4>1. PICK at \in ResumeTimes : rec' = [rec EXCEPT ![o] = Minted(o, at)] /\ pending' = pending
          BY Zenon, <3>1
        <4>2. Minted(o, at) \in Records /\ ~Minted(o, at).consumed
          BY Zenon, ExpiryType DEF Minted, Records
        <4> QED
          BY Zenon, <4>1, <4>2
      <3>2. CASE pending' \in {pending, pending \ {o}} /\ rec' = rec
        <4>1. rec[o] \in Records /\ rec' = [rec EXCEPT ![o] = rec[o]]
          BY Zenon, <3>2 DEF PInv, StoreTypes, Keys
        <4> QED
          BY Zenon, <3>2, <4>1
      <3> QED
        BY Zenon, <1>4, <3>1, <3>2 DEF Mint
    <2>3. Alone(o) /\ Calm(o)
      BY Zenon, <2>1, <2>2 DEF Alone, Calm, Is, PInv, LocalTypes, StoreTypes, IInv, ShapeInv
    <2>4. /\ rec'[Gate] = rec[Gate] /\ rec'[o] = s
          /\ \A k \in Keys : k # o => rec'[k] = rec[k]
      BY Zenon, <2>1, <2>2 DEF PInv, StoreTypes, Keys
    <2>5. \A t \in Ops : Seen(t) => Seen(t)'
      BY ZenonT(60), <2>1, <2>4 DEF Seen
    <2>6. CallInv(o)'
      BY ZenonT(60), <2>1 DEF CallInv, RouteInv, Holds, IInv, ShapeInv
    <2>7. LocalTypes' /\ StoreTypes'
      BY ZenonT(60), <2>1, <2>2, <2>3 DEF Alone, PInv, StoreTypes, LocalTypes
    <2>8. GateInv'
      BY Zenon, <2>1, <2>3, <2>4, <2>5, <2>6, AloneStep DEF PInv, GateInv, Written
    <2>9. ParkInv'
      <3>1. ASSUME NEW t \in Ops, Kind[t] = "inject", t # o
            PROVE  (rec'[t].token # None => Parked(t)') /\ (rec'[t].consumed => Settled(t)')
        BY Zenon, <2>3, <2>4, <2>5, <2>6, <3>1, AloneStep DEF PInv, ParkInv, Keys
      <3>2. ~Parked(o) /\ rec[o].token = None
        BY Zenon, <2>1 DEF PInv, ParkInv, Parked
      <3>3. rec'[o].token # None => Parked(o)'
        BY ZenonT(60), <2>1, <2>2, <2>4, <3>2 DEF Parked, IInv, ShapeInv
      <3>4. rec'[o].consumed => Settled(o)'
        BY Zenon, <2>1, <2>2, <2>3, <2>4, <2>5, <2>6, AloneStep DEF PInv, ParkInv
      <3> QED
        BY ZenonT(60), <2>1, <3>1, <3>3, <3>4 DEF ParkInv
    <2>10. HushedInv'
      BY Zenon, <2>1, <2>3, <2>4, CalmStep
    <2> QED
      BY ZenonT(60), <2>3, <2>5, <2>6, <2>7, <2>8, <2>9, <2>10, AloneStep DEF PInv
  <1>5. ASSUME NEW a \in Actors, WriteRecord(a) PROVE PInv'
    <2>1. /\ pc[a] = "write" /\ CallInv(a) /\ Holds(a) /\ ~Is(a, "hardpause") /\ ~Is(a, "inject") /\ ~Is(a, "answer")
          /\ tok[a] \in Ops /\ snap[a] \in Records /\ snap[a].token = tok[a]
          /\ KeyOf(tok[a]) \in Keys /\ rec[KeyOf(tok[a])] \in Records
      <3>1. /\ pc[a] = "write" /\ CallInv(a) /\ Holds(a) /\ ~Is(a, "hardpause") /\ ~Is(a, "inject") /\ ~Is(a, "answer")
            /\ tok[a] \in Ops /\ snap[a] \in Records /\ snap[a].token = tok[a]
        BY ZenonT(60), <1>5 DEF WriteRecord, PInv, LocalTypes, CallInv, RouteInv, Holds, Is
      <3> QED
        BY ZenonT(60), <3>1 DEF KeyOf, Keys, PInv, StoreTypes
    <2>2. /\ rec' = [rec EXCEPT ![KeyOf(tok[a])] = snap[a]] /\ pc'[a] = Home(a)
          /\ spent' = IF snap[a].consumed THEN spent \cup {tok[a]} ELSE spent
          /\ replaced' = replaced \cup ({rec[Gate].token} \ {rec'[Gate].token, None})
          /\ UNCHANGED <<aborted, pending, answered, cut, tok, snap, now>>
      BY ZenonT(60), <1>5 DEF WriteRecord, Replace, Return, Goto, Home, IInv, ShapeInv
    <2>3. Alone(a) /\ Calm(a)
      <3>1. pc' = [pc EXCEPT ![a] = Home(a)] /\ res' = [res EXCEPT ![a] = res[a]]
        BY ZenonT(60), <1>5 DEF WriteRecord, Return, Goto, Report, Home
      <3> QED
        BY Zenon, <2>1, <2>2, <3>1
           DEF Home, Alone, Calm, PInv, LocalTypes, StoreTypes, IInv, ShapeInv
    <2>4. /\ rec'[KeyOf(tok[a])] = snap[a]
          /\ \A k \in Keys : k # KeyOf(tok[a]) => rec'[k] = rec[k]
      BY ZenonT(60), <2>1, <2>2 DEF PInv, StoreTypes
    <2>5. rec[Gate] \in Records /\ rec'[Gate] \in Records /\ Gate \in Keys
      BY Zenon, <2>1, <2>4 DEF PInv, StoreTypes, Keys
    <2>6. \A t \in Ops : Seen(t) => Seen(t)'
      BY Zenon, <2>2 DEF Seen
    <2>7. CallInv(a)'
      BY ZenonT(60), <2>2, HomeCall
    <2>8. LocalTypes' /\ StoreTypes'
      BY ZenonT(60), <2>1, <2>2, <2>3, <2>5
         DEF Alone, PInv, StoreTypes, LocalTypes, Records
    <2>9. GateInv'
      <3>1. CASE KeyOf(tok[a]) = Gate
        <4>1. Written(tok[a])
          BY ZenonT(60), <2>1, <3>1 DEF CallInv, Seen, PInv, GateInv
        <4>2. \A t \in replaced' : Written(t)
          BY Zenon, <2>2, <2>5 DEF PInv, GateInv
        <4>3. rec'[Gate].token = tok[a] /\ (rec'[Gate].consumed => tok[a] \in spent')
          BY ZenonT(60), <2>1, <2>2, <2>4, <3>1
        <4> QED
          BY Zenon, <2>3, <2>6, <2>7, <2>8, <4>1, <4>2, <4>3, AloneStep
             DEF GateInv, StoreTypes, Written
      <3>2. CASE KeyOf(tok[a]) # Gate
        <4>1. rec'[Gate] = rec[Gate] /\ replaced' = replaced /\ spent \subseteq spent'
          BY ZenonT(60), <2>2, <2>4, <2>5, <3>2
        <4> QED
          BY ZenonT(60), <2>3, <2>6, <2>7, <2>8, <4>1, AloneStep
             DEF PInv, GateInv, StoreTypes, Written
      <3> QED
        BY Zenon, <3>1, <3>2
    <2>10. ParkInv'
      <3>1. ASSUME NEW t \in Ops, Kind[t] = "inject", KeyOf(tok[a]) # t
            PROVE  (rec'[t].token # None => Parked(t)') /\ (rec'[t].consumed => Settled(t)')
        <4>1. rec'[t] = rec[t]
          BY ZenonT(60), <2>4, <3>1 DEF Keys
        <4> QED
          BY Zenon, <2>3, <2>6, <2>7, <3>1, <4>1, AloneStep DEF PInv, ParkInv
      <3>2. ASSUME NEW t \in Ops, Kind[t] = "inject", KeyOf(tok[a]) = t
            PROVE  (rec'[t].token # None => Parked(t)') /\ (rec'[t].consumed => Settled(t)')
        <4>1. tok[a] = t /\ rec'[t] = snap[a]
          BY ZenonT(60), <2>1, <2>4, <3>2 DEF KeyOf
        <4>2. Parked(t)
          BY ZenonT(60), <2>1, <3>2, <4>1 DEF CallInv
        <4>3. snap[a].consumed => Settled(t)
          BY ZenonT(60), <2>1, <3>2, <4>1 DEF CallInv
        <4> QED
          BY ZenonT(60), <2>3, <2>6, <2>7, <3>2, <4>1, <4>2, <4>3, AloneStep
      <3> QED
        BY ZenonT(60), <3>1, <3>2 DEF ParkInv
    <2>11. HushedInv'
      <3>1. spent \subseteq spent' /\ replaced \subseteq replaced'
        BY ZenonT(60), <2>2
      <3>2. ASSUME NEW o \in Ops, rec'[Gate].token = o PROVE rec[Gate].token = o \/ o \in replaced
        BY Zenon, <2>1, <2>4, <2>5, <3>2 DEF CallInv, Seen
      <3> QED
        BY Zenon, <2>3, <3>1, <3>2, CalmStep
    <2> QED
      BY Zenon, <2>3, <2>6, <2>7, <2>8, <2>9, <2>10, <2>11, AloneStep DEF PInv
  <1>6. ASSUME NEW o \in Ops, PauseWrite(o) PROVE PInv'
    <2>1. /\ pc[o] = "writegate" /\ CallInv(o) /\ IsPause(o) /\ o # Timer /\ ~Holds(o)'
          /\ snap[o] \in Records /\ snap[o].token \in Ops /\ ~snap[o].consumed
          /\ snap[o].token = o \/ Seen(snap[o].token)
      BY ZenonT(60), <1>6
         DEF PauseWrite, PInv, LocalTypes, CallInv, RouteInv, Holds, IsPause
    <2>2. /\ rec' = [rec EXCEPT ![Gate] = snap[o]] /\ tok' = [tok EXCEPT ![o] = snap[o].token]
          /\ pc' = [pc EXCEPT ![o] = IF Kind[o] = "hardpause" THEN "sweep" ELSE "push"]
          /\ replaced' = replaced \cup ({rec[Gate].token} \ {rec'[Gate].token, None})
          /\ UNCHANGED <<aborted, pending, answered, cut, snap, res, spent, now>>
      BY ZenonT(60), <1>6 DEF PauseWrite, Replace, Goto
    <2>3. Alone(o) /\ Calm(o)
      BY Zenon, <2>1, <2>2 DEF Alone, Calm, Is, PInv, LocalTypes, StoreTypes, IInv, ShapeInv
    <2>4. /\ rec'[Gate] = snap[o] /\ rec[Gate] \in Records
          /\ \A k \in Keys : k # Gate => rec'[k] = rec[k]
      BY Zenon, <2>2 DEF PInv, StoreTypes, Keys
    <2>5. \A t \in Ops : Seen(t) => Seen(t)'
      BY ZenonT(60), <2>2 DEF Seen
    <2>6. CallInv(o)'
      BY ZenonT(60), <2>1, <2>2 DEF CallInv, RouteInv, IsPause, IInv, ShapeInv
    <2>7. LocalTypes' /\ StoreTypes'
      <3>1. rec' \in [Keys -> Records]
        BY ZenonT(60), <2>1, <2>2 DEF PInv, StoreTypes
      <3>2. rec[Gate].token \in Ops \cup {None}
        BY ZenonT(60), <2>4 DEF Records
      <3> QED
        BY ZenonT(60), <2>2, <2>3, <3>1, <3>2 DEF Alone, PInv, StoreTypes
    <2>8. GateInv'
      <3>1. Written(o)'
        BY ZenonT(60), <2>1, <2>2 DEF Written, IInv, ShapeInv, IsPause
      <3>2. \A t \in replaced' : Written(t)
        BY ZenonT(60), <2>2, <2>4 DEF PInv, GateInv
      <3>3. snap[o].token = o \/ Written(snap[o].token)
        BY Zenon, <2>1 DEF Seen, PInv, GateInv
      <3>4. \A t \in Ops : Written(t) => Written(t)'
        BY Zenon, <2>3, <2>5, <2>6, AloneStep
      <3>5. \A t \in replaced' : Written(t)'
        BY ZenonT(60), <2>7, <3>2, <3>4 DEF StoreTypes
      <3>6. Written(rec[Gate].token)'
        BY ZenonT(60), <2>1, <2>4, <3>1, <3>3, <3>4 DEF Written
      <3> QED
        BY ZenonT(60), <2>1, <2>4, <3>5, <3>6 DEF GateInv, Written
    <2>9. ParkInv'
      <3>1. \A t \in Ops : rec'[t] = rec[t]
        BY Zenon, <2>4 DEF Keys
      <3> QED
        BY ZenonT(60), <2>3, <2>5, <2>6, <3>1, AloneStep DEF PInv, ParkInv
    <2>10. HushedInv'
      <3>1. ASSUME NEW t \in Ops, Swept(t)', rec'[Gate].token = t PROVE rec[Gate].token = t \/ t \in replaced
        <4>1. ~Swept(o)'
          BY ZenonT(60), <2>1, <2>2 DEF Swept, Succeeded, IInv, ShapeInv
        <4> QED
          BY ZenonT(60), <2>1, <2>4, <3>1, <4>1 DEF Seen
      <3>2. spent \subseteq spent' /\ replaced \subseteq replaced'
        BY Zenon, <2>2
      <3> QED
        BY ZenonT(60), <2>3, <3>1, <3>2, CalmStep
    <2> QED
      BY ZenonT(60), <2>3, <2>5, <2>6, <2>7, <2>8, <2>9, <2>10, AloneStep DEF PInv
  <1>7. ASSUME NEW o \in Ops, Sweep(o) PROVE PInv'
    <2>1. /\ pc[o] = "sweep" /\ Kind[o] \in {"hardpause", "abort"} /\ o # Timer
          /\ pc' = [pc EXCEPT ![o] = IF Kind[o] = "abort" THEN "done" ELSE "push"]
          /\ cut' = cut \cup ({reg} \ {None})
          /\ UNCHANGED <<rec, aborted, pending, answered, tok, snap, res, spent, replaced, now>>
      BY Zenon, <1>7 DEF Sweep, Goto, PInv, CallInv, RouteInv
    <2>2. Alone(o) /\ Reads
      BY ZenonT(60), <2>1 DEF Alone, Reads, Is, PInv, LocalTypes, StoreTypes, IInv, ShapeInv
    <2>3. CallInv(o)'
      BY Zenon, <2>1 DEF CallInv, RouteInv, Holds, IsPause, IInv, ShapeInv
    <2>4. \A b \in Actors : ~Unstopped(b)'
      BY Zenon, <2>1 DEF Unstopped, IInv, ShapeInv, HoldingInv
    <2>5. HushedInv'
      BY Zenon, <2>4 DEF HushedInv
    <2> QED
      BY ZenonT(60), <2>2, <2>3, <2>5, ReadStep
  <1>8. ASSUME NEW o \in Ops, AbortWrite(o) PROVE PInv'
    <2>1. /\ pc[o] = "writeabort" /\ Kind[o] = "abort" /\ o # Timer /\ pc' = [pc EXCEPT ![o] = "sweep"]
          /\ rec' = [k \in Keys |-> IF k \in purge[o] THEN Blank ELSE rec[k]]
          /\ replaced' = replaced \cup ({rec[Gate].token} \ {rec'[Gate].token, None})
          /\ UNCHANGED <<pending, answered, cut, tok, snap, res, spent, now>>
      BY ZenonT(60), <1>8 DEF AbortWrite, Replace, Goto, PInv, CallInv, RouteInv
    <2>2. aborted'
      BY ZenonT(60), <1>8 DEF AbortWrite
    <2>3. Alone(o) /\ Calm(o)
      BY ZenonT(60), <2>1, <2>2
         DEF Alone, Calm, Is, PInv, LocalTypes, StoreTypes, IInv, ShapeInv
    <2>4. /\ rec[Gate] \in Records /\ Blank \in Records /\ Blank.token = None /\ ~Blank.consumed
          /\ \A k \in Keys : rec'[k] \in {Blank, rec[k]} /\ rec[k] \in Records
      BY ZenonT(60), <2>1 DEF PInv, StoreTypes, Keys, Blank, Records
    <2>5. \A t \in Ops : Seen(t) => Seen(t)'
      BY ZenonT(60), <2>1 DEF Seen
    <2>6. CallInv(o)'
      BY ZenonT(60), <2>1 DEF CallInv, RouteInv, Holds, IInv, ShapeInv
    <2>7. LocalTypes' /\ StoreTypes'
      <3>1. rec' \in [Keys -> Records]
        BY ZenonT(60), <2>1, <2>4
      <3>2. rec[Gate].token \in Ops \cup {None}
        BY ZenonT(60), <2>4 DEF Records
      <3> QED
        BY ZenonT(60), <2>1, <2>3, <3>1, <3>2 DEF Alone, PInv, StoreTypes
    <2>8. GateInv'
      <3>1. \A t \in replaced' : Written(t)
        BY Zenon, <2>1, <2>4 DEF PInv, GateInv
      <3>2. \A t \in Ops : Written(t) => Written(t)'
        BY Zenon, <2>3, <2>5, <2>6, AloneStep
      <3>3. \A t \in replaced' : Written(t)'
        BY Zenon, <2>7, <3>1, <3>2 DEF StoreTypes
      <3>4. CASE rec'[Gate] = Blank
        BY Zenon, <2>4, <3>3, <3>4 DEF GateInv
      <3>5. CASE rec'[Gate] = rec[Gate]
        <4>1. rec[Gate].token = None \/ Written(rec[Gate].token)'
          BY Zenon, <2>4, <3>2, <3>5 DEF PInv, GateInv, Written
        <4>2. rec'[Gate].consumed => rec'[Gate].token \in spent'
          <5>1. spent' = spent /\ (rec[Gate].consumed => rec[Gate].token \in spent)
            BY ZenonT(60), <2>1 DEF PInv, GateInv
          <5> QED
            BY ONLY SMTT(60), <3>5, <5>1
        <4> QED
          BY ZenonT(60), <3>3, <3>5, <4>1, <4>2 DEF GateInv
      <3> QED
        BY ZenonT(60), <2>4, <3>4, <3>5 DEF Keys
    <2>9. ParkInv'
      <3>1. \A t \in Ops : Kind[t] = "inject" /\ Parked(t) => Parked(t)'
        BY Zenon, <2>3, <2>5, <2>6, AloneStep
      <3>2. \A t \in Ops : Settled(t)'
        BY Zenon, <2>2 DEF Settled
      <3>3. \A t \in Ops : rec'[t].token # None => rec'[t] = rec[t]
        BY Zenon, <2>4 DEF Keys
      <3> QED
        BY Zenon, <3>1, <3>2, <3>3 DEF PInv, ParkInv
    <2>10. HushedInv'
      <3>1. ASSUME NEW t \in Ops, rec'[Gate].token = t PROVE rec[Gate].token = t
        BY Zenon, <2>4, <3>1 DEF Keys
      <3>2. spent \subseteq spent' /\ replaced \subseteq replaced'
        BY Zenon, <2>1
      <3> QED
        BY Zenon, <2>3, <3>1, <3>2, CalmStep
    <2> QED
      BY ZenonT(60), <2>3, <2>5, <2>6, <2>7, <2>8, <2>9, <2>10, AloneStep DEF PInv
  <1>9. CASE Rescan \/ Tick \/ UNCHANGED vars
    <2>1. /\ UNCHANGED <<rec, aborted, pending, answered, cut, pc, tok, snap, res, spent, replaced>>
          /\ now' \in Nat
      <3>1. now \in Nat
        BY Zenon DEF PInv, LocalTypes
      <3>2. CASE Tick
        <4>1. now' = now + 1
          BY Zenon, <3>2 DEF Tick
        <4>2. now' \in Nat
          BY ONLY SMTT(60), <3>1, <4>1
        <4> QED
          BY Zenon, <3>2, <4>2 DEF Tick
      <3>3. CASE Rescan \/ UNCHANGED vars
        BY Zenon, <3>1, <3>3 DEF Rescan, vars
      <3> QED
        BY Zenon, <1>9, <3>2, <3>3
    <2>2. LocalTypes' /\ StoreTypes'
      BY ZenonT(60), <2>1 DEF PInv, LocalTypes, StoreTypes
    <2>3. GateInv' /\ HushedInv'
      BY ZenonT(60), <2>1
         DEF PInv, GateInv, HushedInv, Written, Swept, Succeeded, Unstopped, IsPause
    <2>4. ParkInv'
      BY ZenonT(60), <2>1 DEF PInv, ParkInv, Parked, Settled
    <2>5. \A a \in Actors : CallInv(a)'
      <3> SUFFICES ASSUME NEW a \in Actors PROVE CallInv(a)'
        BY Zenon
      <3>1. CallInv(a) /\ RouteInv(a)' /\ (Holds(a)' <=> Holds(a))
        BY ZenonT(60), <2>1 DEF PInv, CallInv, RouteInv, Holds
      <3>2. \A t : (Seen(t) => Seen(t)') /\ (Parked(t) => Parked(t)')
        BY Zenon, <2>1 DEF Seen, Parked
      <3>3. \A t : Settled(t) => Settled(t)'
        BY Zenon, <2>1 DEF Settled
      <3> QED
        BY ZenonT(60), <2>1, <3>1, <3>2, <3>3 DEF CallInv
    <2> QED
      BY Zenon, <2>2, <2>3, <2>4, <2>5 DEF PInv
  <1>10. CASE Restart
    <2>1. /\ UNCHANGED <<rec, aborted, pending, answered, tok, snap, spent, replaced, now>>
          /\ \A a \in Actors : pc'[a] = IF a = Timer \/ pc[a] = "new" THEN "new" ELSE "done"
      BY ZenonT(60), <1>10 DEF Restart
    <2>2. LocalTypes' /\ StoreTypes'
      BY ZenonT(60), <2>1 DEF PInv, LocalTypes, StoreTypes
    <2>3. GateInv'
      BY Zenon, <2>1 DEF PInv, GateInv, Written, IsPause
    <2>4. HushedInv'
      BY ZenonT(60), <2>1 DEF HushedInv, Unstopped
    <2>5. ParkInv'
      <3>1. \A t \in Ops : Parked(t) => Parked(t)'
        BY Zenon, <2>1 DEF Parked
      <3>2. \A t \in Ops : Settled(t) => Settled(t)'
        BY ZenonT(60), <2>1 DEF Settled
      <3> QED
        BY ZenonT(60), <2>1, <3>1, <3>2 DEF PInv, ParkInv
    <2>6. \A a \in Actors : CallInv(a)'
      BY ZenonT(60), <2>1 DEF CallInv, RouteInv, Holds
    <2> QED
      BY ZenonT(60), <2>2, <2>3, <2>4, <2>5, <2>6 DEF PInv
  <1> QED
    BY Zenon, <1>1, <1>2, <1>3, <1>4, <1>5, <1>6, <1>7, <1>8, <1>9, <1>10, ReadingSteps
       DEF Next, TurnStep, OpStep

\* PInv holds in every reachable state.
LEMMA SessionInvariant ==
  ASSUME "" \notin AbortReasons
  PROVE  Spec => [](IInv /\ PInv)
  <1>1. IInv /\ PInv /\ [Next]_vars => (IInv /\ PInv)'
    BY Zenon, NextIInv, NextPInv
  <1> QED
    BY <1>1, InitIInv, InitPInv, PTL DEF Spec

\* pauseHandler and admitTurn: once a hard pause has returned success no turn
\* of the session runs uncancelled, until the pause's token is spent or another
\* write takes the place of its record.
THEOREM HardPauseStops ==
  ASSUME "" \notin AbortReasons
  PROVE  Spec => []HardPauseStopsTurns
  <1>1. PInv => HardPauseStopsTurns
    BY Zenon DEF PInv, HushedInv, Swept, HardPauseStopsTurns
  <1> QED
    BY <1>1, SessionInvariant, PTL

\* consumeIfAnswered: the token of a parked turn is consumed only once its
\* answer is in the event log or the session was aborted, whichever of the
\* resume calls, extensions and scheduled fires wrote last.
THEOREM ConsumedAnswered ==
  ASSUME "" \notin AbortReasons
  PROVE  Spec => []ConsumedMeansAnswered
  <1>1. PInv => ConsumedMeansAnswered
    BY Zenon DEF PInv, ParkInv, Settled, ConsumedMeansAnswered
  <1> QED
    BY <1>1, SessionInvariant, PTL
=============================================================================
