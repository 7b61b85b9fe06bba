------------------------------- MODULE WriteGate -------------------------------
(***************************************************************************)
(* The write gate (pkg/approval, wired by internal/compose/writegate.go):  *)
(* the before-tool callback that parks a mutating call, the operator's     *)
(* verdict on it, the change-set grants one verdict may mint, the refusal  *)
(* memory of a turn and the prior-state capture a call must leave behind.  *)
(*                                                                         *)
(* A step is one dispatch of a tool call by the runner, which decides the  *)
(* call and appends the event carrying its state delta.  A turn is an      *)
(* invocation ID; a park ends the Runner.Run and the verdict resumes the   *)
(* same invocation on another.  Whatever a grant's precondition reads may  *)
(* move between two steps.                                                 *)
(***************************************************************************)
EXTENDS Naturals, FiniteSets, TLAPS

CONSTANTS
  Ids,         \* function call ids
  Calls,       \* mutating calls: a tool with exact arguments (Signature)
  Short,       \* CallKey: each call as rendered, long values elided
  Denied,      \* keys the deny policy refuses
  ChangeSet,   \* the calls finish_task proposes
  Captured,    \* calls whose tool declares a prior-state capture
  Policies,    \* hitl_policy.on_mutation
  MaxTurns, MaxRestarts,
  None

VARIABLES
  policy,
  turn,      \* [id: the invocation running, live: a Runner.Run is in flight]
  turns,     \* invocations begun
  memory,    \* refusals.byInvocation: the keys refused and the count suppressed
  recorded,  \* a specialist's change set is in the session state
  grant,     \* the grant in the session state for each call
  world,     \* what a call's precondition reads
  fc,        \* the function calls the model made
  said,      \* what operators refused: <<invocation, key>>
  asked,     \* what operators were asked after refusing it
  stale,     \* grants a check found stale: <<call, mint>>
  mints,
  restarts

gateVars == <<policy, turn, turns, memory, recorded, grant, world, fc, said, asked,
              stale, mints, restarts>>

suppressedCallsEndTurn == 3
Invocations == 1 .. MaxTurns
Keys == {Short[c] : c \in Calls}
NoMemory == [keys |-> {}, n |-> 0]
NoGrant == [mint |-> 0, snap |-> 0, spent |-> None, voided |-> FALSE, expired |-> FALSE]
Unmade == [st |-> "unmade", call |-> None, inv |-> 0, ran |-> None, mint |-> 0,
           capture |-> None, decision |-> "none"]
Dispositions == {"authorized", "refused_by_operator", "refused_by_mast"}

TypeOK ==
  /\ policy \in Policies /\ turn \in [id : 0 .. MaxTurns, live : BOOLEAN]
  /\ turns \in 0 .. MaxTurns /\ restarts \in 0 .. MaxRestarts
  /\ memory \in [Invocations -> [keys : SUBSET Keys, n : 0 .. suppressedCallsEndTurn]]
  /\ recorded \in BOOLEAN /\ mints \in Nat /\ stale \subseteq Calls \X (1 .. mints)
  /\ world \in [Calls -> 0 .. 1]
  /\ grant \in [Calls -> [mint : 0 .. mints, snap : 0 .. 1, spent : Ids \cup {None},
                          voided : BOOLEAN, expired : BOOLEAN]]
  /\ fc \in [Ids -> [st : {"unmade", "parked", "ran", "refused"}, call : Calls \cup {None},
                     inv : 0 .. MaxTurns, ran : Calls \cup {None}, mint : 0 .. mints,
                     capture : Calls \cup {None}, decision : Dispositions \cup {"none"}]]
  /\ said \subseteq Invocations \X Keys /\ asked \subseteq Invocations \X Keys

Init ==
  /\ policy \in Policies /\ turn = [id |-> 0, live |-> FALSE] /\ turns = 0
  /\ memory = [i \in Invocations |-> NoMemory] /\ recorded = FALSE
  /\ grant = [c \in Calls |-> NoGrant] /\ world = [c \in Calls |-> 0]
  /\ fc = [i \in Ids |-> Unmade] /\ said = {} /\ asked = {} /\ stale = {}
  /\ mints = 0 /\ restarts = 0

\* How a dispatch ended, and the record it leaves.
Refused(call) == [call EXCEPT !.st = "refused"]
Ran(call, c) == [call EXCEPT !.st = "ran", !.ran = c,
                             !.capture = IF c \in Captured THEN c ELSE None]
Decided(call, who) == [call EXCEPT !.decision =
                         IF call.st = "ran" THEN "authorized" ELSE who]
\* A capture read before the call was edited.
RanAsProposed(call, c) == [call EXCEPT !.st = "ran", !.ran = c,
                             !.capture = IF c \in Captured THEN call.call ELSE None]

permitEarly(call, c) == {RanAsProposed(call, c)}
\* permit: a declared capture is taken first, of the arguments that will run,
\* and a read that fails refuses the call.
permit(call, c) == {Ran(call, c)} \cup (IF c \in Captured THEN {Refused(call)} ELSE {})

Fresh(i) == fc[i].st = "unmade"
Dispatch(i, c) == [Unmade EXCEPT !.call = c, !.inv = turn.id]
Answer(i, call) == fc' = [fc EXCEPT ![i] = call]

-----------------------------------------------------------------------------
(* beforeTool, in the order its checks run. *)

\* finish_task: ParseChangeSet and Check either record the set or refuse the report.
checkChangeSet ==
  /\ turn.live /\ ~recorded /\ ChangeSet # {}
  /\ recorded' = TRUE
  /\ UNCHANGED <<policy, turn, turns, memory, grant, world, fc, said, asked, stale, mints, restarts>>

apply(i, c) ==
  /\ policy = "apply"
  /\ \E call \in permit(Dispatch(i, c), c) : Answer(i, call)
  /\ UNCHANGED <<turn, memory, grant, asked, stale>>

dryRun(i, c) ==
  /\ policy = "dry_run"
  /\ Answer(i, Refused(Dispatch(i, c)))
  /\ UNCHANGED <<turn, memory, grant, asked, stale>>

CheckMutatingToolCall(c) == Short[c] \notin Denied

deniedByPolicy(i, c) ==
  /\ policy = "require_approval" /\ ~CheckMutatingToolCall(c)
  /\ Answer(i, Refused(Dispatch(i, c)))
  /\ UNCHANGED <<turn, memory, grant, asked, stale>>

Reaches(c) == policy = "require_approval" /\ CheckMutatingToolCall(c)
suppressed(c) == Short[c] \in memory[turn.id].keys

\* suppress and refuseRepeat: the third suppressed call cancels the run, whose end
\* forgets the invocation.
refuseRepeat(i, c) ==
  /\ Reaches(c) /\ suppressed(c)
  /\ LET n == memory[turn.id].n + 1 IN
     /\ memory' = [memory EXCEPT ![turn.id].n = IF n >= suppressedCallsEndTurn THEN 0 ELSE n,
                                 ![turn.id].keys = IF n >= suppressedCallsEndTurn THEN {} ELSE @]
     /\ turn' = [turn EXCEPT !.live = n < suppressedCallsEndTurn]
  /\ Answer(i, Refused(Dispatch(i, c)))
  /\ UNCHANGED <<grant, asked, stale>>

\* verify: the precondition read answers what it answered when the grant was minted.
verify(c) == world[c] = grant[c].snap

HasGrant(c) == grant[c].mint > 0
checkGrant(i, c) ==
  HasGrant(c) /\ ~grant[c].voided /\ grant[c].spent \in {None, i} /\ ~grant[c].expired /\ verify(c)

Spend(i, c) == grant' = [grant EXCEPT ![c].spent = i]

\* spendGrant: permit comes before the grant is marked, so a failed capture
\* leaves it to be used.
spendGrant(i, c) ==
  /\ Reaches(c) /\ ~suppressed(c) /\ checkGrant(i, c)
  /\ \E call \in permit(Dispatch(i, c), c) :
       /\ Answer(i, Decided([call EXCEPT !.mint = IF call.st = "ran" THEN grant[c].mint ELSE 0],
                            "refused_by_mast"))
       /\ IF call.st = "ran" THEN Spend(i, c) ELSE UNCHANGED grant
  /\ UNCHANGED <<turn, memory, asked, stale>>

\* A stale grant that is only passed over.
voidGrantNever(c) == UNCHANGED grant
voidGrant(c) == grant' = [grant EXCEPT ![c].voided = HasGrant(c)]

\* RequestConfirmation, after a grant that no longer covers the call is voided.
park(i, c) ==
  /\ Reaches(c) /\ ~suppressed(c) /\ ~checkGrant(i, c)
  /\ voidGrant(c)
  /\ stale' = IF HasGrant(c) THEN stale \cup {<<c, grant[c].mint>>} ELSE stale
  /\ Answer(i, [Dispatch(i, c) EXCEPT !.st = "parked"])
  /\ asked' = IF <<turn.id, Short[c]>> \in said THEN asked \cup {<<turn.id, Short[c]>>} ELSE asked
  /\ UNCHANGED <<turn, memory>>

beforeTool(i, c) ==
  /\ turn.live /\ Fresh(i)
  /\ \/ apply(i, c) \/ dryRun(i, c) \/ deniedByPolicy(i, c)
     \/ refuseRepeat(i, c) \/ spendGrant(i, c) \/ park(i, c)
  /\ UNCHANGED <<policy, turns, recorded, world, said, mints, restarts>>

-----------------------------------------------------------------------------
(* honorVerdict: the re-dispatch of a parked call, with the operator's answer. *)

Redispatch(i) ==
  /\ ~turn.live /\ fc[i].st = "parked"
  /\ turn' = [id |-> fc[i].inv, live |-> TRUE]
  /\ UNCHANGED <<policy, turns, recorded, world, asked, stale, restarts>>

\* A malformed verdict, an unknown or too broad scope, an edit that names no
\* approver or does not normalize, a change-set scope planGrants will not mint:
\* the call does not run and nothing is remembered.
refusedVerdict(i) ==
  /\ Redispatch(i)
  /\ Answer(i, Decided(Refused(fc[i]), "refused_by_mast"))
  /\ UNCHANGED <<memory, grant, said, mints>>

remember(i, key) == memory' = [memory EXCEPT ![fc[i].inv].keys = @ \cup {key}]

reject(i) ==
  /\ Redispatch(i)
  /\ Answer(i, Decided(Refused(fc[i]), "refused_by_operator"))
  /\ remember(i, Short[fc[i].call])
  /\ said' = said \cup {<<fc[i].inv, Short[fc[i].call]>>}
  /\ UNCHANGED <<grant, mints>>

approve(i) ==
  /\ Redispatch(i)
  /\ \E call \in permit(fc[i], fc[i].call) : Answer(i, Decided(call, "refused_by_mast"))
  /\ UNCHANGED <<memory, grant, said, mints>>

\* planGrants and commitGrants: one grant for every other call of the set, bound
\* to what its precondition reads now; written before permit has its say.
Minted(i) ==
  [c \in Calls |-> IF c \in ChangeSet \ {fc[i].call}
                   THEN [NoGrant EXCEPT !.mint = mints + 1, !.snap = world[c]] ELSE grant[c]]

approveChangeSet(i) ==
  /\ Redispatch(i) /\ recorded /\ fc[i].call \in ChangeSet
  /\ grant' = Minted(i) /\ mints' = mints + 1
  /\ \E call \in permit(fc[i], fc[i].call) : Answer(i, Decided(call, "refused_by_mast"))
  /\ UNCHANGED <<memory, said>>

\* prepareEdit: the deny policy is asked again about the call the operator wrote.
prepareEdit(c) == CheckMutatingToolCall(c)

edit(i, c) ==
  /\ Redispatch(i) /\ c # fc[i].call
  /\ IF prepareEdit(c)
     THEN \E call \in permit(fc[i], c) : Answer(i, Decided(call, "refused_by_mast"))
     ELSE Answer(i, Decided(Refused(fc[i]), "refused_by_mast"))
  /\ UNCHANGED <<memory, grant, said, mints>>

honorVerdict(i) ==
  \/ refusedVerdict(i) \/ reject(i) \/ approve(i) \/ approveChangeSet(i)
  \/ \E c \in Calls : edit(i, c)

-----------------------------------------------------------------------------
\* The invocation AfterRunCallback names: its memory goes when its run ends.
forget(inv) == memory' = [memory EXCEPT ![inv] = NoMemory]

runEnds ==
  /\ turn.live /\ turn' = [turn EXCEPT !.live = FALSE]
  /\ forget(turn.id)
  /\ UNCHANGED <<policy, turns, recorded, grant, world, fc, said, asked, stale, mints, restarts>>

newTurn ==
  /\ ~turn.live /\ turns < MaxTurns
  /\ turns' = turns + 1 /\ turn' = [id |-> turns + 1, live |-> TRUE]
  /\ UNCHANGED <<policy, memory, recorded, grant, world, fc, said, asked, stale, mints, restarts>>

\* The cluster moves under a grant, or the grant's TTL passes.
Move(c) ==
  /\ HasGrant(c) /\ world' = [world EXCEPT ![c] = 1 - @]
  /\ UNCHANGED <<policy, turn, turns, memory, recorded, grant, fc, said, asked, stale, mints, restarts>>

Expire(c) ==
  /\ HasGrant(c) /\ ~grant[c].expired /\ grant' = [grant EXCEPT ![c].expired = TRUE]
  /\ UNCHANGED <<policy, turn, turns, memory, recorded, world, fc, said, asked, stale, mints, restarts>>

\* Parks, grants and the change set are session state; the refusal memory is not.
Restart ==
  /\ restarts < MaxRestarts /\ restarts' = restarts + 1
  /\ turn' = [turn EXCEPT !.live = FALSE] /\ memory' = [i \in Invocations |-> NoMemory]
  /\ UNCHANGED <<policy, turns, recorded, grant, world, fc, said, asked, stale, mints>>

Next ==
  \/ newTurn \/ runEnds \/ checkChangeSet \/ Restart
  \/ \E i \in Ids : honorVerdict(i) \/ \E c \in Calls : beforeTool(i, c)
  \/ \E c \in Calls : Move(c) \/ Expire(c)

Spec == Init /\ [][Next]_gateVars

-----------------------------------------------------------------------------
(* Properties. *)

\* A change-set grant authorizes one call, of the exact arguments approved, while
\* its precondition still reads what it read at approval; once mast found a grant
\* stale, nothing runs under it again, also when the cluster has moved back
\* (checkGrant, spendGrant and voidGrant).
GrantSpentOnce ==
  \A i \in Ids : fc[i].mint = 0 /\ fc'[i].mint > 0 =>
    LET c == fc'[i].ran IN
    /\ <<c, fc'[i].mint>> \notin stale /\ world[c] = grant[c].snap
    /\ \A j \in Ids : fc[j].mint = fc'[i].mint => fc[j].ran # c
GrantBindsOneCall == [][GrantSpentOnce]_gateVars

\* Under require_approval every call that ran carries a decision record that says
\* it was authorized and none that did not run does; what ran passed the deny
\* policy even when the operator rewrote it, and the prior state on record is that
\* of the call that ran (recordDecision, prepareEdit, permit).
RecordMatchesEffect ==
  policy = "require_approval" =>
    \A i \in Ids :
      /\ (fc[i].decision = "authorized") <=> (fc[i].st = "ran")
      /\ fc[i].st = "ran" => /\ CheckMutatingToolCall(fc[i].ran)
                             /\ fc[i].capture = IF fc[i].ran \in Captured THEN fc[i].ran ELSE None

\* An operator who refused a call in a turn is not asked about it again in that
\* turn (suppress.go: the park, the verdict and what follows carry one invocation
\* ID, and forgetting an invocation is hygiene that never changes an answer).  The
\* code does not keep this: a run that ends forgets, and a verdict on a second park
\* goes on with the same invocation.
NotAskedTwice == asked = {}

-----------------------------------------------------------------------------
(* Proofs.  A verdict decides what parked before, so the record of a call  *)
(* that ran rests on what its park let through (RecordInv); a grant is     *)
(* spent once because the session state names the call that spent it and   *)
(* what was found stale stays voided (GrantInv).                           *)

CallRecord ==
  [st : {"unmade", "parked", "ran", "refused"}, call : Calls \cup {None}, inv : Nat,
   ran : Calls \cup {None}, mint : Nat, capture : Calls \cup {None}, decision : Dispositions \cup {"none"}]
GrantRecord == [mint : Nat, snap : 0 .. 1, spent : Ids \cup {None}, voided : BOOLEAN, expired : BOOLEAN]
Types ==
  /\ fc \in [Ids -> CallRecord] /\ grant \in [Calls -> GrantRecord] /\ world \in [Calls -> 0 .. 1]
  /\ mints \in Nat /\ turn \in [id : Nat, live : BOOLEAN] /\ turns \in Nat

\* The record of one call, and what a call that waits has passed.
Matches(call) ==
  /\ (call.decision = "authorized") <=> (call.st = "ran")
  /\ call.st = "ran" => /\ CheckMutatingToolCall(call.ran)
                        /\ call.capture = IF call.ran \in Captured THEN call.ran ELSE None
Waits(call) == call.st = "parked" => call.call \in Calls /\ CheckMutatingToolCall(call.call)
RecordInv == \A i \in Ids : Waits(fc[i]) /\ (policy = "require_approval" => Matches(fc[i]))

\* Mints are numbered as they are made; the grant a call ran under names it as its
\* spender, and what was found stale is void, for as long as it is the one on record.
GrantInv ==
  /\ \A i \in Ids : fc[i].mint <= mints /\ (fc[i].st # "ran" => fc[i].mint = 0)
  /\ \A c \in Calls : grant[c].mint <= mints
  /\ \A i \in Ids : fc[i].mint > 0 => fc[i].ran \in Calls
  /\ \A i \in Ids, c \in Calls :
       fc[i].mint > 0 /\ fc[i].ran = c /\ grant[c].mint = fc[i].mint => grant[c].spent = i
  /\ \A c \in Calls : \A n : <<c, n>> \in stale => n \in Nat /\ n > 0 /\ n <= mints
  /\ \A c \in Calls : <<c, grant[c].mint>> \in stale => grant[c].voided

IInv == Types /\ RecordInv /\ GrantInv

\* permit either runs exactly the call it was asked about, with the capture its
\* tool declares, or refuses it; the rest of the record stays.
LEMMA PermitRecord ==
  ASSUME NEW call \in CallRecord, NEW c \in Calls, NEW r \in permit(call, c)
  PROVE  /\ r \in CallRecord
         /\ r.mint = call.mint /\ r.decision = call.decision /\ r.call = call.call
         /\ \/ r.st = "ran" /\ r.ran = c /\ r.capture = IF c \in Captured THEN c ELSE None
            \/ r.st = "refused" /\ r.ran = call.ran
  <1>1. CASE r = Ran(call, c)
    BY Zenon, <1>1 DEF Ran, CallRecord
  <1>2. CASE r = Refused(call)
    BY <1>2 DEF Refused, CallRecord
  <1> QED
    BY Zenon, <1>1, <1>2 DEF permit

LEMMA DecidedRecord ==
  ASSUME NEW call \in CallRecord, NEW who \in Dispositions
  PROVE  /\ Decided(call, who) \in CallRecord
         /\ Decided(call, who).decision = IF call.st = "ran" THEN "authorized" ELSE who
         /\ Decided(call, who).st = call.st /\ Decided(call, who).ran = call.ran
         /\ Decided(call, who).mint = call.mint /\ Decided(call, who).capture = call.capture
         /\ Decided(call, who).call = call.call
  BY DEF Decided, CallRecord, Dispositions

LEMMA RefusedRecord ==
  ASSUME NEW call \in CallRecord
  PROVE  /\ Refused(call) \in CallRecord /\ Refused(call).st = "refused"
         /\ Refused(call).mint = call.mint /\ Refused(call).decision = call.decision
         /\ Refused(call).ran = call.ran /\ Refused(call).call = call.call
  BY DEF Refused, CallRecord

LEMMA DispatchRecord ==
  ASSUME IInv, NEW i, NEW c \in Calls
  PROVE  /\ Dispatch(i, c) \in CallRecord /\ Dispatch(i, c).mint = 0 /\ Dispatch(i, c).decision = "none"
         /\ Dispatch(i, c).st = "unmade" /\ Dispatch(i, c).ran = None /\ Dispatch(i, c).call = c
  BY Zenon DEF Dispatch, Unmade, CallRecord, IInv, Types, Dispositions

\* A call answered with a record that matches what was done with it, under no grant.
LEMMA AnsweredAlone ==
  ASSUME IInv, NEW i \in Ids, NEW r \in CallRecord, Answer(i, r), r.mint = 0, UNCHANGED policy,
         Waits(r), policy = "require_approval" => Matches(r)
  PROVE  /\ fc' \in [Ids -> CallRecord] /\ RecordInv'
         /\ UNCHANGED <<grant, mints, stale>> => GrantInv'
  <1>1. fc' \in [Ids -> CallRecord] /\ fc'[i] = r /\ \A j \in Ids : j # i => fc'[j] = fc[j]
    BY Zenon DEF Answer, IInv, Types
  <1>2. RecordInv'
    BY ZenonT(60), <1>1 DEF IInv, RecordInv, Matches, Waits, CheckMutatingToolCall
  <1>3. ASSUME UNCHANGED <<grant, mints, stale>> PROVE GrantInv'
    BY <1>1, <1>3 DEF IInv, Types, GrantInv
  <1> QED
    BY Zenon, <1>1, <1>2, <1>3

\* A call that waits has no grant, and what a verdict makes of it matches.
LEMMA VerdictRecord ==
  ASSUME IInv, NEW i \in Ids, fc[i].st = "parked", NEW who \in Dispositions, who # "authorized"
  PROVE  /\ Decided(Refused(fc[i]), who) \in CallRecord /\ Decided(Refused(fc[i]), who).mint = 0
         /\ Matches(Decided(Refused(fc[i]), who)) /\ Waits(Decided(Refused(fc[i]), who))
         /\ \A c \in Calls : \A r \in permit(fc[i], c) :
              /\ Decided(r, who) \in CallRecord /\ Decided(r, who).mint = 0 /\ Waits(Decided(r, who))
              /\ CheckMutatingToolCall(c) => Matches(Decided(r, who))
  <1>1. fc[i] \in CallRecord /\ fc[i].mint = 0
    BY Zenon DEF IInv, Types, GrantInv
  <1>2. Decided(Refused(fc[i]), who) \in CallRecord /\ Decided(Refused(fc[i]), who).mint = 0
        /\ Matches(Decided(Refused(fc[i]), who)) /\ Waits(Decided(Refused(fc[i]), who))
    BY <1>1, RefusedRecord, DecidedRecord DEF Matches, Waits
  <1>3. ASSUME NEW c \in Calls, NEW r \in permit(fc[i], c)
        PROVE  /\ Decided(r, who) \in CallRecord /\ Decided(r, who).mint = 0 /\ Waits(Decided(r, who))
               /\ CheckMutatingToolCall(c) => Matches(Decided(r, who))
    BY <1>1, <1>3, PermitRecord, DecidedRecord DEF Matches, Waits
  <1> QED
    BY Zenon, <1>2, <1>3

LEMMA InitIInv == Init => IInv
  BY DEF Init, IInv, Types, RecordInv, GrantInv, Matches, Waits, NoGrant, Unmade, CallRecord, GrantRecord,
     Dispositions

\* Every dispatch, verdict and change around them keeps the invariant.
LEMMA NextIInv == ASSUME None \notin Ids, IInv, [Next]_gateVars PROVE IInv'
  <1>1. ASSUME NEW i \in Ids, NEW c \in Calls, beforeTool(i, c) PROVE IInv'
    <2>1. UNCHANGED <<policy, turns, world, mints>> /\ turn' \in [id : Nat, live : BOOLEAN]
      <3>1. \A b \in BOOLEAN : [turn EXCEPT !.live = b] \in [id : Nat, live : BOOLEAN]
        BY DEF IInv, Types
      <3>2. (memory[turn.id].n + 1 < suppressedCallsEndTurn) \in BOOLEAN
        OBVIOUS
      <3> QED
        BY Zenon, <1>1, <3>1, <3>2
           DEF beforeTool, apply, dryRun, deniedByPolicy, refuseRepeat, spendGrant, park, IInv, Types
    <2>2. CASE apply(i, c)
      <3>1. PICK r \in permit(Dispatch(i, c), c) : Answer(i, r)
        BY Zenon, <2>2 DEF apply
      <3>2. r \in CallRecord /\ r.mint = 0 /\ Waits(r) /\ policy # "require_approval" /\ UNCHANGED <<grant, stale>>
        BY <2>2, <3>1, PermitRecord, DispatchRecord DEF apply, Waits
      <3> QED
        BY Zenon, <2>1, <3>1, <3>2, AnsweredAlone DEF IInv, Types
    <2>3. CASE dryRun(i, c) \/ deniedByPolicy(i, c) \/ refuseRepeat(i, c)
      <3>1. /\ Refused(Dispatch(i, c)) \in CallRecord /\ Refused(Dispatch(i, c)).mint = 0
            /\ Matches(Refused(Dispatch(i, c))) /\ Waits(Refused(Dispatch(i, c)))
        BY RefusedRecord, DispatchRecord DEF Matches, Waits
      <3>2. Answer(i, Refused(Dispatch(i, c))) /\ UNCHANGED <<grant, stale>>
        BY Zenon, <2>3 DEF dryRun, deniedByPolicy, refuseRepeat
      <3> QED
        BY Zenon, <2>1, <3>1, <3>2, AnsweredAlone DEF IInv, Types
    <2>4. CASE spendGrant(i, c)
      <3>1. PICK r \in permit(Dispatch(i, c), c) :
              /\ Answer(i, Decided([r EXCEPT !.mint = IF r.st = "ran" THEN grant[c].mint ELSE 0], "refused_by_mast"))
              /\ IF r.st = "ran" THEN Spend(i, c) ELSE UNCHANGED grant
        BY Zenon, <2>4 DEF spendGrant
      <3> DEFINE q == [r EXCEPT !.mint = IF r.st = "ran" THEN grant[c].mint ELSE 0]
                 d == Decided(q, "refused_by_mast")
      <3>2. /\ r \in CallRecord /\ r.mint = 0 /\ grant[c] \in GrantRecord
            /\ \/ r.st = "ran" /\ r.ran = c /\ r.capture = IF c \in Captured THEN c ELSE None
               \/ r.st = "refused"
        BY PermitRecord, DispatchRecord DEF IInv, Types
      <3>3. /\ q \in CallRecord /\ q.mint = IF r.st = "ran" THEN grant[c].mint ELSE 0
            /\ q.st = r.st /\ q.ran = r.ran /\ q.capture = r.capture
        BY <3>2 DEF CallRecord, GrantRecord
      <3> HIDE DEF q
      <3>4. /\ d \in CallRecord /\ d.mint = IF r.st = "ran" THEN grant[c].mint ELSE 0
            /\ d.st = r.st /\ d.ran = r.ran /\ d.capture = r.capture
            /\ d.decision = IF r.st = "ran" THEN "authorized" ELSE "refused_by_mast"
        BY <3>3, DecidedRecord DEF Dispositions
      <3> HIDE DEF d
      <3>5. CheckMutatingToolCall(c) /\ grant[c].mint > 0 /\ grant[c].spent \in {None, i} /\ ~grant[c].voided
            /\ UNCHANGED stale
        BY Zenon, <2>4 DEF spendGrant, Reaches, checkGrant, HasGrant
      <3>6. Matches(d) /\ Waits(d)
        BY <3>2, <3>4, <3>5 DEF Matches, Waits
      <3>7. Answer(i, d)
        BY Zenon, <3>1 DEF d, q
      <3>8. CASE r.st = "refused"
        <4>1. d.mint = 0 /\ UNCHANGED grant
          BY <3>1, <3>4, <3>8
        <4> QED
          BY Zenon, <2>1, <3>4, <3>5, <3>6, <3>7, <4>1, AnsweredAlone DEF IInv, Types
      <3>9. CASE r.st = "ran"
        <4>1. grant' = [grant EXCEPT ![c].spent = i]
          BY <3>1, <3>9 DEF Spend
        <4>2. grant' \in [Calls -> GrantRecord]
          BY <4>1 DEF IInv, Types, GrantRecord
        <4>3. /\ fc' \in [Ids -> CallRecord] /\ fc'[i] = d /\ \A j \in Ids : j # i => fc'[j] = fc[j]
          BY Zenon, <3>4, <3>7 DEF Answer, IInv, Types
        <4>4. RecordInv'
          BY ZenonT(60), <2>1, <3>6, <4>3 DEF IInv, RecordInv, Matches, Waits, CheckMutatingToolCall
        <4>5. /\ grant'[c].mint = grant[c].mint /\ grant'[c].spent = i /\ grant'[c].voided = grant[c].voided
              /\ \A b \in Calls : b # c => grant'[b] = grant[b]
          BY <4>1 DEF IInv, Types, GrantRecord
        <4>6. d.mint = grant[c].mint /\ d.st = "ran" /\ d.ran = c
          BY <3>2, <3>4, <3>9
        <4>7. \A j \in Ids : j # i => ~(fc[j].mint > 0 /\ fc[j].ran = c /\ fc[j].mint = grant[c].mint)
          BY <3>5 DEF IInv, GrantInv
        <4>8. GrantInv'
          <5>1. \A j \in Ids : /\ fc'[j].mint <= mints /\ (fc'[j].st # "ran" => fc'[j].mint = 0)
                               /\ fc'[j].mint > 0 => fc'[j].ran \in Calls
            BY ZenonT(60), <4>3, <4>6 DEF IInv, GrantInv
          <5>2. \A b \in Calls : grant'[b].mint = grant[b].mint /\ grant'[b].voided = grant[b].voided
            BY Zenon, <4>5
          <5>3. ASSUME NEW j \in Ids, NEW b \in Calls,
                       fc'[j].mint > 0 /\ fc'[j].ran = b /\ grant'[b].mint = fc'[j].mint
                PROVE  grant'[b].spent = j
            <6>1. CASE j = i
              BY Zenon, <4>3, <4>5, <4>6, <5>3, <6>1
            <6>2. CASE j # i
              <7>1. fc[j].mint > 0 /\ fc[j].ran = b /\ grant[b].mint = fc[j].mint
                BY Zenon, <4>3, <5>2, <5>3, <6>2
              <7>2. b # c
                BY Zenon, <4>7, <6>2, <7>1
              <7>3. grant[b].spent = j
                BY Zenon, <7>1 DEF IInv, GrantInv
              <7> QED
                BY Zenon, <4>5, <7>2, <7>3
            <6> QED
              BY Zenon, <6>1, <6>2
          <5> QED
            BY Zenon, <2>1, <3>5, <5>1, <5>2, <5>3 DEF IInv, GrantInv
        <4> QED
          BY Zenon, <2>1, <4>2, <4>3, <4>4, <4>8 DEF IInv, Types
      <3> QED
        BY <3>2, <3>8, <3>9
    <2>5. CASE park(i, c)
      <3> DEFINE r == [Dispatch(i, c) EXCEPT !.st = "parked"]
      <3>1. r \in CallRecord /\ r.mint = 0 /\ r.st = "parked" /\ r.decision = "none" /\ r.call = c
        BY DispatchRecord DEF CallRecord
      <3> HIDE DEF r
      <3>2. Answer(i, r) /\ CheckMutatingToolCall(c)
        BY Zenon, <2>5 DEF park, Reaches, r
      <3>3. Matches(r) /\ Waits(r)
        BY <3>1, <3>2 DEF Matches, Waits
      <3>4. fc' \in [Ids -> CallRecord] /\ RecordInv'
        BY Zenon, <2>1, <3>1, <3>2, <3>3, AnsweredAlone
      <3>5. fc'[i] = r /\ \A j \in Ids : j # i => fc'[j] = fc[j]
        BY Zenon, <3>2 DEF Answer, IInv, Types
      <3>6. /\ grant' \in [Calls -> GrantRecord]
            /\ \A b \in Calls : grant'[b].mint = grant[b].mint /\ grant'[b].spent = grant[b].spent
            /\ grant[c].mint > 0 => grant'[c].voided
            /\ \A b \in Calls : b # c => grant'[b] = grant[b]
        <4>1. \A v \in BOOLEAN : LET g == [grant EXCEPT ![c].voided = v] IN
                /\ g \in [Calls -> GrantRecord] /\ g[c].voided = v
                /\ \A b \in Calls : g[b].mint = grant[b].mint /\ g[b].spent = grant[b].spent
                /\ \A b \in Calls : b # c => g[b] = grant[b]
          BY DEF IInv, Types, GrantRecord
        <4>2. HasGrant(c) \in BOOLEAN
          BY DEF HasGrant
        <4>3. grant' = [grant EXCEPT ![c].voided = HasGrant(c)]
          BY Zenon, <2>5 DEF park, voidGrant
        <4> QED
          BY Zenon, <4>1, <4>2, <4>3 DEF HasGrant
      <3>7. stale' = IF grant[c].mint > 0 THEN stale \cup {<<c, grant[c].mint>>} ELSE stale
        BY Zenon, <2>5 DEF park, HasGrant
      <3>8. GrantInv'
        <4>1. \A b, n : <<b, n>> \in stale' => <<b, n>> \in stale \/ (b = c /\ n = grant[c].mint /\ n > 0)
          BY <3>7
        <4>2. \A b \in Calls : grant[b].mint \in Nat /\ (grant[b].voided => grant'[b].voided \/ b = c)
          BY <3>6 DEF IInv, Types, GrantRecord
        <4>3. \A b \in Calls : \A n : <<b, n>> \in stale' => n \in Nat /\ n > 0 /\ n <= mints'
          BY ZenonT(60), <2>1, <4>1, <4>2 DEF IInv, GrantInv
        <4>4. \A b \in Calls : <<b, grant'[b].mint>> \in stale' => grant'[b].voided
          <5> SUFFICES ASSUME NEW b \in Calls, <<b, grant[b].mint>> \in stale' PROVE grant'[b].voided
            BY Zenon, <3>6
          <5>1. grant[b].mint > 0
            BY Zenon, <4>3
          <5>2. CASE b = c
            BY Zenon, <3>6, <5>1, <5>2
          <5>3. CASE b # c
            BY Zenon, <3>6, <4>1, <4>2, <5>3 DEF IInv, GrantInv
          <5> QED
            BY Zenon, <5>2, <5>3
        <4>5. /\ \A j \in Ids : fc'[j].mint <= mints' /\ (fc'[j].st # "ran" => fc'[j].mint = 0)
              /\ \A j \in Ids : fc'[j].mint > 0 => fc'[j].ran \in Calls
              /\ \A b \in Calls : grant'[b].mint <= mints'
          BY <2>1, <3>1, <3>5, <3>6 DEF IInv, Types, GrantInv
        <4>6. \A j \in Ids, b \in Calls :
                fc'[j].mint > 0 /\ fc'[j].ran = b /\ grant'[b].mint = fc'[j].mint => grant'[b].spent = j
          BY <3>1, <3>5, <3>6 DEF IInv, GrantInv
        <4> QED
          BY Zenon, <4>3, <4>4, <4>5, <4>6 DEF GrantInv
      <3> QED
        BY Zenon, <2>1, <3>4, <3>6, <3>8 DEF IInv, Types
    <2> QED
      BY Zenon, <1>1, <2>2, <2>3, <2>4, <2>5 DEF beforeTool
  <1>2. ASSUME NEW i \in Ids, Redispatch(i)
        PROVE  /\ fc[i].st = "parked" /\ UNCHANGED <<policy, turns, world, stale>>
               /\ turn' \in [id : Nat, live : BOOLEAN]
               /\ fc[i].call \in Calls /\ CheckMutatingToolCall(fc[i].call)
    <2>1. turn' = [id |-> fc[i].inv, live |-> TRUE] /\ fc[i].inv \in Nat
      BY <1>2 DEF Redispatch, IInv, Types, CallRecord
    <2>2. turn' \in [id : Nat, live : BOOLEAN]
      BY <2>1
    <2> QED
      BY Zenon, <1>2, <2>2 DEF Redispatch, IInv, RecordInv, Waits
  <1>3. ASSUME NEW i \in Ids, refusedVerdict(i) \/ reject(i) PROVE IInv'
    <2>1. Redispatch(i) /\ UNCHANGED <<grant, mints>>
      BY Zenon, <1>3 DEF refusedVerdict, reject
    <2>2. PICK who \in {"refused_by_mast", "refused_by_operator"} : Answer(i, Decided(Refused(fc[i]), who))
      BY Zenon, <1>3 DEF refusedVerdict, reject
    <2>3. who \in Dispositions /\ who # "authorized"
      BY DEF Dispositions
    <2> QED
      BY Zenon, <1>2, <2>1, <2>2, <2>3, VerdictRecord, AnsweredAlone DEF IInv, Types
  <1>4. "refused_by_mast" \in Dispositions /\ "refused_by_mast" # "authorized"
    BY DEF Dispositions
  <1>5. ASSUME NEW i \in Ids, approve(i) PROVE IInv'
    <2>1. Redispatch(i) /\ UNCHANGED <<grant, mints>>
      BY Zenon, <1>5 DEF approve
    <2>2. PICK r \in permit(fc[i], fc[i].call) : Answer(i, Decided(r, "refused_by_mast"))
      BY Zenon, <1>5 DEF approve
    <2> QED
      BY Zenon, <1>2, <1>4, <2>1, <2>2, VerdictRecord, AnsweredAlone DEF IInv, Types
  <1>6. ASSUME NEW i \in Ids, NEW c \in Calls, edit(i, c) PROVE IInv'
    <2>1. Redispatch(i) /\ UNCHANGED <<grant, mints>>
      BY Zenon, <1>6 DEF edit
    <2>2. CASE Answer(i, Decided(Refused(fc[i]), "refused_by_mast"))
      BY Zenon, <1>2, <1>4, <2>1, <2>2, VerdictRecord, AnsweredAlone DEF IInv, Types
    <2>3. CASE CheckMutatingToolCall(c) /\ \E r \in permit(fc[i], c) : Answer(i, Decided(r, "refused_by_mast"))
      BY Zenon, <1>2, <1>4, <2>1, <2>3, VerdictRecord, AnsweredAlone DEF IInv, Types
    <2> QED
      BY Zenon, <1>6, <2>2, <2>3 DEF edit, prepareEdit
  <1>7. ASSUME NEW i \in Ids, approveChangeSet(i) PROVE IInv'
    <2>1. Redispatch(i) /\ grant' = Minted(i) /\ mints' = mints + 1
      BY Zenon, <1>7 DEF approveChangeSet
    <2>2. PICK r \in permit(fc[i], fc[i].call) : Answer(i, Decided(r, "refused_by_mast"))
      BY Zenon, <1>7 DEF approveChangeSet
    <2> DEFINE d == Decided(r, "refused_by_mast")
    <2>3. d \in CallRecord /\ d.mint = 0 /\ Waits(d) /\ Matches(d)
      BY Zenon, <1>2, <1>4, <2>1, VerdictRecord
    <2>4. fc' \in [Ids -> CallRecord] /\ RecordInv'
      BY Zenon, <1>2, <2>1, <2>2, <2>3, AnsweredAlone
    <2>5. fc'[i] = d /\ \A j \in Ids : j # i => fc'[j] = fc[j]
      BY Zenon, <2>2 DEF Answer, IInv, Types
    <2> HIDE DEF d
    <2>6. \A c \in Calls : [NoGrant EXCEPT !.mint = mints + 1, !.snap = world[c]] \in GrantRecord
          /\ [NoGrant EXCEPT !.mint = mints + 1, !.snap = world[c]].mint = mints + 1
      <3>1. \A c \in Calls : world[c] \in 0 .. 1 /\ mints + 1 \in Nat
        BY DEF IInv, Types
      <3>2. NoGrant \in GrantRecord
        BY DEF NoGrant, GrantRecord
      <3>3. \A g \in GrantRecord, n \in Nat, w \in 0 .. 1 :
              [g EXCEPT !.mint = n, !.snap = w] \in GrantRecord /\ [g EXCEPT !.mint = n, !.snap = w].mint = n
        BY Zenon DEF GrantRecord
      <3> QED
        BY Zenon, <3>1, <3>2, <3>3
    <2>7. /\ grant' \in [Calls -> GrantRecord]
          /\ \A c \in Calls : grant'[c] = grant[c] \/ grant'[c].mint = mints + 1
      BY Zenon, <2>1, <2>6 DEF Minted, IInv, Types
    <2>8. \A c \in Calls : grant[c].mint \in Nat
      BY DEF IInv, Types, GrantRecord
    <2>9. GrantInv'
      <3>1. UNCHANGED stale /\ mints \in Nat /\ mints' = mints + 1
        BY Zenon, <1>2, <2>1 DEF IInv, Types
      <3>2. \A j \in Ids : fc'[j].mint \in Nat /\ fc'[j].mint <= mints
        BY <2>3, <2>5 DEF IInv, Types, CallRecord, GrantInv
      <3>3. /\ \A j \in Ids : fc'[j].mint <= mints' /\ (fc'[j].st # "ran" => fc'[j].mint = 0)
            /\ \A j \in Ids : fc'[j].mint > 0 => fc'[j].ran \in Calls
            /\ \A c \in Calls : grant'[c].mint <= mints'
        BY <2>3, <2>5, <2>7, <2>8, <3>1, <3>2 DEF IInv, GrantInv
      <3>4. \A j \in Ids, c \in Calls :
              fc'[j].mint > 0 /\ fc'[j].ran = c /\ grant'[c].mint = fc'[j].mint => grant'[c].spent = j
        BY <2>3, <2>5, <2>7, <3>1, <3>2 DEF IInv, GrantInv
      <3>5. \A c \in Calls : \A n : <<c, n>> \in stale' => n \in Nat /\ n > 0 /\ n <= mints'
        BY <3>1 DEF IInv, GrantInv
      <3>6. \A c \in Calls : <<c, mints + 1>> \notin stale
        BY <3>1 DEF IInv, GrantInv
      <3>7. \A c \in Calls : <<c, grant'[c].mint>> \in stale' => grant'[c].voided
        BY Zenon, <2>7, <3>1, <3>6 DEF IInv, GrantInv
      <3> QED
        BY Zenon, <3>3, <3>4, <3>5, <3>7 DEF GrantInv
    <2>10. mints' \in Nat
      BY <2>1 DEF IInv, Types
    <2> QED
      BY Zenon, <1>2, <2>1, <2>4, <2>7, <2>9, <2>10 DEF IInv, Types
  <1>8. ASSUME newTurn \/ runEnds \/ checkChangeSet \/ Restart PROVE IInv'
    <2>1. UNCHANGED <<policy, grant, fc, stale, mints, world>>
      BY Zenon, <1>8 DEF newTurn, runEnds, checkChangeSet, Restart
    <2>2. turn' \in [id : Nat, live : BOOLEAN] /\ turns' \in Nat
      <3>1. turn \in [id : Nat, live : BOOLEAN] /\ turns \in Nat
        BY Zenon DEF IInv, Types
      <3>2. CASE newTurn
        BY <3>1, <3>2 DEF newTurn
      <3>3. CASE (runEnds \/ Restart) /\ turn' = [turn EXCEPT !.live = FALSE] /\ turns' = turns
        BY Zenon, <3>1, <3>3
      <3> QED
        BY Zenon, <1>8, <3>1, <3>2, <3>3 DEF runEnds, checkChangeSet, Restart
    <2> QED
      BY Zenon, <2>1, <2>2 DEF IInv, Types, RecordInv, Matches, Waits, CheckMutatingToolCall, GrantInv
  <1>9. ASSUME NEW c \in Calls, Move(c) PROVE IInv'
    <2>1. world' \in [Calls -> 0 .. 1]
      BY <1>9 DEF Move, IInv, Types
    <2> QED
      BY Zenon, <1>9, <2>1 DEF Move, IInv, Types, RecordInv, Matches, Waits, CheckMutatingToolCall, GrantInv
  <1>10. ASSUME NEW c \in Calls, Expire(c) PROVE IInv'
    <2>1. UNCHANGED <<policy, turn, turns, world, fc, stale, mints>> /\ grant' = [grant EXCEPT ![c].expired = TRUE]
      BY Zenon, <1>10 DEF Expire
    <2>2. /\ grant' \in [Calls -> GrantRecord]
          /\ \A b \in Calls : /\ grant'[b].mint = grant[b].mint /\ grant'[b].spent = grant[b].spent
                              /\ grant'[b].voided = grant[b].voided
      BY ZenonT(60), <2>1 DEF IInv, Types, GrantRecord
    <2>3. GrantInv'
      BY <2>1, <2>2 DEF IInv, GrantInv
    <2> QED
      BY Zenon, <2>1, <2>2, <2>3 DEF IInv, Types, RecordInv, Matches, Waits, CheckMutatingToolCall
  <1>11. ASSUME UNCHANGED gateVars PROVE IInv'
    BY Zenon, <1>11 DEF gateVars, IInv, Types, RecordInv, Matches, Waits, CheckMutatingToolCall, GrantInv
  <1> QED
    BY Zenon, <1>1, <1>3, <1>5, <1>6, <1>7, <1>8, <1>9, <1>10, <1>11 DEF Next, honorVerdict

LEMMA GateInvariant == ASSUME None \notin Ids PROVE Spec => []IInv
  BY InitIInv, NextIInv, PTL DEF Spec

\* recordDecision, prepareEdit and permit: under require_approval the decision
\* record of a call says it was authorized exactly if it ran, and what ran passed
\* the deny policy and left the prior state it declares, however many calls,
\* change sets, restarts and verdicts there are.
THEOREM RecordsAreTrue ==
  ASSUME None \notin Ids
  PROVE  Spec => []RecordMatchesEffect
  <1>1. IInv => RecordMatchesEffect
    BY Zenon DEF IInv, RecordInv, Matches, RecordMatchesEffect
  <1> QED
    BY <1>1, GateInvariant, PTL

\* checkGrant, spendGrant and voidGrant: a grant authorizes one call of the exact
\* arguments, on a precondition that reads as it did at approval, and never again
\* once it was found stale, for change sets of any size.
THEOREM GrantsBindOneCall ==
  ASSUME None \notin Ids
  PROVE  Spec => GrantBindsOneCall
  <1>1. IInv /\ [Next]_gateVars => [GrantSpentOnce]_gateVars
    <2> SUFFICES ASSUME IInv, Next, NEW i \in Ids, fc[i].mint = 0, fc'[i].mint > 0
                 PROVE  LET c == fc'[i].ran IN
                        /\ <<c, fc'[i].mint>> \notin stale /\ world[c] = grant[c].snap
                        /\ \A j \in Ids : fc[j].mint = fc'[i].mint => fc[j].ran # c
      BY Zenon DEF GrantSpentOnce
    <2>1. fc'[i] # fc[i]
      BY DEF IInv, Types, CallRecord
    <2>2. ASSUME NEW j \in Ids, NEW r, Answer(j, r) PROVE j = i /\ r = fc'[i]
      BY Zenon, <2>1, <2>2 DEF Answer, IInv, Types
    <2>3. ~ \E j \in Ids : honorVerdict(j)
      <3>1. ASSUME NEW j \in Ids, Redispatch(j), NEW who \in Dispositions, who # "authorized",
                   \/ Answer(j, Decided(Refused(fc[j]), who))
                   \/ \E c \in Calls : \E r \in permit(fc[j], c) : Answer(j, Decided(r, who))
            PROVE  FALSE
        <4>1. fc[j].st = "parked"
          BY Zenon, <3>1 DEF Redispatch
        <4>2. CASE Answer(j, Decided(Refused(fc[j]), who))
          BY <2>2, <3>1, <4>1, <4>2, VerdictRecord
        <4>3. CASE \E c \in Calls : \E r \in permit(fc[j], c) : Answer(j, Decided(r, who))
          BY <2>2, <3>1, <4>1, <4>3, VerdictRecord
        <4> QED
          BY Zenon, <3>1, <4>2, <4>3
      <3>2. \A j \in Ids : fc[j].st = "parked" => fc[j].call \in Calls
        BY Zenon DEF IInv, RecordInv, Waits
      <3>3. /\ "refused_by_mast" \in Dispositions /\ "refused_by_mast" # "authorized"
            /\ "refused_by_operator" \in Dispositions /\ "refused_by_operator" # "authorized"
        BY DEF Dispositions
      <3> QED
        BY ZenonT(60), <3>1, <3>2, <3>3
           DEF honorVerdict, refusedVerdict, reject, approve, approveChangeSet, edit, Redispatch
    <2>4. PICK j \in Ids, c \in Calls : beforeTool(j, c)
      BY Zenon, <2>1, <2>3 DEF Next, newTurn, runEnds, checkChangeSet, Restart, Move, Expire
    <2>5. spendGrant(j, c)
      <3>1. Refused(Dispatch(j, c)).mint = 0 /\ [Dispatch(j, c) EXCEPT !.st = "parked"].mint = 0
            /\ \A r \in permit(Dispatch(j, c), c) : r.mint = 0
        BY DispatchRecord, RefusedRecord, PermitRecord DEF CallRecord
      <3>2. fc'[i].mint # 0
        OBVIOUS
      <3> QED
        BY Zenon, <2>2, <2>4, <3>1, <3>2 DEF beforeTool, apply, dryRun, deniedByPolicy, refuseRepeat, park
    <2>6. PICK r \in permit(Dispatch(j, c), c) :
            Answer(j, Decided([r EXCEPT !.mint = IF r.st = "ran" THEN grant[c].mint ELSE 0], "refused_by_mast"))
      BY Zenon, <2>5 DEF spendGrant
    <2> DEFINE q == [r EXCEPT !.mint = IF r.st = "ran" THEN grant[c].mint ELSE 0]
    <2>7. r \in CallRecord /\ (r.st = "ran" => r.ran = c) /\ grant[c] \in GrantRecord
      BY PermitRecord, DispatchRecord DEF IInv, Types
    <2>8. q \in CallRecord /\ q.mint = (IF r.st = "ran" THEN grant[c].mint ELSE 0) /\ q.ran = r.ran
      BY <2>7 DEF CallRecord, GrantRecord
    <2> HIDE DEF q
    <2>9. j = i /\ fc'[i] = Decided(q, "refused_by_mast")
      <3>1. Answer(j, Decided(q, "refused_by_mast"))
        BY Zenon, <2>6 DEF q
      <3> QED
        BY Zenon, <2>2, <3>1
    <2>10. fc'[i].mint = q.mint /\ fc'[i].ran = q.ran
      BY <2>8, <2>9, DecidedRecord DEF Dispositions
    <2>11. fc'[i].ran = c /\ fc'[i].mint = grant[c].mint
      BY <2>7, <2>8, <2>10
    <2>12. ~grant[c].voided /\ grant[c].spent \in {None, i} /\ world[c] = grant[c].snap
      BY Zenon, <2>5, <2>9 DEF spendGrant, checkGrant, verify
    <2>13. <<c, grant[c].mint>> \notin stale
      BY Zenon, <2>12 DEF IInv, GrantInv
    <2>14. ASSUME NEW k \in Ids, fc[k].mint = fc'[i].mint, fc[k].ran = c PROVE FALSE
      <3>1. fc[k].mint > 0 /\ k # i
        BY <2>14
      <3>2. grant[c].spent = k
        BY <2>11, <2>14, <3>1 DEF IInv, GrantInv
      <3> QED
        BY Zenon, <2>12, <3>1, <3>2
    <2> QED
      BY Zenon, <2>11, <2>12, <2>13, <2>14
  <1> QED
    BY <1>1, GateInvariant, PTL DEF Spec, GrantBindsOneCall
================================================================================
