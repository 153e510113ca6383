-------------------------- MODULE AgentPoolProofs --------------------------
(***************************************************************************)
(* Theorems about AgentPool, for every set of children and calls, every    *)
(* cap and every number of turns: its types, its budget, that it           *)
(* implements SlotPool, what a child may be resumed from, and what a       *)
(* parent turn is told.                                                    *)
(***************************************************************************)
EXTENDS AgentPool, FiniteSetTheorems, TLAPS

(***************************************************************************)
(* Type correctness.                                                       *)
(***************************************************************************)

\* Ending a turn keeps the task, its flag and the history in their sets.
LEMMA EndTurnTyped ==
  ASSUME TypeOK, NEW c \in Child, NEW e \in End, EndTurn(c, e)
  PROVE  /\ task' \in [Child -> {"idle", "created", "running"}]
         /\ hard' \in [Child -> BOOLEAN]
         /\ ended' \in [Child -> [Turns -> End \cup {"no"}]]
<1>1. /\ task' \in [Child -> {"idle", "created", "running"}]
      /\ hard' \in [Child -> BOOLEAN]
  BY DEF TypeOK, EndTurn
<1>2. ended \in [Child -> [Turns -> End \cup {"no"}]]
  BY DEF TypeOK
<1>3. [ended[c] EXCEPT ![turn[c]] = e] \in [Turns -> End \cup {"no"}]
  BY <1>2
<1>4. ended' = [ended EXCEPT ![c] = [ended[c] EXCEPT ![turn[c]] = e]]
  BY DEF EndTurn
<1>5. ended' \in [Child -> [Turns -> End \cup {"no"}]]
  BY <1>2, <1>3, <1>4
<1>6. QED
  BY <1>1, <1>5

\* A child's own steps keep the variables in their sets.
LEMMA ChildStepTyped ==
  ASSUME TypeOK, NEW c \in Child, ChildStep(c)
  PROVE  TypeOK'
<1> USE DEF Outcome, Status, End, parentVars
<1>1. CASE Begin(c)
  BY <1>1 DEF Begin, TypeOK
<1>2. CASE \E s \in Status : FinishRun(c, s)
  <2>1. PICK s \in Status : FinishRun(c, s)
    BY <1>2
  <2>2. EndTurn(c, s) /\ s \in End
    BY <2>1 DEF FinishRun
  <2>3. QED
    BY <2>1, <2>2, EndTurnTyped DEF FinishRun, TypeOK
<1>3. CASE FailRun(c)
  BY <1>3, EndTurnTyped DEF FailRun, TypeOK
<1>4. CASE KillRun(c)
  BY <1>4, EndTurnTyped DEF KillRun, TypeOK
<1>5. CASE KillUnstarted(c)
  BY <1>5, EndTurnTyped DEF KillUnstarted, TypeOK
<1>6. QED
  BY <1>1, <1>2, <1>3, <1>4, <1>5 DEF ChildStep

\* So do the parent turn's steps on a child.
LEMMA ParentStepTyped ==
  ASSUME TypeOK, NEW c \in Child, ParentStep(c)
  PROVE  TypeOK'
<1> USE TurnsAssumption DEF TypeOK, parentVars, childVars, Calls, Turns, NoTurn
<1>1. CASE Spawn(c)
  BY <1>1 DEF Spawn, SpawnChild, StartTask
<1>2. CASE Resume(c)
  BY <1>2 DEF Resume, Resumable, StartTask, Spawned
<1>3. CASE Interrupt(c)
  BY <1>3 DEF Interrupt
<1>4. CASE WaitAtRest(c)
  BY <1>4 DEF WaitAtRest, Spawned, Live
<1>5. CASE CloseAtRest(c)
  BY <1>5 DEF CloseAtRest
<1>6. CASE ShutdownNext(c)
  BY <1>6 DEF ShutdownNext, HardCancel
<1>7. CASE \E k \in Call : Delegate(k, c)
  BY <1>7 DEF Delegate, SpawnChild, StartTask
<1>8. CASE \E k \in Call : Wait(k, c)
  BY <1>8 DEF Wait, Live, Spawned
<1>9. CASE \E k \in Call : Close(k, c)
  BY <1>9 DEF Close, Live, Spawned
<1>10. QED
  BY <1>1, <1>2, <1>3, <1>4, <1>5, <1>6, <1>7, <1>8, <1>9 DEF ParentStep

\* So do the steps of a call in flight.
LEMMA CallStepTyped ==
  ASSUME TypeOK, NEW k \in Call, CallStep(k)
  PROVE  TypeOK'
<1> USE DEF TypeOK, childVars, Return
<1>1. ASSUME call[k].tool # "none"
      PROVE  call[k] \in Calls /\ call[k].child \in Child /\ call[k].turn \in Turns
  BY <1>1 DEF Calls, NoCall
<1>2. CASE WaitReturns(k)
  BY <1>1, <1>2 DEF WaitReturns, Outcome, Status
<1>3. CASE WaitTimesOut(k)
  BY <1>1, <1>3 DEF WaitTimesOut
<1>4. CASE DelegateReturns(k)
  BY <1>1, <1>4 DEF DelegateReturns
<1>5. CASE CloseReturns(k)
  BY <1>5 DEF CloseReturns
<1>6. CASE CloseGraceExpires(k)
  BY <1>6 DEF CloseGraceExpires, HardCancel
<1>7. CASE CancelCall(k)
  <2>1. CASE call[k].tool = "delegate"
    <3>1. [call[k] EXCEPT !.tool = "unwinding"] \in Calls
      BY <1>1, <2>1 DEF Calls
    <3>2. call' = [call EXCEPT ![k] = [call[k] EXCEPT !.tool = "unwinding"]]
      BY <1>7, <2>1 DEF CancelCall
    <3>3. hard' \in [Child -> BOOLEAN]
      BY <1>7, <2>1 DEF CancelCall, HardCancel
    <3>4. QED
      BY <1>7, <3>1, <3>2, <3>3 DEF CancelCall
  <2>2. CASE call[k].tool # "delegate"
    BY <1>7, <2>2 DEF CancelCall, HardCancel
  <2>3. QED
    BY <2>1, <2>2
<1>8. QED
  BY <1>2, <1>3, <1>4, <1>5, <1>6, <1>7 DEF CallStep

\* Every reachable state of the pool is typed.
THEOREM TypeCorrect == Spec => []TypeOK
<1>1. Init => TypeOK
  BY DEF Init, TypeOK, NoTurn
<1>2. TypeOK /\ [Next]_vars => TypeOK'
  <2> SUFFICES ASSUME TypeOK, [Next]_vars PROVE TypeOK'
    OBVIOUS
  <2>1. CASE Shutdown
    BY <2>1 DEF Shutdown, TypeOK, Live, Spawned
  <2>2. CASE ShutdownReturns
    BY <2>2 DEF ShutdownReturns, TypeOK, childVars
  <2>3. CASE UNCHANGED vars
    BY <2>3 DEF vars, childVars, parentVars, TypeOK
  <2>4. QED
    BY <2>1, <2>2, <2>3, ChildStepTyped, ParentStepTyped, CallStepTyped DEF Next
<1>3. QED
  BY <1>1, <1>2, PTL DEF Spec

(***************************************************************************)
(* The budget.                                                             *)
(***************************************************************************)

\* The children, and so every set of them, are finitely many.
LEMMA ChildrenAreFinite ==
  ASSUME NEW S \in SUBSET Child
  PROVE  IsFiniteSet(S) /\ Cardinality(S) \in Nat
BY ChildAssumption, FS_Subset, FS_CardinalityType

\* A step that makes no child live keeps the cap.
LEMMA FewerLive ==
  ASSUME LiveBelowCap, Live' \subseteq Live
  PROVE  LiveBelowCap'
<1>1. Live \in SUBSET Child /\ Live' \in SUBSET Child
  BY DEF Live, Spawned
<1>2. Cardinality(Live') <= Cardinality(Live)
  BY <1>1, ChildrenAreFinite, FS_Subset
<1>3. /\ Cardinality(Live') \in Nat
      /\ Cardinality(Live) \in Nat
  BY <1>1, ChildrenAreFinite
<1>4. QED
  BY <1>2, <1>3, CapAssumption DEF LiveBelowCap

\* Nor does one that makes a child live below the cap break it.
LEMMA OneMoreLive ==
  ASSUME BelowCap, NEW c \in Child, Live' = Live \cup {c}
  PROVE  LiveBelowCap'
<1>1. Live \in SUBSET Child
  BY DEF Live, Spawned
<1>2. IsFiniteSet(Live) /\ Cardinality(Live) \in Nat
  BY <1>1, ChildrenAreFinite
<1>3. /\ Cardinality(Live \cup {c}) \in Nat
      /\ Cardinality(Live \cup {c}) <= Cardinality(Live) + 1
  <2>1. Cardinality(Live \cup {c}) =
          IF c \in Live THEN Cardinality(Live) ELSE Cardinality(Live) + 1
    BY <1>2, FS_AddElement
  <2>2. QED
    BY <1>2, <2>1
<1>4. Cardinality(Live) < MaxParallel
  BY DEF BelowCap
<1>5. QED
  BY <1>2, <1>3, <1>4, CapAssumption DEF LiveBelowCap

\* spawn: the fresh child is live and executing.
LEMMA SpawnKeepsCap ==
  ASSUME TypeOK, CapInv, NEW c \in Child, SpawnChild(c)
  PROVE  CapInv'
<1> USE DEF CapInv, TypeOK, SpawnChild, StartTask, NoTurn
<1>1. outcome[c] = NoOutcome
  BY DEF UnspawnedIsFresh
<1>2. Live' = Live \cup {c}
  BY <1>1 DEF Live, Spawned
<1>3. LiveBelowCap'
  BY <1>2, OneMoreLive
<1>4. ExecutingIsLive'
  BY <1>2 DEF ExecutingIsLive, Executing
<1>5. UnspawnedIsFresh'
  BY DEF UnspawnedIsFresh, Spawned
<1>6. QED
  BY <1>3, <1>4, <1>5

\* send to a child at rest: it becomes live again.
LEMMA ResumeKeepsCap ==
  ASSUME TypeOK, CapInv, NEW c \in Child, Resume(c)
  PROVE  CapInv'
<1> USE DEF CapInv, TypeOK, Resume, Resumable, StartTask, NoTurn
<1>1. turn[c] \in Nat /\ turn[c] # 0
  BY TurnsAssumption DEF Spawned, Turns
<1>2. Spawned' = Spawned
  BY <1>1 DEF Spawned
<1>3. Live' = Live \cup {c}
  BY <1>2 DEF Live, Spawned
<1>4. LiveBelowCap'
  BY <1>3, OneMoreLive
<1>5. ExecutingIsLive'
  BY <1>3 DEF ExecutingIsLive, Executing
<1>6. UnspawnedIsFresh'
  BY <1>2 DEF UnspawnedIsFresh, Spawned
<1>7. QED
  BY <1>4, <1>5, <1>6

\* A step that starts no task, and touches outcomes, flags and snapshots only
\* of spawned children.
LEMMA QuietStepKeepsCap ==
  ASSUME TypeOK, CapInv,
         turn' = turn,
         Executing' \subseteq Executing,
         \A c \in Child : c \in Executing' => outcome'[c] = outcome[c],
         \A c \in Child : outcome'[c] = NoOutcome => outcome[c] = NoOutcome,
         \A c \in Child \ Spawned : /\ outcome'[c] = outcome[c]
                                    /\ closed'[c] = closed[c]
                                    /\ snapshot'[c] = snapshot[c]
  PROVE  CapInv'
<1>1. Spawned' = Spawned
  BY DEF Spawned
<1>2. Live' \subseteq Live
  BY <1>1 DEF Live, Spawned
<1>3. LiveBelowCap'
  BY <1>2, FewerLive DEF CapInv
<1>4. ExecutingIsLive'
  BY <1>1 DEF CapInv, ExecutingIsLive, Live, Executing, Spawned
<1>5. UnspawnedIsFresh'
  BY <1>1 DEF CapInv, UnspawnedIsFresh
<1>6. QED
  BY <1>3, <1>4, <1>5 DEF CapInv

\* A turn that ends frees its slot, or leaves it taken.
LEMMA ChildStepKeepsCap ==
  ASSUME TypeOK, CapInv, NEW c \in Child, ChildStep(c)
  PROVE  CapInv'
<1> USE DEF TypeOK, NoOutcome, EndTurn
<1>1. task[c] # "idle"
  BY DEF ChildStep, Begin, FinishRun, FailRun, KillRun, KillUnstarted
<1>2. c \in Spawned /\ outcome[c] = NoOutcome
  BY <1>1 DEF CapInv, ExecutingIsLive, Executing, Live
<1>3. CASE Begin(c)
  BY <1>2, <1>3, QuietStepKeepsCap DEF Begin, Executing
<1>4. CASE \E s \in Status : FinishRun(c, s)
  BY <1>2, <1>4, QuietStepKeepsCap DEF FinishRun, Executing, Status
<1>5. CASE FailRun(c)
  BY <1>2, <1>5, QuietStepKeepsCap DEF FailRun, Executing
<1>6. CASE KillRun(c)
  BY <1>2, <1>6, QuietStepKeepsCap DEF KillRun, Executing
<1>7. CASE KillUnstarted(c)
  BY <1>2, <1>7, QuietStepKeepsCap DEF KillUnstarted, Executing
<1>8. QED
  BY <1>3, <1>4, <1>5, <1>6, <1>7 DEF ChildStep

\* The parent turn's steps: two of them take a slot, below the cap.
LEMMA ParentStepKeepsCap ==
  ASSUME TypeOK, CapInv, NEW c \in Child, ParentStep(c)
  PROVE  CapInv'
<1> USE DEF childVars
<1>1. CASE Spawn(c)
  BY <1>1, SpawnKeepsCap DEF Spawn
<1>2. CASE Resume(c)
  BY <1>2, ResumeKeepsCap
<1>3. CASE \E k \in Call : Delegate(k, c)
  BY <1>3, SpawnKeepsCap DEF Delegate
<1>4. CASE Interrupt(c)
  BY <1>4, QuietStepKeepsCap DEF Interrupt, Executing
<1>5. CASE WaitAtRest(c)
  BY <1>5, QuietStepKeepsCap DEF WaitAtRest, Executing
<1>6. CASE CloseAtRest(c)
  BY <1>6, QuietStepKeepsCap DEF CloseAtRest, Executing, TypeOK
<1>7. CASE ShutdownNext(c)
  BY <1>7, QuietStepKeepsCap DEF ShutdownNext, Executing
<1>8. CASE \E k \in Call : Wait(k, c)
  BY <1>8, QuietStepKeepsCap DEF Wait, Executing
<1>9. CASE \E k \in Call : Close(k, c)
  BY <1>9, QuietStepKeepsCap DEF Close, Executing, Live, TypeOK
<1>10. QED
  BY <1>1, <1>2, <1>3, <1>4, <1>5, <1>6, <1>7, <1>8, <1>9 DEF ParentStep

\* No step of a call in flight starts a task or touches a handle.
LEMMA CallStepKeepsCap ==
  ASSUME TypeOK, CapInv, NEW k \in Call, CallStep(k)
  PROVE  CapInv'
<1>1. UNCHANGED <<task, outcome, closed, snapshot, turn>>
  BY DEF CallStep, WaitReturns, WaitTimesOut, DelegateReturns, CloseReturns,
         CloseGraceExpires, CancelCall, childVars
<1>2. QED
  BY <1>1, QuietStepKeepsCap DEF Executing

\* The strengthening is inductive.
LEMMA CapInvInductive == Spec => []CapInv
<1>1. Init => CapInv
  <2> SUFFICES ASSUME Init PROVE CapInv
    OBVIOUS
  <2>1. Live = {} /\ Executing = {}
    BY DEF Init, Live, Spawned, Executing
  <2>2. LiveBelowCap
    BY <2>1, FS_EmptySet, CapAssumption DEF LiveBelowCap
  <2>3. QED
    BY <2>1, <2>2 DEF CapInv, ExecutingIsLive, UnspawnedIsFresh, Init
<1>2. TypeOK /\ CapInv /\ [Next]_vars => CapInv'
  <2> SUFFICES ASSUME TypeOK, CapInv, [Next]_vars PROVE CapInv'
    OBVIOUS
  <2>1. CASE Shutdown
    <3>1. \A c \in Child \ Spawned : closed'[c] = closed[c]
      BY <2>1 DEF Shutdown, TypeOK
    <3>2. QED
      BY <2>1, <3>1, QuietStepKeepsCap DEF Shutdown, Executing
  <2>2. CASE ShutdownReturns
    BY <2>2, QuietStepKeepsCap DEF ShutdownReturns, Executing, childVars
  <2>3. CASE UNCHANGED vars
    BY <2>3, QuietStepKeepsCap DEF vars, Executing, childVars
  <2>4. QED
    BY <2>1, <2>2, <2>3, ChildStepKeepsCap, ParentStepKeepsCap, CallStepKeepsCap
       DEF Next
<1>3. QED
  BY <1>1, <1>2, TypeCorrect, PTL DEF Spec

\* max_parallel caps the children that really run, although spawn and send
\* count handles (pool.py: spawn, send).
THEOREM BudgetHolds == Spec => []ParallelCap
<1>1. CapInv => ParallelCap
  <2> SUFFICES ASSUME CapInv PROVE ParallelCap
    OBVIOUS
  <2>1. Live \in SUBSET Child /\ Executing \subseteq Live
    BY DEF Live, Spawned, CapInv, ExecutingIsLive
  <2>2. /\ Cardinality(Executing) <= Cardinality(Live)
        /\ Cardinality(Executing) \in Nat
        /\ Cardinality(Live) \in Nat
    BY <2>1, ChildrenAreFinite, FS_Subset
  <2>3. QED
    BY <2>2, CapAssumption DEF CapInv, LiveBelowCap, ParallelCap
<1>2. QED
  BY <1>1, CapInvInductive, PTL

(***************************************************************************)
(* The pool implements SlotPool.                                           *)
(***************************************************************************)

\* A step that starts no task is a release, a retirement or a stutter.
LEMMA QuietStepRefines ==
  ASSUME TypeOK, TypeOK',
         \A c \in Child : closed[c] => closed'[c],
         task' = task
  PROVE  [SP!Next]_(SP!vars)
<1>1. Executing' = Executing
  BY DEF Executing
<1>2. SP!Retire
  BY <1>1 DEF SP!Retire
<1>3. QED
  BY <1>2 DEF SP!Next

\* A task that starts is admitted: below the cap, to a child not closed.
LEMMA StartRefines ==
  ASSUME TypeOK, CapInv, NEW c \in Child, NEW t,
         StartTask(c, t), BelowCap, ~ closed[c],
         outcome[c] # NoOutcome \/ c \notin Spawned, UNCHANGED closed
  PROVE  SP!Admit(c)
<1>1. c \notin Executing
  BY DEF CapInv, ExecutingIsLive, Live
<1>2. Executing' = Executing \cup {c}
  BY DEF StartTask, Executing, TypeOK
<1>3. Cardinality(Executing) < MaxParallel
  <2>1. Live \in SUBSET Child /\ Executing \subseteq Live
    BY DEF Live, Spawned, CapInv, ExecutingIsLive
  <2>2. /\ Cardinality(Executing) <= Cardinality(Live)
        /\ Cardinality(Executing) \in Nat
        /\ Cardinality(Live) \in Nat
    BY <2>1, ChildrenAreFinite, FS_Subset
  <2>3. QED
    BY <2>2, CapAssumption DEF BelowCap
<1>4. SP!Cardinality(Executing) = Cardinality(Executing)
  BY DEF SP!Cardinality, Cardinality
<1>5. QED
  BY <1>1, <1>2, <1>3, <1>4 DEF SP!Admit

\* A child's own steps.
LEMMA ChildStepRefines ==
  ASSUME TypeOK, NEW c \in Child, ChildStep(c)
  PROVE  [SP!Next]_(SP!vars)
<1>1. UNCHANGED closed
  BY DEF ChildStep, Begin, FinishRun, FailRun, KillRun, KillUnstarted
<1>2. CASE Begin(c)
  <2>1. Executing' = Executing
    BY <1>2 DEF Begin, Executing, TypeOK
  <2>2. QED
    BY <1>1, <2>1 DEF SP!vars
<1>3. CASE ~ Begin(c)
  <2>1. task[c] # "idle" /\ task' = [task EXCEPT ![c] = "idle"]
    BY <1>3 DEF ChildStep, FinishRun, FailRun, KillRun, KillUnstarted, EndTurn
  <2>2. c \in Executing /\ Executing' = Executing \ {c}
    BY <2>1 DEF Executing, TypeOK
  <2>3. SP!Release(c)
    BY <1>1, <2>2 DEF SP!Release
  <2>4. QED
    BY <2>3 DEF SP!Next
<1>4. QED
  BY <1>2, <1>3

\* The parent turn's steps on a child.
LEMMA ParentStepRefines ==
  ASSUME TypeOK, TypeOK', CapInv, NEW c \in Child, ParentStep(c)
  PROVE  [SP!Next]_(SP!vars)
<1> USE DEF childVars
<1>1. ASSUME SpawnChild(c)
      PROVE  [SP!Next]_(SP!vars)
  <2>1. ~ closed[c]
    BY <1>1 DEF SpawnChild, CapInv, UnspawnedIsFresh
  <2>2. SP!Admit(c)
    BY <1>1, <2>1, StartRefines DEF SpawnChild
  <2>3. QED
    BY <2>2 DEF SP!Next
<1>2. CASE Resume(c)
  <2>1. SP!Admit(c)
    BY <1>2, StartRefines DEF Resume, Resumable
  <2>2. QED
    BY <2>1 DEF SP!Next
<1>3. CASE Spawn(c) \/ \E k \in Call : Delegate(k, c)
  BY <1>1, <1>3 DEF Spawn, Delegate
<1>4. CASE \/ Interrupt(c) \/ WaitAtRest(c) \/ CloseAtRest(c) \/ ShutdownNext(c)
           \/ \E k \in Call : Wait(k, c) \/ Close(k, c)
  <2>1. task' = task
    BY <1>4 DEF Interrupt, WaitAtRest, CloseAtRest, ShutdownNext, Wait, Close
  <2>2. \A d \in Child : closed[d] => closed'[d]
    BY <1>4 DEF Interrupt, WaitAtRest, CloseAtRest, ShutdownNext, Wait, Close,
                TypeOK
  <2>3. QED
    BY <2>1, <2>2, QuietStepRefines
<1>5. QED
  BY <1>2, <1>3, <1>4 DEF ParentStep

\* The pool keeps the promise of SlotPool: never more than the cap at work,
\* no turn for a closed child (pool.py: spawn, send, close, shutdown).
THEOREM ImplementsSlotPool == Spec => RefinesSlotPool
<1>1. Init => SP!Init
  BY DEF Init, SP!Init, Executing
<1>2. TypeOK /\ TypeOK' /\ CapInv /\ [Next]_vars => [SP!Next]_(SP!vars)
  <2> SUFFICES ASSUME TypeOK, TypeOK', CapInv, [Next]_vars
               PROVE  [SP!Next]_(SP!vars)
    OBVIOUS
  <2>1. CASE \E k \in Call : CallStep(k)
    <3>1. UNCHANGED <<task, closed>>
      BY <2>1 DEF CallStep, WaitReturns, WaitTimesOut, DelegateReturns,
                  CloseReturns, CloseGraceExpires, CancelCall, childVars
    <3>2. QED
      BY <3>1, QuietStepRefines
  <2>2. CASE Shutdown
    BY <2>2, QuietStepRefines DEF Shutdown
  <2>3. CASE ShutdownReturns
    BY <2>3, QuietStepRefines DEF ShutdownReturns, childVars
  <2>4. CASE UNCHANGED vars
    BY <2>4, QuietStepRefines DEF vars, childVars
  <2>5. QED
    BY <2>1, <2>2, <2>3, <2>4, ChildStepRefines, ParentStepRefines DEF Next
<1>3. QED
  BY <1>1, <1>2, TypeCorrect, CapInvInductive, PTL
     DEF Spec, RefinesSlotPool, SP!Spec

-----------------------------------------------------------------------------
(***************************************************************************)
(* What a child may be resumed from: the snapshots that                    *)
(* AgentPool.send starts a follow-up turn from.                            *)
(*                                                                         *)
(* Neither statement is inductive.  SeedInv adds which turns can have an   *)
(* ending at all, so that a new turn starts without one, and that a        *)
(* snapshot is of a clean turn.  KillInv adds why a kill is harmless: the  *)
(* flag is only raised for children that are closed, or in their first     *)
(* turn and without a snapshot, whoever raises it.                         *)
(***************************************************************************)

\* Only turns that are over have an ending.
EndedAreOver ==
  \A c \in Child, t \in Turns :
    ended[c][t] # "no" => t < turn[c] \/ (t = turn[c] /\ task[c] = "idle")

\* A snapshot was taken from a turn that ended cleanly.
SnapshotIsClean ==
  \A c \in Child :
    snapshot[c] # NoTurn => snapshot[c] \in Turns /\ ended[c][snapshot[c]] \in Status

SeedInv == EndedAreOver /\ SnapshotIsClean /\ SeedIsLastCleanTurn

\* A child about to be killed cannot be resumed afterwards.
HardSpares == \A c \in Child : hard[c] => closed[c] \/ snapshot[c] = NoTurn

\* A first turn in progress has nothing to be resumed from.
FirstTurnIsFresh ==
  \A c \in Child : task[c] # "idle" /\ turn[c] = 1 => snapshot[c] = NoTurn

\* Those who raise the flag: a delegation, for the turn it spawned; a close;
\* the shutdown.
DelegationsAreFirst ==
  \A k \in Call : call[k].tool = "delegate" => call[k].turn = 1
ClosesAreClosed ==
  \A k \in Call : call[k].tool = "agent_close" => closed[call[k].child]
LeftIsClosed == \A c \in left : closed[c]

KillInv ==
  /\ HardSpares
  /\ FirstTurnIsFresh
  /\ DelegationsAreFirst
  /\ ClosesAreClosed
  /\ LeftIsClosed
  /\ KilledIsNotResumable
-----------------------------------------------------------------------------
(***************************************************************************)
(* The seed.                                                               *)
(***************************************************************************)

\* What EndTurn does to the history and the task.
LEMMA EndTurnEffect ==
  ASSUME TypeOK, CapInv, NEW c \in Child, task[c] # "idle",
         NEW e \in End, EndTurn(c, e)
  PROVE  /\ turn[c] \in Turns
         /\ ended'[c][turn[c]] = e
         /\ \A t \in Turns : t # turn[c] => ended'[c][t] = ended[c][t]
         /\ \A d \in Child : d # c => ended'[d] = ended[d] /\ task'[d] = task[d]
         /\ task'[c] = "idle"
<1>1. turn[c] \in Turns
  BY DEF CapInv, ExecutingIsLive, Executing, Live, Spawned, TypeOK
<1>2. ended \in [Child -> [Turns -> End \cup {"no"}]]
  BY DEF TypeOK
<1>3. ended' = [ended EXCEPT ![c] = [ended[c] EXCEPT ![turn[c]] = e]]
  BY DEF EndTurn
<1>4. ended'[c] = [ended[c] EXCEPT ![turn[c]] = e]
  BY <1>2, <1>3
<1>5. ended[c] \in [Turns -> End \cup {"no"}]
  BY <1>2
<1>6. /\ ended'[c][turn[c]] = e
      /\ \A t \in Turns : t # turn[c] => ended'[c][t] = ended[c][t]
  BY <1>1, <1>4, <1>5
<1>7. \A d \in Child : d # c => ended'[d] = ended[d]
  BY <1>2, <1>3
<1>8. /\ task'[c] = "idle"
      /\ \A d \in Child : d # c => task'[d] = task[d]
  BY DEF EndTurn, TypeOK
<1>9. QED
  BY <1>1, <1>6, <1>7, <1>8

\* A step that ends no turn and takes no snapshot; a new turn is a later one.
LEMMA SeedKept ==
  ASSUME TypeOK, SeedInv, UNCHANGED <<ended, snapshot>>,
         \A c \in Child : \/ turn'[c] = turn[c] /\ (task[c] = "idle" => task'[c] = "idle")
                          \/ turn'[c] \in Turns /\ turn'[c] > turn[c]
  PROVE  SeedInv'
<1>1. EndedAreOver'
  <2> SUFFICES ASSUME NEW c \in Child, NEW t \in Turns, ended'[c][t] # "no"
               PROVE  t < turn'[c] \/ (t = turn'[c] /\ task'[c] = "idle")
    BY DEF EndedAreOver
  <2>1. t < turn[c] \/ (t = turn[c] /\ task[c] = "idle")
    BY DEF SeedInv, EndedAreOver
  <2>2. turn[c] \in Nat /\ t \in Nat
    BY TurnsAssumption DEF TypeOK, Turns, NoTurn
  <2>3. CASE turn'[c] = turn[c] /\ (task[c] = "idle" => task'[c] = "idle")
    BY <2>1, <2>3
  <2>4. CASE turn'[c] \in Turns /\ turn'[c] > turn[c]
    BY <2>1, <2>2, <2>4, TurnsAssumption DEF Turns
  <2>5. QED
    BY <2>3, <2>4
<1>2. SnapshotIsClean'
  BY DEF SeedInv, SnapshotIsClean
<1>3. SeedIsLastCleanTurn'
  BY DEF SeedInv, SeedIsLastCleanTurn
<1>4. QED
  BY <1>1, <1>2, <1>3 DEF SeedInv

\* A turn that ends is recorded as over.
LEMMA EndTurnKeepsOver ==
  ASSUME TypeOK, CapInv, EndedAreOver, NEW c \in Child, task[c] # "idle",
         NEW e \in End, EndTurn(c, e), UNCHANGED turn
  PROVE  EndedAreOver'
<1> SUFFICES ASSUME NEW d \in Child, NEW t \in Turns, ended'[d][t] # "no"
             PROVE  t < turn'[d] \/ (t = turn'[d] /\ task'[d] = "idle")
  BY DEF EndedAreOver
<1>1. CASE d # c
  BY <1>1, EndTurnEffect DEF EndedAreOver
<1>2. CASE d = c /\ t = turn[c]
  BY <1>2, EndTurnEffect
<1>3. CASE d = c /\ t # turn[c]
  BY <1>3, EndTurnEffect DEF EndedAreOver
<1>4. QED
  BY <1>1, <1>2, <1>3

\* A turn that ends without a transcript leaves the seed as it is.
LEMMA UncleanEndKeepsSeed ==
  ASSUME TypeOK, CapInv, SeedInv, NEW c \in Child, task[c] # "idle",
         NEW e \in End \ Status, EndTurn(c, e), UNCHANGED <<turn, snapshot>>
  PROVE  SeedInv'
<1>1. EndedAreOver'
  BY EndTurnKeepsOver DEF SeedInv
<1>2. ended[c][turn[c]] = "no"
  <2>1. turn[c] \in Turns
    BY EndTurnEffect
  <2>2. turn[c] \in Nat
    BY <2>1, TurnsAssumption DEF Turns
  <2>3. QED
    BY <2>1, <2>2 DEF SeedInv, EndedAreOver
<1>3. "no" \notin Status
  BY DEF Status
<1>4. \A d \in Child, t \in Turns :
        (ended'[d][t] \in Status) <=> (ended[d][t] \in Status)
  <2> SUFFICES ASSUME NEW d \in Child, NEW t \in Turns
               PROVE  (ended'[d][t] \in Status) <=> (ended[d][t] \in Status)
    OBVIOUS
  <2>1. CASE d = c /\ t = turn[c]
    BY <1>2, <1>3, <2>1, EndTurnEffect
  <2>2. CASE d # c \/ t # turn[c]
    BY <2>2, EndTurnEffect
  <2>3. QED
    BY <2>1, <2>2
<1>5. SnapshotIsClean'
  BY <1>4 DEF SeedInv, SnapshotIsClean
<1>6. SeedIsLastCleanTurn'
  <2> SUFFICES ASSUME NEW d \in Child, NEW t \in Turns, ended'[d][t] \in Status
               PROVE  snapshot'[d] >= t /\ ended'[d][snapshot'[d]] \in Status
    BY DEF SeedIsLastCleanTurn
  <2>1. snapshot[d] >= t
    BY <1>4 DEF SeedInv, SeedIsLastCleanTurn
  <2>2. snapshot[d] # NoTurn
    BY <2>1, TurnsAssumption DEF Turns, NoTurn
  <2>3. QED
    BY <1>5, <2>1, <2>2 DEF SnapshotIsClean
<1>7. QED
  BY <1>1, <1>5, <1>6 DEF SeedInv

\* A turn that ends cleanly becomes the seed.
LEMMA CleanEndMakesSeed ==
  ASSUME TypeOK, CapInv, SeedInv, NEW c \in Child, NEW s \in Status, FinishRun(c, s)
  PROVE  SeedInv'
<1>1. /\ task[c] # "idle"
      /\ s \in End
      /\ EndTurn(c, s)
      /\ turn' = turn
      /\ snapshot' = [snapshot EXCEPT ![c] = turn[c]]
  BY DEF FinishRun, End, Outcome
<1>2. EndedAreOver'
  BY <1>1, EndTurnKeepsOver DEF SeedInv
<1>3. /\ snapshot'[c] = turn[c]
      /\ \A d \in Child : d # c => snapshot'[d] = snapshot[d]
  BY <1>1 DEF TypeOK
<1>4. /\ turn[c] \in Turns
      /\ ended'[c][turn[c]] = s
      /\ \A d \in Child : d # c => ended'[d] = ended[d]
  BY <1>1, EndTurnEffect
<1>5. SnapshotIsClean'
  BY <1>3, <1>4 DEF SeedInv, SnapshotIsClean
<1>6. SeedIsLastCleanTurn'
  <2> SUFFICES ASSUME NEW d \in Child, NEW t \in Turns, ended'[d][t] \in Status
               PROVE  snapshot'[d] >= t /\ ended'[d][snapshot'[d]] \in Status
    BY DEF SeedIsLastCleanTurn
  <2>1. CASE d # c
    BY <1>3, <1>4, <2>1 DEF SeedInv, SeedIsLastCleanTurn
  <2>2. CASE d = c
    <3>1. ended'[c][t] # "no"
      BY <2>2 DEF Status
    <3>2. t <= turn[c]
      BY <1>1, <1>2, <1>4, <3>1, TurnsAssumption DEF EndedAreOver, Turns
    <3>3. QED
      BY <1>3, <1>4, <2>2, <3>2, TurnsAssumption DEF Turns
  <2>3. QED
    BY <2>1, <2>2
<1>7. QED
  BY <1>2, <1>5, <1>6 DEF SeedInv

\* SeedInv is inductive, relative to what is known of the pool.
LEMMA SeedStep == TypeOK /\ CapInv /\ SeedInv /\ [Next]_vars => SeedInv'
<1> SUFFICES ASSUME TypeOK, CapInv, SeedInv, [Next]_vars PROVE SeedInv'
  OBVIOUS
<1>1. ASSUME NEW c \in Child, ChildStep(c) PROVE SeedInv'
  <2>1. CASE Begin(c)
    BY <2>1, SeedKept DEF Begin, TypeOK
  <2>2. CASE \E s \in Status : FinishRun(c, s)
    BY <2>2, CleanEndMakesSeed
  <2>3. CASE FailRun(c)
    BY <2>3, UncleanEndKeepsSeed DEF FailRun, End, Outcome, Status
  <2>4. CASE KillRun(c)
    BY <2>4, UncleanEndKeepsSeed DEF KillRun, End, Outcome, Status
  <2>5. CASE KillUnstarted(c)
    BY <2>5, UncleanEndKeepsSeed DEF KillUnstarted, End, Outcome, Status
  <2>6. QED
    BY <1>1, <2>1, <2>2, <2>3, <2>4, <2>5 DEF ChildStep
<1>2. ASSUME NEW c \in Child, SpawnChild(c) PROVE SeedInv'
  BY <1>2, SeedKept DEF SpawnChild, StartTask, Spawned, TypeOK, NoTurn
<1>3. ASSUME NEW c \in Child, Resume(c) PROVE SeedInv'
  <2>1. turn[c] \in Nat /\ turn[c] + 1 \in Turns
    BY <1>3, TurnsAssumption DEF Resume, TypeOK, Turns, NoTurn
  <2>2. QED
    BY <1>3, <2>1, SeedKept DEF Resume, StartTask, TypeOK
<1>4. ASSUME NEW c \in Child, ParentStep(c) PROVE SeedInv'
  <2>1. CASE Spawn(c) \/ \E k \in Call : Delegate(k, c)
    BY <1>2, <2>1 DEF Spawn, Delegate
  <2>2. CASE Resume(c)
    BY <1>3, <2>2
  <2>3. CASE \/ Interrupt(c) \/ WaitAtRest(c) \/ CloseAtRest(c) \/ ShutdownNext(c)
             \/ \E k \in Call : Wait(k, c) \/ Close(k, c)
    <3>1. UNCHANGED <<task, turn, ended, snapshot>>
      BY <2>3 DEF Interrupt, WaitAtRest, CloseAtRest, ShutdownNext, Wait, Close,
                  childVars
    <3>2. QED
      BY <3>1, SeedKept
  <2>4. QED
    BY <1>4, <2>1, <2>2, <2>3 DEF ParentStep
<1>5. CASE (\E k \in Call : CallStep(k)) \/ Shutdown \/ ShutdownReturns \/ UNCHANGED vars
  <2>1. UNCHANGED <<task, turn, ended, snapshot>>
    BY <1>5 DEF CallStep, WaitReturns, WaitTimesOut, DelegateReturns, CloseReturns,
                CloseGraceExpires, CancelCall, Shutdown, ShutdownReturns,
                vars, childVars
  <2>2. QED
    BY <2>1, SeedKept
<1>6. QED
  BY <1>1, <1>4, <1>5 DEF Next

LEMMA SeedInvHolds == Spec => []SeedInv
<1>1. Init => SeedInv
  BY DEF Init, SeedInv, EndedAreOver, SnapshotIsClean, SeedIsLastCleanTurn, Status,
         NoTurn
<1>2. QED
  BY <1>1, SeedStep, TypeCorrect, CapInvInductive, PTL DEF Spec

\* A follow-up turn starts from the transcript of the last turn that ended
\* cleanly, whatever failed or was killed since (pool.py: _run_child, send).
THEOREM SeedsAreClean == Spec => []SeedIsLastCleanTurn
<1>1. SeedInv => SeedIsLastCleanTurn
  BY DEF SeedInv
<1>2. QED
  BY <1>1, SeedInvHolds, PTL
-----------------------------------------------------------------------------
(***************************************************************************)
(* The kill.                                                               *)
(***************************************************************************)

\* The flag is raised at most for c, and never lowered for another child.
LEMMA HardCancelEffect ==
  ASSUME TypeOK, NEW c \in Child, HardCancel(c)
  PROVE  /\ \A d \in Child : d # c => hard'[d] = hard[d]
         /\ hard'[c] => hard[c] \/ task[c] # "idle"
BY DEF HardCancel, TypeOK

\* A step that starts and ends no turn, reopens no child, and raises the flag
\* only for children that are closed or have no snapshot.
LEMMA KillKept ==
  ASSUME TypeOK, KillInv,
         UNCHANGED <<turn, ended, snapshot>>,
         \A c \in Child : task'[c] # "idle" => task[c] # "idle",
         \A c \in Child : closed[c] => closed'[c],
         \A c \in Child : hard'[c] => hard[c] \/ closed[c] \/ snapshot[c] = NoTurn,
         \A c \in left' : closed'[c],
         \A k \in Call : /\ call'[k].tool = "delegate" => call'[k].turn = 1
                         /\ call'[k].tool = "agent_close" => closed'[call'[k].child]
  PROVE  KillInv'
<1>1. HardSpares' /\ FirstTurnIsFresh'
  BY DEF KillInv, HardSpares, FirstTurnIsFresh
<1>2. DelegationsAreFirst' /\ ClosesAreClosed' /\ LeftIsClosed'
  BY DEF DelegationsAreFirst, ClosesAreClosed, LeftIsClosed
<1>3. KilledIsNotResumable'
  BY DEF KillInv, KilledIsNotResumable, Spawned
<1>4. QED
  BY <1>1, <1>2, <1>3 DEF KillInv

\* The calls in flight and the shutdown are as before, and so is what they
\* rely on.
LEMMA CallsKept ==
  ASSUME KillInv, UNCHANGED <<call, left, closed>>
  PROVE  DelegationsAreFirst' /\ ClosesAreClosed' /\ LeftIsClosed'
BY DEF KillInv, DelegationsAreFirst, ClosesAreClosed, LeftIsClosed

\* A child's own steps: only a kill leaves a killed turn, and it takes the flag.
LEMMA ChildStepKeepsKill ==
  ASSUME TypeOK, CapInv, KillInv, NEW c \in Child, ChildStep(c)
  PROVE  KillInv'
<1> USE DEF parentVars
<1>1. CASE Begin(c)
  <2>1. \A d \in Child : task'[d] # "idle" => task[d] # "idle"
    BY <1>1 DEF Begin, TypeOK
  <2>2. QED
    BY <1>1, <2>1, KillKept DEF Begin, KillInv, DelegationsAreFirst, ClosesAreClosed,
                                LeftIsClosed
<1>2. ASSUME NEW e \in End, task[c] # "idle", EndTurn(c, e),
             UNCHANGED <<turn, closed, call, left>>,
             \A d \in Child : d # c => snapshot'[d] = snapshot[d],
             e = "killed" => hard[c] /\ snapshot'[c] = snapshot[c]
      PROVE  KillInv'
  <2>1. /\ turn[c] \in Turns
        /\ ended'[c][turn[c]] = e
        /\ \A d \in Child : d # c => ended'[d] = ended[d] /\ task'[d] = task[d]
        /\ task'[c] = "idle"
    BY <1>2, EndTurnEffect
  <2>2. /\ \A d \in Child : d # c => hard'[d] = hard[d]
        /\ ~ hard'[c]
    BY <1>2 DEF EndTurn, TypeOK
  <2>3. HardSpares'
    BY <1>2, <2>2 DEF KillInv, HardSpares
  <2>4. FirstTurnIsFresh'
    BY <1>2, <2>1 DEF KillInv, FirstTurnIsFresh
  <2>5. KilledIsNotResumable'
    <3> SUFFICES ASSUME NEW d \in Spawned', ended'[d][turn'[d]] = "killed"
                 PROVE  closed'[d] \/ snapshot'[d] = NoTurn
      BY DEF KilledIsNotResumable
    <3>1. d \in Child /\ d \in Spawned
      BY <1>2 DEF Spawned
    <3>2. CASE d # c
      BY <1>2, <2>1, <3>1, <3>2 DEF KillInv, KilledIsNotResumable
    <3>3. CASE d = c
      BY <1>2, <2>1, <3>3 DEF KillInv, HardSpares
    <3>4. QED
      BY <3>2, <3>3
  <2>6. QED
    BY <1>2, <2>3, <2>4, <2>5, CallsKept DEF KillInv
<1>3. CASE \E s \in Status : FinishRun(c, s)
  <2>1. PICK s \in Status : FinishRun(c, s)
    BY <1>3
  <2>2. s \in End /\ s # "killed"
    BY DEF End, Outcome, Status
  <2>3. \A d \in Child : d # c => snapshot'[d] = snapshot[d]
    BY <2>1 DEF FinishRun, TypeOK
  <2>4. QED
    BY <1>2, <2>1, <2>2, <2>3 DEF FinishRun
<1>4. CASE FailRun(c)
  BY <1>2, <1>4 DEF FailRun, End, Outcome
<1>5. CASE KillRun(c)
  BY <1>2, <1>5 DEF KillRun, End
<1>6. CASE KillUnstarted(c)
  BY <1>2, <1>6 DEF KillUnstarted, End
<1>7. QED
  BY <1>1, <1>3, <1>4, <1>5, <1>6 DEF ChildStep

\* A turn that starts has no ending yet: a first one has no snapshot, and a
\* later one is of a child whose flag is down.
LEMMA StartKeepsKill ==
  ASSUME TypeOK, EndedAreOver, KillInv, NEW c \in Child, NEW t \in Turns,
         StartTask(c, t), t > turn[c],
         UNCHANGED <<hard, closed, snapshot, ended, left>>,
         t = 1 => snapshot[c] = NoTurn,
         \A k \in Call : \/ call'[k] = call[k]
                         \/ call'[k].tool = "delegate" /\ call'[k].turn = 1
  PROVE  KillInv'
<1>1. /\ turn'[c] = t
      /\ \A d \in Child : d # c => turn'[d] = turn[d] /\ task'[d] = task[d]
  BY DEF StartTask, TypeOK
<1>2. ended[c][t] = "no"
  <2>1. turn[c] \in Nat /\ t \in Nat
    BY TurnsAssumption DEF TypeOK, Turns, NoTurn
  <2>2. QED
    BY <2>1 DEF EndedAreOver
<1>3. HardSpares'
  BY DEF KillInv, HardSpares
<1>4. FirstTurnIsFresh'
  BY <1>1 DEF KillInv, FirstTurnIsFresh
<1>5. DelegationsAreFirst' /\ ClosesAreClosed' /\ LeftIsClosed'
  BY DEF KillInv, DelegationsAreFirst, ClosesAreClosed, LeftIsClosed
<1>6. KilledIsNotResumable'
  <2> SUFFICES ASSUME NEW d \in Spawned', ended'[d][turn'[d]] = "killed"
               PROVE  closed'[d] \/ snapshot'[d] = NoTurn
    BY DEF KilledIsNotResumable
  <2>1. d # c
    BY <1>1, <1>2
  <2>2. d \in Spawned
    BY <1>1, <2>1 DEF Spawned
  <2>3. QED
    BY <1>1, <2>1, <2>2 DEF KillInv, KilledIsNotResumable, Spawned
<1>7. QED
  BY <1>3, <1>4, <1>5, <1>6 DEF KillInv

\* The parent turn's steps: two start a turn, two close, the shutdown kills
\* what it has closed.
LEMMA ParentStepKeepsKill ==
  ASSUME TypeOK, CapInv, EndedAreOver, KillInv, NEW c \in Child, ParentStep(c)
  PROVE  KillInv'
<1>1. ASSUME SpawnChild(c), UNCHANGED left,
             \A k \in Call : \/ call'[k] = call[k]
                             \/ call'[k].tool = "delegate" /\ call'[k].turn = 1
      PROVE  KillInv'
  <2>1. turn[c] = 0 /\ snapshot[c] = NoTurn
    BY <1>1 DEF SpawnChild, CapInv, UnspawnedIsFresh, Spawned, NoTurn
  <2>2. QED
    BY <1>1, <2>1, StartKeepsKill DEF SpawnChild
<1>2. CASE Spawn(c)
  BY <1>1, <1>2 DEF Spawn, parentVars
<1>3. CASE \E k \in Call : Delegate(k, c)
  <2>1. PICK k \in Call : Delegate(k, c)
    BY <1>3
  <2>2. \A j \in Call : \/ call'[j] = call[j]
                        \/ call'[j].tool = "delegate" /\ call'[j].turn = 1
    BY <2>1 DEF Delegate, TypeOK
  <2>3. QED
    BY <1>1, <2>1, <2>2 DEF Delegate
<1>4. CASE Resume(c)
  <2>1. /\ turn[c] \in Nat /\ turn[c] # 0
        /\ turn[c] + 1 \in Turns
    BY <1>4, TurnsAssumption DEF Resume, Resumable, Spawned, TypeOK, Turns, NoTurn
  <2>2. QED
    BY <1>4, <2>1, StartKeepsKill DEF Resume, parentVars
<1>5. CASE Interrupt(c)
  BY <1>5, KillKept DEF Interrupt, parentVars, KillInv, DelegationsAreFirst,
                        ClosesAreClosed, LeftIsClosed
<1>6. CASE WaitAtRest(c)
  BY <1>6, KillKept DEF WaitAtRest, childVars, KillInv, DelegationsAreFirst,
                        ClosesAreClosed, LeftIsClosed
<1>7. CASE CloseAtRest(c)
  <2>1. \A d \in Child : closed[d] => closed'[d]
    BY <1>7 DEF CloseAtRest, TypeOK
  <2>2. left \subseteq Child
    BY DEF TypeOK
  <2>3. \A k \in Call : call[k].tool = "agent_close" => call[k].child \in Child
    BY DEF TypeOK, Calls, NoCall
  <2>4. QED
    BY <1>7, <2>1, <2>2, <2>3, KillKept
       DEF CloseAtRest, parentVars, KillInv, DelegationsAreFirst, ClosesAreClosed,
           LeftIsClosed
<1>8. CASE ShutdownNext(c)
  <2>1. closed[c]
    BY <1>8 DEF ShutdownNext, KillInv, LeftIsClosed
  <2>2. \A d \in Child : hard'[d] => hard[d] \/ closed[d]
    BY <1>8, <2>1, HardCancelEffect DEF ShutdownNext
  <2>3. QED
    BY <1>8, <2>2, KillKept DEF ShutdownNext, KillInv, DelegationsAreFirst,
                                ClosesAreClosed, LeftIsClosed
<1>9. CASE \E k \in Call : Wait(k, c)
  <2>1. PICK k \in Call : Wait(k, c)
    BY <1>9
  <2>2. \A j \in Call : call'[j] = call[j] \/ call'[j].tool = "agent_wait"
    BY <2>1 DEF Wait, TypeOK
  <2>3. QED
    BY <2>1, <2>2, KillKept DEF Wait, childVars, KillInv, DelegationsAreFirst,
                                ClosesAreClosed, LeftIsClosed
<1>10. CASE \E k \in Call : Close(k, c)
  <2>1. PICK k \in Call : Close(k, c)
    BY <1>10
  <2>2. /\ closed'[c]
        /\ \A d \in Child : closed[d] => closed'[d]
    BY <2>1 DEF Close, TypeOK
  <2>3. \A j \in Call :
          \/ call'[j] = call[j]
          \/ call'[j].tool = "agent_close" /\ call'[j].child = c
    BY <2>1 DEF Close, TypeOK
  <2>4. left \subseteq Child
    BY DEF TypeOK
  <2>5. \A j \in Call : call[j].tool = "agent_close" => call[j].child \in Child
    BY DEF TypeOK, Calls, NoCall
  <2>6. QED
    BY <2>1, <2>2, <2>3, <2>4, <2>5, KillKept
       DEF Close, KillInv, DelegationsAreFirst, ClosesAreClosed, LeftIsClosed
<1>11. QED
  BY <1>2, <1>3, <1>4, <1>5, <1>6, <1>7, <1>8, <1>9, <1>10 DEF ParentStep

\* The steps of a call in flight: a cancelled delegation or an impatient close
\* raises the flag.
LEMMA CallStepKeepsKill ==
  ASSUME TypeOK, KillInv, NEW k \in Call, CallStep(k)
  PROVE  KillInv'
<1> DEFINE c == call[k].child
<1>1. UNCHANGED <<task, turn, ended, snapshot, closed, left>>
  BY DEF CallStep, WaitReturns, WaitTimesOut, DelegateReturns, CloseReturns,
         CloseGraceExpires, CancelCall, childVars
<1>2. \A j \in Call : \/ call'[j] = call[j]
                      \/ call'[j].tool \in {"none", "unwinding"}
  <2>1. CASE Return(k)
    BY <2>1 DEF Return, TypeOK, NoCall
  <2>2. CASE call' = [call EXCEPT ![k] = [call[k] EXCEPT !.tool = "unwinding"]]
             /\ call[k] \in Calls
    <3>1. [call[k] EXCEPT !.tool = "unwinding"].tool = "unwinding"
      BY <2>2 DEF Calls
    <3>2. QED
      BY <2>2, <3>1 DEF TypeOK
  <2>3. Return(k) \/ (/\ call' = [call EXCEPT ![k] = [call[k] EXCEPT !.tool = "unwinding"]]
                      /\ call[k] \in Calls)
    BY DEF CallStep, WaitReturns, WaitTimesOut, DelegateReturns, CloseReturns,
           CloseGraceExpires, CancelCall, InFlight, TypeOK
  <2>4. QED
    BY <2>1, <2>2, <2>3
<1>3. \A d \in Child : hard'[d] => hard[d] \/ closed[d] \/ snapshot[d] = NoTurn
  <2>1. CASE UNCHANGED hard
    BY <2>1
  <2>2. CASE /\ HardCancel(c)
             /\ call[k].tool = "agent_close"
    <3>1. c \in Child /\ closed[c]
      BY <2>2 DEF KillInv, ClosesAreClosed, TypeOK, Calls, NoCall
    <3>2. QED
      BY <2>2, <3>1, HardCancelEffect
  <2>3. CASE /\ HardCancel(c)
             /\ call[k].tool = "delegate"
             /\ ~ TaskDone(c, call[k].turn)
    <3>1. c \in Child
      BY <2>3 DEF TypeOK, Calls, NoCall
    <3>2. turn[c] = 1 /\ task[c] # "idle"
      BY <2>3 DEF TaskDone, KillInv, DelegationsAreFirst
    <3>3. snapshot[c] = NoTurn
      BY <3>1, <3>2 DEF KillInv, FirstTurnIsFresh
    <3>4. QED
      BY <2>3, <3>1, <3>3, HardCancelEffect
  <2>4. QED
    BY <2>1, <2>2, <2>3
       DEF CallStep, WaitReturns, WaitTimesOut, DelegateReturns, CloseReturns,
           CloseGraceExpires, CancelCall, childVars
<1>4. QED
  BY <1>1, <1>2, <1>3, KillKept
     DEF KillInv, DelegationsAreFirst, ClosesAreClosed, LeftIsClosed

\* The shutdown closes every child it will wait for.
LEMMA ShutdownKeepsKill ==
  ASSUME TypeOK, KillInv, Shutdown
  PROVE  KillInv'
<1>1. \A d \in Child : closed[d] => closed'[d]
  BY DEF Shutdown, TypeOK
<1>2. \A d \in left' : closed'[d]
  BY DEF Shutdown, Live, Spawned
<1>3. \A k \in Call : call[k].tool = "agent_close" => call[k].child \in Child
  BY DEF TypeOK, Calls, NoCall
<1>4. QED
  BY <1>1, <1>2, <1>3, KillKept
     DEF Shutdown, KillInv, DelegationsAreFirst, ClosesAreClosed

\* KillInv is inductive, relative to the budget's invariant and the seed's.
LEMMA KillStep == TypeOK /\ CapInv /\ SeedInv /\ KillInv /\ [Next]_vars => KillInv'
<1> SUFFICES ASSUME TypeOK, CapInv, SeedInv, KillInv, [Next]_vars PROVE KillInv'
  OBVIOUS
<1>1. EndedAreOver
  BY DEF SeedInv
<1>2. CASE ShutdownReturns \/ UNCHANGED vars
  <2>1. UNCHANGED <<task, turn, ended, snapshot, closed, hard, left, call>>
    BY <1>2 DEF ShutdownReturns, vars, childVars, parentVars
  <2>2. QED
    BY <2>1, KillKept DEF KillInv, DelegationsAreFirst, ClosesAreClosed, LeftIsClosed
<1>3. QED
  BY <1>1, <1>2, ChildStepKeepsKill, ParentStepKeepsKill, CallStepKeepsKill,
     ShutdownKeepsKill DEF Next

\* A child whose last turn was killed half way is never sent a follow-up: it is
\* closed, or it never had a clean turn (pool.py: _run_child, close, send).
THEOREM KillsAreFinal == Spec => []KilledIsNotResumable
<1>1. Init => KillInv
  BY DEF Init, KillInv, HardSpares, FirstTurnIsFresh, DelegationsAreFirst,
         ClosesAreClosed, LeftIsClosed, KilledIsNotResumable, NoCall, Spawned, NoTurn
<1>2. KillInv => KilledIsNotResumable
  BY DEF KillInv
<1>3. QED
  BY <1>1, <1>2, KillStep, TypeCorrect, CapInvInductive, SeedInvHolds, PTL DEF Spec

-----------------------------------------------------------------------------
(***************************************************************************)
(* What a parent turn is told about its children: the                      *)
(* answers of agent_wait and of a delegation, which are read from a handle *)
(* some steps after the awaited task is done.                              *)
(*                                                                         *)
(* ReportInv says why the handle still speaks of the awaited turn: no turn *)
(* starts for a child that a call in flight awaits, because sends run      *)
(* alone, and a handle at rest tells how its last turn ended.              *)
(***************************************************************************)

\* A call in flight is about its child's last turn.
CallsAreCurrent ==
  \A k \in Call : call[k] # NoCall => turn[call[k].child] = call[k].turn

\* A child at rest has an ending, and its outcome is what that ending leaves.
OutcomeIsRecorded ==
  \A c \in Child :
    task[c] = "idle" /\ turn[c] # NoTurn =>
      /\ ended[c][turn[c]] \in End
      /\ outcome[c] = Recorded(ended[c][turn[c]])

\* Reports are about turns that are over.
ReportIsOver ==
  report.said \in Outcome =>
    /\ report.child \in Child
    /\ report.turn \in Turns
    /\ ended[report.child][report.turn] # "no"

ReportInv ==
  CallsAreCurrent /\ OutcomeIsRecorded /\ ReportIsOver /\ AwaitedTurnIsReported
-----------------------------------------------------------------------------
\* A call in flight has a child that was spawned.
LEMMA CallsAreSpawned ==
  ASSUME TypeOK, CallsAreCurrent, NEW k \in Call, call[k] # NoCall
  PROVE  /\ call[k].child \in Spawned
         /\ call[k].turn \in Turns
         /\ call[k].tool # "none"
BY TurnsAssumption DEF TypeOK, Calls, CallsAreCurrent, Spawned, Turns, NoTurn

\* A step after which every call in flight is an old one, in which nothing
\* happens to a task, an outcome or the history, and nothing is reported.
LEMMA ReportKept ==
  ASSUME ReportInv,
         UNCHANGED <<turn, ended, outcome, report>>,
         \A c \in Child : task'[c] = "idle" => task[c] = "idle",
         \A k \in Call : call'[k] # NoCall =>
                           /\ turn[call'[k].child] = call'[k].turn
  PROVE  ReportInv'
<1>1. CallsAreCurrent'
  BY DEF CallsAreCurrent
<1>2. OutcomeIsRecorded'
  BY DEF ReportInv, OutcomeIsRecorded
<1>3. ReportIsOver' /\ AwaitedTurnIsReported'
  BY DEF ReportInv, ReportIsOver, AwaitedTurnIsReported
<1>4. QED
  BY <1>1, <1>2, <1>3 DEF ReportInv

\* A turn that ends has had no ending, so no report is about it.
LEMMA EndKeepsReport ==
  ASSUME TypeOK, CapInv, EndedAreOver, ReportInv,
         NEW c \in Child, task[c] # "idle", NEW e \in End, EndTurn(c, e),
         UNCHANGED <<turn, call, report>>,
         \A d \in Child : d # c => outcome'[d] = outcome[d],
         outcome'[c] = Recorded(e)
  PROVE  ReportInv'
<1>1. /\ turn[c] \in Turns
      /\ ended'[c][turn[c]] = e
      /\ \A t \in Turns : t # turn[c] => ended'[c][t] = ended[c][t]
      /\ \A d \in Child : d # c => ended'[d] = ended[d] /\ task'[d] = task[d]
  BY EndTurnEffect
<1>2. ended[c][turn[c]] = "no"
  <2>1. turn[c] \in Nat
    BY <1>1, TurnsAssumption DEF Turns
  <2>2. QED
    BY <1>1, <2>1 DEF EndedAreOver
<1>3. CallsAreCurrent'
  BY DEF ReportInv, CallsAreCurrent
<1>4. OutcomeIsRecorded'
  <2> SUFFICES ASSUME NEW d \in Child, task'[d] = "idle", turn'[d] # NoTurn
               PROVE  /\ ended'[d][turn'[d]] \in End
                      /\ outcome'[d] = Recorded(ended'[d][turn'[d]])
    BY DEF OutcomeIsRecorded
  <2>1. CASE d = c
    BY <1>1, <2>1
  <2>2. CASE d # c
    BY <1>1, <2>2 DEF ReportInv, OutcomeIsRecorded
  <2>3. QED
    BY <2>1, <2>2
<1>5. report.said \in Outcome =>
        ended'[report.child][report.turn] = ended[report.child][report.turn]
  BY <1>1, <1>2 DEF ReportInv, ReportIsOver
<1>6. ReportIsOver' /\ AwaitedTurnIsReported'
  BY <1>5 DEF ReportInv, ReportIsOver, AwaitedTurnIsReported
<1>7. QED
  BY <1>3, <1>4, <1>6 DEF ReportInv

\* A child's own steps: the outcome they record is that of the ending.
LEMMA ChildStepKeepsReport ==
  ASSUME TypeOK, CapInv, EndedAreOver, ReportInv, NEW c \in Child, ChildStep(c)
  PROVE  ReportInv'
<1> USE DEF parentVars, Recorded
<1>1. CASE Begin(c)
  <2>1. \A d \in Child : task'[d] = "idle" => task[d] = "idle"
    BY <1>1 DEF Begin, TypeOK
  <2>2. QED
    BY <1>1, <2>1, ReportKept DEF Begin, ReportInv, CallsAreCurrent
<1>2. CASE \E s \in Status : FinishRun(c, s)
  <2>1. PICK s \in Status : FinishRun(c, s)
    BY <1>2
  <2>2. s \in End /\ Recorded(s) = s
    BY DEF End, Outcome, Status
  <2>3. outcome'[c] = s /\ \A d \in Child : d # c => outcome'[d] = outcome[d]
    BY <2>1 DEF FinishRun, TypeOK
  <2>4. QED
    BY <2>1, <2>2, <2>3, EndKeepsReport DEF FinishRun
<1>3. CASE FailRun(c)
  <2>1. outcome'[c] = "error" /\ \A d \in Child : d # c => outcome'[d] = outcome[d]
    BY <1>3 DEF FailRun, TypeOK
  <2>2. QED
    BY <1>3, <2>1, EndKeepsReport DEF FailRun, End, Outcome
<1>4. CASE KillRun(c)
  <2>1. outcome'[c] = "cancelled" /\ \A d \in Child : d # c => outcome'[d] = outcome[d]
    BY <1>4 DEF KillRun, TypeOK
  <2>2. QED
    BY <1>4, <2>1, EndKeepsReport DEF KillRun, End
<1>5. CASE KillUnstarted(c)
  <2>1. outcome'[c] = NoOutcome
    BY <1>5 DEF KillUnstarted, CapInv, ExecutingIsLive, Executing, Live
  <2>2. QED
    BY <1>5, <2>1, EndKeepsReport DEF KillUnstarted, End
<1>6. QED
  BY <1>1, <1>2, <1>3, <1>4, <1>5 DEF ChildStep

\* A turn that starts is of a child no call in flight awaits; the only new
\* call awaits that turn.
LEMMA StartKeepsReport ==
  ASSUME TypeOK, ReportInv, NEW c \in Child, NEW t \in Turns, StartTask(c, t),
         UNCHANGED <<ended, report>>,
         \A d \in Child : d # c => outcome'[d] = outcome[d],
         \A k \in Call : call[k] # NoCall => call[k].child # c,
         \A k \in Call : \/ call'[k] = call[k]
                         \/ call'[k].child = c /\ call'[k].turn = t
  PROVE  ReportInv'
<1>1. /\ turn'[c] = t
      /\ task'[c] # "idle"
      /\ \A d \in Child : d # c => turn'[d] = turn[d] /\ task'[d] = task[d]
  BY DEF StartTask, TypeOK
<1>2. CallsAreCurrent'
  <2> SUFFICES ASSUME NEW k \in Call, call'[k] # NoCall
               PROVE  turn'[call'[k].child] = call'[k].turn
    BY DEF CallsAreCurrent
  <2>1. CASE call'[k] = call[k]
    <3>1. call[k].child \in Child /\ call[k].child # c
      BY <2>1 DEF TypeOK, Calls
    <3>2. QED
      BY <1>1, <2>1, <3>1 DEF ReportInv, CallsAreCurrent
  <2>2. CASE call'[k].child = c /\ call'[k].turn = t
    BY <1>1, <2>2
  <2>3. QED
    BY <2>1, <2>2
<1>3. OutcomeIsRecorded'
  BY <1>1 DEF ReportInv, OutcomeIsRecorded
<1>4. ReportIsOver' /\ AwaitedTurnIsReported'
  BY DEF ReportInv, ReportIsOver, AwaitedTurnIsReported
<1>5. QED
  BY <1>2, <1>3, <1>4 DEF ReportInv

\* The parent turn's steps on a child.
LEMMA ParentStepKeepsReport ==
  ASSUME TypeOK, CapInv, ReportInv, NEW c \in Child, ParentStep(c)
  PROVE  ReportInv'
<1>1. ASSUME SpawnChild(c), UNCHANGED report,
             \A k \in Call : \/ call'[k] = call[k]
                             \/ call'[k].child = c /\ call'[k].turn = 1
      PROVE  ReportInv'
  <2>1. \A k \in Call : call[k] # NoCall => call[k].child # c
    BY <1>1, CallsAreSpawned DEF SpawnChild, ReportInv
  <2>2. QED
    BY <1>1, <2>1, StartKeepsReport DEF SpawnChild
<1>2. CASE Spawn(c)
  BY <1>1, <1>2 DEF Spawn, parentVars
<1>3. CASE \E k \in Call : Delegate(k, c)
  <2>1. PICK k \in Call : Delegate(k, c)
    BY <1>3
  <2>2. \A j \in Call : \/ call'[j] = call[j]
                        \/ call'[j].child = c /\ call'[j].turn = 1
    BY <2>1 DEF Delegate, TypeOK
  <2>3. QED
    BY <1>1, <2>1, <2>2 DEF Delegate
<1>4. CASE Resume(c)
  <2>1. turn[c] + 1 \in Turns
    <3>1. turn[c] < MaxTurns
      BY <1>4 DEF Resume
    <3>2. QED
      BY <3>1, TurnsAssumption DEF TypeOK, Turns, NoTurn
  <2>2. \A k \in Call : call[k] = NoCall
    BY <1>4 DEF Resume, MayIssue, ConcurrencySafe, InFlight
  <2>3. \A d \in Child : d # c => outcome'[d] = outcome[d]
    BY <1>4 DEF Resume, TypeOK
  <2>4. QED
    BY <1>4, <2>1, <2>2, <2>3, StartKeepsReport DEF Resume, parentVars
<1>5. CASE WaitAtRest(c)
  <2>1. /\ task[c] = "idle"
        /\ turn[c] # NoTurn
        /\ turn[c] \in Turns
        /\ outcome[c] # NoOutcome
    BY <1>5 DEF WaitAtRest, CapInv, ExecutingIsLive, Executing, Live, Spawned, TypeOK
  <2>2. ended[c][turn[c]] \in End /\ outcome[c] = Recorded(ended[c][turn[c]])
    BY <2>1 DEF ReportInv, OutcomeIsRecorded
  <2>3. report' = [child |-> c, turn |-> turn[c], said |-> outcome[c]]
    BY <1>5 DEF WaitAtRest
  <2>4. UNCHANGED <<task, turn, ended, outcome, call>>
    BY <1>5 DEF WaitAtRest, childVars
  <2>5. ReportIsOver' /\ AwaitedTurnIsReported'
    BY <2>1, <2>2, <2>3, <2>4 DEF ReportIsOver, AwaitedTurnIsReported, End, Outcome,
                                  Status
  <2>6. CallsAreCurrent' /\ OutcomeIsRecorded'
    BY <2>4 DEF ReportInv, CallsAreCurrent, OutcomeIsRecorded
  <2>7. QED
    BY <2>5, <2>6 DEF ReportInv
<1>6. CASE Interrupt(c) \/ CloseAtRest(c) \/ ShutdownNext(c)
  <2>1. UNCHANGED <<task, turn, ended, outcome, report, call>>
    BY <1>6 DEF Interrupt, CloseAtRest, ShutdownNext, parentVars
  <2>2. QED
    BY <2>1, ReportKept DEF ReportInv, CallsAreCurrent
<1>7. CASE \E k \in Call : Wait(k, c) \/ Close(k, c)
  <2>1. PICK k \in Call : Wait(k, c) \/ Close(k, c)
    BY <1>7
  <2>2. UNCHANGED <<task, turn, ended, outcome, report>>
    BY <2>1 DEF Wait, Close, childVars
  <2>3. \A j \in Call : \/ call'[j] = call[j]
                        \/ call'[j].child = c /\ call'[j].turn = turn[c]
    BY <2>1 DEF Wait, Close, TypeOK
  <2>4. QED
    BY <2>2, <2>3, ReportKept DEF ReportInv, CallsAreCurrent
<1>8. QED
  BY <1>2, <1>3, <1>4, <1>5, <1>6, <1>7 DEF ParentStep

\* An awaited task that is done: the handle tells how its turn ended.
LEMMA DoneIsRecorded ==
  ASSUME TypeOK, ReportInv, NEW k \in Call, call[k] # NoCall,
         TaskDone(call[k].child, call[k].turn)
  PROVE  LET c == call[k].child
             t == call[k].turn
         IN /\ c \in Child
            /\ t \in Turns
            /\ ended[c][t] \in End
            /\ outcome[c] = Recorded(ended[c][t])
<1>1. /\ call[k].child \in Spawned
      /\ call[k].turn \in Turns
      /\ turn[call[k].child] = call[k].turn
  BY CallsAreSpawned DEF ReportInv, CallsAreCurrent
<1>2. task[call[k].child] = "idle"
  BY <1>1 DEF TaskDone
<1>3. QED
  BY <1>1, <1>2 DEF ReportInv, OutcomeIsRecorded, Spawned

\* ... and if it raises nothing, it has an outcome to tell.
LEMMA UncancelledHasOutcome ==
  ASSUME NEW e \in End, e \notin {"killed", "unstarted"}
  PROVE  Recorded(e) = e /\ e # NoOutcome /\ e # "no" /\ e \in Outcome
BY DEF End, Outcome, Status, NoOutcome, Recorded

\* The steps of a call in flight.
LEMMA CallStepKeepsReport ==
  ASSUME TypeOK, ReportInv, NEW k \in Call, CallStep(k)
  PROVE  ReportInv'
<1> DEFINE c == call[k].child
           t == call[k].turn
<1>1. UNCHANGED <<task, turn, ended, outcome>>
  BY DEF CallStep, WaitReturns, WaitTimesOut, DelegateReturns, CloseReturns,
         CloseGraceExpires, CancelCall, childVars
<1>2. call[k] # NoCall
  BY DEF CallStep, WaitReturns, WaitTimesOut, DelegateReturns, CloseReturns,
         CloseGraceExpires, CancelCall, InFlight, NoCall
<1>3. \A j \in Call : \/ call'[j] = call[j]
                      \/ call'[j] = NoCall
                      \/ call'[j].child = call[j].child /\ call'[j].turn = call[j].turn
                         /\ call[j] # NoCall
  <2>1. CASE Return(k)
    BY <2>1 DEF Return, TypeOK
  <2>2. CASE call' = [call EXCEPT ![k] = [call[k] EXCEPT !.tool = "unwinding"]]
    <3>1. call[k] \in Calls
      BY <1>2 DEF TypeOK
    <3>2. /\ [call[k] EXCEPT !.tool = "unwinding"].child = call[k].child
          /\ [call[k] EXCEPT !.tool = "unwinding"].turn = call[k].turn
      BY <3>1 DEF Calls
    <3>3. QED
      BY <1>2, <2>2, <3>2 DEF TypeOK
  <2>3. QED
    BY <2>1, <2>2 DEF CallStep, WaitReturns, WaitTimesOut, DelegateReturns,
                      CloseReturns, CloseGraceExpires, CancelCall
<1>4. CallsAreCurrent' /\ OutcomeIsRecorded'
  BY <1>1, <1>3 DEF ReportInv, CallsAreCurrent, OutcomeIsRecorded
<1>5. \/ report' = report
      \/ report' = [child |-> c, turn |-> t, said |-> "running"]
      \/ /\ TaskDone(c, t)
         /\ ~ TaskCancelled(c, t)
         /\ report' = [child |-> c, turn |-> t,
                       said |-> IF outcome[c] = NoOutcome THEN "cancelled"
                                ELSE outcome[c]]
  BY DEF CallStep, WaitReturns, WaitTimesOut, DelegateReturns, CloseReturns,
         CloseGraceExpires, CancelCall
<1>6. ReportIsOver' /\ AwaitedTurnIsReported'
  <2>1. CASE report' = report
    BY <1>1, <2>1 DEF ReportInv, ReportIsOver, AwaitedTurnIsReported
  <2>2. CASE report' = [child |-> c, turn |-> t, said |-> "running"]
    BY <2>2 DEF ReportIsOver, AwaitedTurnIsReported, Outcome, Status
  <2>3. CASE /\ TaskDone(c, t)
             /\ ~ TaskCancelled(c, t)
             /\ report' = [child |-> c, turn |-> t,
                           said |-> IF outcome[c] = NoOutcome THEN "cancelled"
                                    ELSE outcome[c]]
    <3>1. /\ c \in Child
          /\ t \in Turns
          /\ ended[c][t] \in End
          /\ outcome[c] = Recorded(ended[c][t])
      BY <1>2, <2>3, DoneIsRecorded
    <3>2. /\ outcome[c] = ended[c][t]
          /\ outcome[c] # NoOutcome
          /\ ended[c][t] # "no"
      BY <2>3, <3>1, UncancelledHasOutcome DEF TaskCancelled
    <3>3. report' = [child |-> c, turn |-> t, said |-> outcome[c]]
      BY <2>3, <3>2
    <3>4. QED
      BY <1>1, <3>1, <3>2, <3>3 DEF ReportIsOver, AwaitedTurnIsReported
  <2>4. QED
    BY <1>5, <2>1, <2>2, <2>3
<1>7. QED
  BY <1>4, <1>6 DEF ReportInv

\* ReportInv is inductive, relative to the budget's invariant and the seed's.
LEMMA ReportStep == TypeOK /\ CapInv /\ SeedInv /\ ReportInv /\ [Next]_vars => ReportInv'
<1> SUFFICES ASSUME TypeOK, CapInv, SeedInv, ReportInv, [Next]_vars PROVE ReportInv'
  OBVIOUS
<1>1. EndedAreOver
  BY DEF SeedInv
<1>2. CASE Shutdown \/ ShutdownReturns \/ UNCHANGED vars
  <2>1. UNCHANGED <<task, turn, ended, outcome, report, call>>
    BY <1>2 DEF Shutdown, ShutdownReturns, vars, childVars, parentVars
  <2>2. QED
    BY <2>1, ReportKept DEF ReportInv, CallsAreCurrent
<1>3. QED
  BY <1>1, <1>2, ChildStepKeepsReport, ParentStepKeepsReport, CallStepKeepsReport
     DEF Next

LEMMA ReportInvHolds == Spec => []ReportInv
<1>1. Init => ReportInv
  BY DEF Init, ReportInv, CallsAreCurrent, OutcomeIsRecorded, ReportIsOver,
         AwaitedTurnIsReported, NoReport, Outcome, Status, NoTurn
<1>2. QED
  BY <1>1, ReportStep, TypeCorrect, CapInvInductive, SeedInvHolds, PTL DEF Spec

\* What agent_wait and a delegation report is how the awaited turn ended
\* (pool.py: wait, run).
THEOREM ReportsAreTrue == Spec => []AwaitedTurnIsReported
<1>1. ReportInv => AwaitedTurnIsReported
  BY DEF ReportInv
<1>2. QED
  BY <1>1, ReportInvHolds, PTL

\* The assertion at the end of AgentPool.run never fails (pool.py: run).
THEOREM DelegationsHaveOutcomes == Spec => []DelegateHasOutcome
<1>1. TypeOK /\ ReportInv => DelegateHasOutcome
  <2> SUFFICES ASSUME TypeOK, ReportInv, NEW k \in Call,
                      call[k].tool = "delegate",
                      TaskDone(call[k].child, call[k].turn),
                      ~ TaskCancelled(call[k].child, call[k].turn)
               PROVE  outcome[call[k].child] # NoOutcome
    BY DEF DelegateHasOutcome
  <2>1. call[k] # NoCall
    BY DEF NoCall
  <2>2. QED
    BY <2>1, DoneIsRecorded, UncancelledHasOutcome DEF TaskCancelled
<1>2. QED
  BY <1>1, ReportInvHolds, TypeCorrect, PTL

=============================================================================
