------------------------- MODULE ToolDeadlineProofs -------------------------
(***************************************************************************)
(* Theorems about ToolDeadline, for every set of prompts, every cap, every *)
(* timeout of the approver and every horizon.                              *)
(*                                                                         *)
(* ClockCountsOpenPrompts is inductive given the types.  The two promises  *)
(* about the cap need to know, besides, how the waiter and the task go     *)
(* together: a task that runs is waited for, a waiter asleep on a resume   *)
(* that has come is awake, and prompts are withdrawn only by a task on its *)
(* way out.                                                                *)
(***************************************************************************)
EXTENDS ToolDeadline, FiniteSetTheorems, TLAPS

\* A task in progress has its waiter, and a waiter that is done, its task.
RunningIsAwaited ==
  /\ body = "running" <=> (Waiting /\ body # "done")
  /\ waiter = "done" => body = "done"

\* A waiter that sleeps while no prompt is open has been woken.
FrozenIsWoken == waiter = "frozen" /\ ~ Suspended => wake

\* The deadline never moves, and no tick is charged twice.
ChargedBelowNow == deadline = Cap /\ charged <= now

CapInv == RunningIsAwaited /\ FrozenIsWoken /\ ChargedBelowNow /\ CapCoversTheCommand

\* Only a task that is gone has withdrawn a prompt, and one that timed out had
\* none open.
WithdrawnOnTheWayOut ==
  /\ \A p \in Prompt : prompt[p] = "withdrawn" => body = "done"
  /\ PausesCap /\ result = "tool_timeout" => body # "running" /\ Asking = {}

PromptInv == WithdrawnOnTheWayOut /\ TimeoutWithdrawsNoPrompt
-----------------------------------------------------------------------------
(***************************************************************************)
(* Types and the clock.                                                    *)
(***************************************************************************)

\* The open prompts are finitely many.
LEMMA AskingIsFinite ==
  /\ IsFiniteSet(Asking) /\ Cardinality(Asking) \in Nat
  /\ IsFiniteSet(Asking)' /\ Cardinality(Asking)' \in Nat
<1>1. Asking \subseteq Prompt /\ Asking' \subseteq Prompt
  BY DEF Asking
<1>2. QED
  BY <1>1, PromptAssumption, FS_Subset, FS_CardinalityType

\* Opening and closing prompts keeps the clock in its sets.
LEMMA SuspendTyped ==
  ASSUME TypeOK, Suspend
  PROVE  depth' \in Nat /\ wake' \in BOOLEAN
<1>1. depth' \in Nat
  BY DEF TypeOK, Suspend
<1>2. wake' \in BOOLEAN
  BY Zenon DEF TypeOK, Suspend
<1>3. QED
  BY <1>1, <1>2

LEMMA ResumeTyped ==
  ASSUME TypeOK, NEW n \in Nat, ResumeClock(n)
  PROVE  depth' \in Nat /\ wake' \in BOOLEAN
<1>1. depth' \in Nat
  BY DEF TypeOK, ResumeClock
<1>2. wake' \in BOOLEAN
  BY Zenon DEF TypeOK, ResumeClock
<1>3. QED
  BY <1>1, <1>2

LEMMA SettleTyped ==
  ASSUME TypeOK, NEW p \in Prompt, NEW v \in Verdict, Settle(p, v)
  PROVE  /\ prompt' \in [Prompt -> {"unasked", "asking"} \cup Verdict]
         /\ depth' \in Nat
         /\ wake' \in BOOLEAN
<1>1. prompt' \in [Prompt -> {"unasked", "asking"} \cup Verdict]
  BY DEF Settle, TypeOK
<1>2. depth' \in Nat /\ wake' \in BOOLEAN
  <2>1. CASE PausesCap
    BY <2>1, ResumeTyped DEF Settle
  <2>2. CASE ~ PausesCap
    BY <2>2 DEF Settle, TypeOK
  <2>3. QED
    BY <2>1, <2>2
<1>3. QED
  BY <1>1, <1>2

\* charged is bounded by the clock it is counted on.
TypeInv == TypeOK /\ charged <= now

LEMMA TypeInvHolds == Spec => []TypeInv
<1>1. Init => TypeInv
  <2> SUFFICES ASSUME Init PROVE TypeOK /\ charged <= now
    BY DEF TypeInv
  <2>1. /\ now \in 0..Horizon /\ charged \in 0..Horizon /\ charged <= now
        /\ deadline \in Nat /\ depth \in Nat
        /\ asked \in [Prompt -> 0..Horizon]
    BY CapAssumption, HorizonAssumption DEF Init
  <2>2. /\ askTimeout \in AskTimeouts
        /\ waiter \in {"capped", "frozen", "unwinding", "done"}
        /\ wake \in BOOLEAN
        /\ body \in {"running", "cancelled", "done"}
        /\ prompt \in [Prompt -> {"unasked", "asking"} \cup Verdict]
        /\ result \in {"none", "returned", "tool_timeout", "cancelled"}
    BY DEF Init
  <2>3. QED
    BY <2>1, <2>2 DEF TypeOK
<1>2. TypeInv /\ [Next]_vars => TypeInv'
  <2> SUFFICES ASSUME TypeOK, charged <= now, [Next]_vars PROVE TypeOK' /\ charged' <= now'
    BY DEF TypeInv
  <2> USE DEF TypeOK
  <2>1. ASSUME NEW p \in Prompt, Ask(p) PROVE TypeOK' /\ charged' <= now'
    <3>1. depth' \in Nat /\ wake' \in BOOLEAN
      BY <2>1, SuspendTyped DEF Ask
    <3>2. QED
      BY <2>1, <3>1 DEF Ask
  <2>2. ASSUME NEW p \in Prompt, AskTimesOut(p) PROVE TypeOK' /\ charged' <= now'
    BY <2>2, SettleTyped DEF AskTimesOut, Verdict
  <2>3. ASSUME NEW p \in Prompt, NEW v \in {"allowed", "denied"}, Answer(p, v)
        PROVE  TypeOK' /\ charged' <= now'
    BY <2>3, SettleTyped DEF Answer, Verdict
  <2>4. CASE BodyEnds
    BY <2>4 DEF BodyEnds
  <2>5. CASE BodyUnwinds
    <3>1. depth' \in Nat /\ wake' \in BOOLEAN
      <4>1. CASE PausesCap
        BY <2>5, <4>1, ResumeTyped, AskingIsFinite DEF BodyUnwinds
      <4>2. CASE ~ PausesCap
        BY <2>5, <4>2 DEF BodyUnwinds
      <4>3. QED
        BY <4>1, <4>2
    <3>2. prompt' \in [Prompt -> {"unasked", "asking"} \cup Verdict]
      BY <2>5 DEF BodyUnwinds, Verdict
    <3>3. QED
      BY <2>5, <3>1, <3>2 DEF BodyUnwinds
  <2>6. CASE WaiterStep
    BY <2>6 DEF WaiterStep, WaiterReturns, WaiterFreezes, WaiterRearms, WaiterExpires,
                Unwound
  <2>7. CASE CallCancelled
    BY <2>7 DEF CallCancelled
  <2>8. CASE Tick
    BY <2>8, HorizonAssumption DEF Tick
  <2>9. CASE UNCHANGED vars
    BY <2>9 DEF vars
  <2>10. QED
    BY <2>1, <2>2, <2>3, <2>4, <2>5, <2>6, <2>7, <2>8, <2>9 DEF Next
<1>3. QED
  BY <1>1, <1>2, PTL DEF Spec

\* Every variable keeps its type; the depth of the clock never goes below zero
\* (approval.py: ToolTimeoutClock).
THEOREM TypeCorrect == Spec => []TypeOK
<1>1. TypeInv => TypeOK
  BY DEF TypeInv
<1>2. QED
  BY <1>1, TypeInvHolds, PTL
-----------------------------------------------------------------------------
\* A prompt that opens is one more, one that closes one less.
LEMMA OneMoreAsks ==
  ASSUME TypeOK, NEW p \in Prompt, prompt[p] # "asking",
         prompt' = [prompt EXCEPT ![p] = "asking"]
  PROVE  Cardinality(Asking') = Cardinality(Asking) + 1
<1>1. Asking' = Asking \cup {p} /\ p \notin Asking
  BY DEF Asking, TypeOK
<1>2. QED
  BY <1>1, AskingIsFinite, FS_AddElement

LEMMA OneLessAsks ==
  ASSUME TypeOK, NEW p \in Prompt, prompt[p] = "asking",
         NEW v \in Verdict, prompt' = [prompt EXCEPT ![p] = v]
  PROVE  /\ Cardinality(Asking') = Cardinality(Asking) - 1
         /\ Cardinality(Asking) >= 1
<1>1. Asking' = Asking \ {p} /\ p \in Asking
  BY DEF Asking, TypeOK, Verdict
<1>2. Cardinality(Asking') = Cardinality(Asking) - 1
  BY <1>1, AskingIsFinite, FS_RemoveElement
<1>3. QED
  BY <1>2, AskingIsFinite

\* The user answers, or the approver's own timeout does.
LEMMA SettleCounts ==
  ASSUME TypeOK, ClockCountsOpenPrompts, NEW p \in Prompt, prompt[p] = "asking",
         NEW v \in Verdict, Settle(p, v), UNCHANGED askTimeout
  PROVE  ClockCountsOpenPrompts'
<1>1. /\ Cardinality(Asking') = Cardinality(Asking) - 1
      /\ Cardinality(Asking) >= 1
      /\ Cardinality(Asking) \in Nat
  BY OneLessAsks, AskingIsFinite DEF Settle
<1>2. CASE PausesCap
  <2>1. depth = Cardinality(Asking)
    BY <1>2 DEF ClockCountsOpenPrompts
  <2>2. depth' = IF 1 > depth THEN 0 ELSE depth - 1
    BY <1>2 DEF Settle, ResumeClock
  <2>3. depth' = Cardinality(Asking')
    BY <1>1, <2>1, <2>2
  <2>4. PausesCap'
    BY <1>2 DEF PausesCap
  <2>5. QED
    BY <2>3, <2>4 DEF ClockCountsOpenPrompts
<1>3. CASE ~ PausesCap
  BY <1>3 DEF Settle, ClockCountsOpenPrompts, PausesCap
<1>4. QED
  BY <1>2, <1>3

\* Nothing opens or closes.
LEMMA ClockKept ==
  ASSUME ClockCountsOpenPrompts, UNCHANGED <<askTimeout, prompt, depth>>
  PROVE  ClockCountsOpenPrompts'
BY DEF ClockCountsOpenPrompts, PausesCap, Asking

LEMMA ClockStep == TypeOK /\ ClockCountsOpenPrompts /\ [Next]_vars => ClockCountsOpenPrompts'
<1> SUFFICES ASSUME TypeOK, ClockCountsOpenPrompts, [Next]_vars
             PROVE  ClockCountsOpenPrompts'
  OBVIOUS
<1>1. ASSUME NEW p \in Prompt, Ask(p) PROVE ClockCountsOpenPrompts'
  <2>1. Cardinality(Asking') = Cardinality(Asking) + 1
    BY <1>1, OneMoreAsks DEF Ask
  <2>2. CASE PausesCap
    BY <1>1, <2>1, <2>2 DEF Ask, Suspend, ClockCountsOpenPrompts, PausesCap
  <2>3. CASE ~ PausesCap
    BY <1>1, <2>3 DEF Ask, ClockCountsOpenPrompts, PausesCap
  <2>4. QED
    BY <2>2, <2>3
<1>2. ASSUME NEW p \in Prompt, AskTimesOut(p) PROVE ClockCountsOpenPrompts'
  BY <1>2, SettleCounts DEF AskTimesOut, AskExpired, Verdict
<1>3. ASSUME NEW p \in Prompt, NEW v \in {"allowed", "denied"}, Answer(p, v)
      PROVE  ClockCountsOpenPrompts'
  BY <1>3, SettleCounts DEF Answer, Verdict
<1>4. CASE BodyUnwinds
  <2>1. Asking' = {}
    BY <1>4 DEF BodyUnwinds, Asking, TypeOK
  <2>2. Cardinality(Asking') = 0
    BY <2>1, FS_EmptySet
  <2>3. CASE PausesCap
    <3>1. depth = Cardinality(Asking) /\ Cardinality(Asking) \in Nat
      BY <2>3, AskingIsFinite DEF ClockCountsOpenPrompts
    <3>2. depth' = 0
      BY <1>4, <2>3, <3>1 DEF BodyUnwinds, ResumeClock
    <3>3. QED
      BY <1>4, <2>2, <2>3, <3>2 DEF BodyUnwinds, ClockCountsOpenPrompts, PausesCap
  <2>4. CASE ~ PausesCap
    BY <1>4, <2>4 DEF BodyUnwinds, ClockCountsOpenPrompts, PausesCap
  <2>5. QED
    BY <2>3, <2>4
<1>5. CASE BodyEnds \/ WaiterStep \/ CallCancelled \/ Tick \/ UNCHANGED vars
  BY <1>5, ClockKept DEF BodyEnds, WaiterStep, WaiterReturns, WaiterFreezes,
     WaiterRearms, WaiterExpires, Unwound, CallCancelled, Tick, vars
<1>6. QED
  BY <1>1, <1>2, <1>3, <1>4, <1>5 DEF Next

\* Whatever opens and closes prompts, the clock is suspended exactly while one
\* that pauses the cap is open (approval.py: _ask, ToolTimeoutClock).
THEOREM ClockIsBalanced == Spec => []ClockCountsOpenPrompts
<1>1. Init => ClockCountsOpenPrompts
  <2> SUFFICES ASSUME Init PROVE ClockCountsOpenPrompts
    OBVIOUS
  <2>1. Asking = {}
    BY DEF Init, Asking
  <2>2. QED
    BY <2>1, FS_EmptySet DEF Init, ClockCountsOpenPrompts
<1>2. QED
  BY <1>1, ClockStep, TypeCorrect, PTL DEF Spec
-----------------------------------------------------------------------------
(***************************************************************************)
(* The two promises about the cap.                                         *)
(***************************************************************************)

\* A clock that is not suspended has no open prompt that pauses the cap.
LEMMA NotSuspendedNotAsking ==
  ASSUME TypeOK, ClockCountsOpenPrompts, PausesCap, ~ Suspended
  PROVE  Asking = {}
<1>1. Cardinality(Asking) = 0
  BY AskingIsFinite DEF TypeOK, ClockCountsOpenPrompts, Suspended
<1>2. QED
  BY <1>1, AskingIsFinite, FS_EmptySet

\* A prompt that opens while the waiter is frozen suspends the clock or leaves
\* it alone; one that closes wakes the waiter if it is the last.
LEMMA SuspendWakes ==
  ASSUME TypeOK, FrozenIsWoken, Suspend, UNCHANGED waiter
  PROVE  FrozenIsWoken'
BY DEF TypeOK, FrozenIsWoken, Suspended, Suspend

LEMMA ResumeWakes ==
  ASSUME TypeOK, NEW n \in Nat, ResumeClock(n), UNCHANGED waiter
  PROVE  FrozenIsWoken'
<1>1. depth' \in Nat
  BY ResumeTyped
<1>2. ~ Suspended' => depth' = 0
  BY <1>1 DEF Suspended
<1>3. QED
  BY <1>2 DEF FrozenIsWoken, ResumeClock

LEMMA SettleWakes ==
  ASSUME TypeOK, FrozenIsWoken, NEW p, NEW v, Settle(p, v), UNCHANGED waiter
  PROVE  FrozenIsWoken'
<1>1. CASE PausesCap
  BY <1>1, ResumeWakes DEF Settle
<1>2. CASE ~ PausesCap
  BY <1>2 DEF Settle, FrozenIsWoken, Suspended
<1>3. QED
  BY <1>1, <1>2

LEMMA CapStep == TypeInv /\ CapInv /\ [Next]_vars => CapInv'
<1> SUFFICES ASSUME TypeOK, charged <= now, CapInv, [Next]_vars PROVE CapInv'
  BY DEF TypeInv
<1> USE DEF CapInv
<1>1. RunningIsAwaited'
  BY DEF RunningIsAwaited, Waiting, TypeOK, Next, vars, Ask, AskTimesOut, Answer, BodyEnds,
         BodyUnwinds, WaiterStep, WaiterReturns, WaiterFreezes, WaiterRearms,
         WaiterExpires, Unwound, CallCancelled, Tick
<1>2. FrozenIsWoken'
  <2>1. ASSUME NEW p \in Prompt, Ask(p) PROVE FrozenIsWoken'
    <3>1. CASE PausesCap
      BY <2>1, <3>1, SuspendWakes DEF Ask
    <3>2. CASE ~ PausesCap
      BY <2>1, <3>2 DEF Ask, FrozenIsWoken, Suspended
    <3>3. QED
      BY <3>1, <3>2
  <2>2. ASSUME NEW p \in Prompt, AskTimesOut(p) PROVE FrozenIsWoken'
    BY <2>2, SettleWakes DEF AskTimesOut
  <2>3. ASSUME NEW p \in Prompt, NEW v \in {"allowed", "denied"}, Answer(p, v)
        PROVE  FrozenIsWoken'
    BY <2>3, SettleWakes DEF Answer
  <2>4. CASE BodyUnwinds
    BY <2>4 DEF BodyUnwinds, FrozenIsWoken, RunningIsAwaited, Waiting
  <2>5. CASE WaiterStep
    BY <2>5 DEF WaiterStep, WaiterReturns, WaiterFreezes, WaiterRearms, WaiterExpires,
                Unwound, FrozenIsWoken, Suspended
  <2>6. CASE CallCancelled
    BY <2>6 DEF CallCancelled, FrozenIsWoken
  <2>7. CASE BodyEnds \/ Tick \/ UNCHANGED vars
    BY <2>7 DEF BodyEnds, Tick, vars, FrozenIsWoken, Suspended
  <2>8. QED
    BY <2>1, <2>2, <2>3, <2>4, <2>5, <2>6, <2>7 DEF Next
<1>3. ChargedBelowNow' /\ CapCoversTheCommand'
  <2>1. CASE Tick
    <3>1. CASE Suspended \/ body # "running"
      BY <2>1, <3>1 DEF Tick, ChargedBelowNow, CapCoversTheCommand, TypeOK
    <3>2. CASE ~ Suspended /\ body = "running"
      <4>1. Waiting /\ ~ Awake
        BY <2>1, <3>2 DEF Tick, Ready, RunningIsAwaited
      <4>2. waiter = "capped"
        BY <3>2, <4>1 DEF Waiting, Awake, FrozenIsWoken
      <4>3. now < Cap
        BY <4>1, <4>2, CapAssumption DEF Awake, ChargedBelowNow, TypeOK
      <4>4. now' = now + 1 /\ charged' = charged + 1 /\ deadline' = deadline
        BY <2>1, <3>2 DEF Tick
      <4>5. QED
        BY <4>3, <4>4, CapAssumption DEF ChargedBelowNow, CapCoversTheCommand, TypeOK
    <3>3. QED
      BY <3>1, <3>2
  <2>2. CASE UNCHANGED <<now, deadline, charged>>
    BY <2>2 DEF ChargedBelowNow, CapCoversTheCommand
  <2>3. Tick \/ UNCHANGED <<now, deadline, charged>>
    BY DEF Next, vars, Ask, AskTimesOut, Answer, BodyEnds, BodyUnwinds, WaiterStep,
           WaiterReturns, WaiterFreezes, WaiterRearms, WaiterExpires, Unwound,
           CallCancelled
  <2>4. QED
    BY <2>1, <2>2, <2>3
<1>4. QED
  BY <1>1, <1>2, <1>3

\* "The cap still covers the command after the user decides": whatever prompts
\* interrupt it, a call never has more than its cap (loop.py:
\* _await_tool_deadline).
THEOREM CapIsKept == Spec => []CapCoversTheCommand
<1>1. Init => CapInv
  BY CapAssumption DEF Init, CapInv, RunningIsAwaited, Waiting, FrozenIsWoken,
     ChargedBelowNow, CapCoversTheCommand
<1>2. CapInv => CapCoversTheCommand
  BY DEF CapInv
<1>3. QED
  BY <1>1, <1>2, CapStep, TypeInvHolds, PTL DEF Spec

LEMMA PromptStep ==
  TypeOK /\ ClockCountsOpenPrompts /\ PromptInv /\ [Next]_vars => PromptInv'
<1> SUFFICES ASSUME TypeOK, ClockCountsOpenPrompts, PromptInv, [Next]_vars
             PROVE  PromptInv'
  OBVIOUS
<1> USE DEF PromptInv, WithdrawnOnTheWayOut, TimeoutWithdrawsNoPrompt, PausesCap, Asking
<1>1. ASSUME NEW p \in Prompt, Ask(p) PROVE PromptInv'
  BY <1>1 DEF Ask, TypeOK
<1>2. ASSUME NEW p \in Prompt, AskTimesOut(p) PROVE PromptInv'
  BY <1>2 DEF AskTimesOut, Settle, TypeOK
<1>3. ASSUME NEW p \in Prompt, NEW v \in {"allowed", "denied"}, Answer(p, v)
      PROVE  PromptInv'
  BY <1>3 DEF Answer, Settle, TypeOK
<1>4. CASE BodyUnwinds
  BY <1>4 DEF BodyUnwinds, TypeOK
<1>5. CASE WaiterExpires
  <2>1. PausesCap => Asking = {}
    BY <1>5, NotSuspendedNotAsking DEF WaiterExpires
  <2>2. QED
    BY <1>5, <2>1 DEF WaiterExpires
<1>6. CASE WaiterReturns \/ CallCancelled
  BY <1>6 DEF WaiterReturns, CallCancelled
<1>7. CASE BodyEnds \/ WaiterFreezes \/ WaiterRearms \/ Unwound \/ Tick \/ UNCHANGED vars
  BY <1>7 DEF BodyEnds, WaiterFreezes, WaiterRearms, Unwound, Tick, vars
<1>8. QED
  BY <1>1, <1>2, <1>3, <1>4, <1>5, <1>6, <1>7 DEF Next, WaiterStep

\* A call that times out has nobody left to ask: the timeout withdraws no prompt
\* that pauses the cap (loop.py: _await_tool_deadline; approval.py: _ask).
THEOREM TimeoutsSpareTheUser == Spec => []TimeoutWithdrawsNoPrompt
<1>1. Init => PromptInv
  BY DEF Init, PromptInv, WithdrawnOnTheWayOut, TimeoutWithdrawsNoPrompt
<1>2. PromptInv => TimeoutWithdrawsNoPrompt
  BY DEF PromptInv
<1>3. QED
  BY <1>1, <1>2, PromptStep, TypeCorrect, ClockIsBalanced, PTL DEF Spec
=============================================================================
