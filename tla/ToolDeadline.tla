---------------------------- MODULE ToolDeadline ----------------------------
(***************************************************************************)
(* One tool call of a round under the loop's wall-clock cap:               *)
(* CoreLoop._execute_tool and _await_tool_deadline (loop.py), and the      *)
(* clock that approval prompts suspend (ToolTimeoutClock and               *)
(* ApprovalExecutor._ask, approval.py).                                    *)
(*                                                                         *)
(* The call runs as a task of its own.  A call that dispatches others (a   *)
(* program calling tools) asks for each of them, possibly at once, and all *)
(* their prompts share the clock.  Time is counted in ticks; the event     *)
(* loop takes every step that is ready before time moves on.               *)
(***************************************************************************)
EXTENDS Naturals, FiniteSets

CONSTANTS
  Prompt,      (* the approval prompts the call may open                    *)
  Cap,         (* the effective tool timeout, in ticks                      *)
  AskTimeouts, (* ApprovalExecutor's timeout_s, in ticks; 0 = none          *)
  Horizon      (* bound: the last tick                                      *)

ASSUME PromptAssumption == IsFiniteSet(Prompt)
ASSUME CapAssumption    == Cap \in Nat \ {0}
ASSUME AskAssumption    == AskTimeouts \subseteq Nat
ASSUME HorizonAssumption == Horizon \in Nat /\ Horizon > Cap

VARIABLES
  askTimeout, (* the executor's setting; it does not change               *)
  now,       (* the event loop's clock                                      *)
  deadline,  (* _await_tool_deadline's local: when the cap expires          *)
  waiter,    (* what it awaits: "capped", "frozen", "unwinding" (the task,  *)
             (* after cancelling it); "done" when the call has its result   *)
  wake,      (* the pause or resume event it awaits has fired               *)
  body,      (* the call's task: "running", "cancelled", "done"             *)
  prompt,    (* each prompt: "unasked", "asking", or its verdict            *)
  asked,     (* when it was opened                                          *)
  depth,     (* ToolTimeoutClock._depth                                     *)
  charged,   (* history: ticks that passed with no prompt on the clock      *)
  result     (* "none", "returned", "tool_timeout", "cancelled"             *)

vars == <<askTimeout, now, deadline, waiter, wake, body, prompt, asked, depth,
          charged, result>>

Verdict == {"allowed", "denied", "timed_out", "withdrawn"}

TypeOK ==
  /\ askTimeout \in AskTimeouts
  /\ now      \in 0..Horizon
  /\ deadline \in Nat
  /\ waiter   \in {"capped", "frozen", "unwinding", "done"}
  /\ wake     \in BOOLEAN
  /\ body     \in {"running", "cancelled", "done"}
  /\ prompt   \in [Prompt -> {"unasked", "asking"} \cup Verdict]
  /\ asked    \in [Prompt -> 0..Horizon]
  /\ depth    \in Nat
  /\ charged  \in 0..Horizon
  /\ result   \in {"none", "returned", "tool_timeout", "cancelled"}

\* _execute_tool: a fresh clock, the task, and the deadline fixed at once.
Init ==
  /\ askTimeout \in AskTimeouts
  /\ now = 0
  /\ deadline = now + Cap
  /\ waiter = "capped"
  /\ wake = FALSE
  /\ body = "running"
  /\ prompt = [p \in Prompt |-> "unasked"]
  /\ asked = [p \in Prompt |-> 0]
  /\ depth = 0
  /\ charged = 0
  /\ result = "none"

Suspended == depth > 0
Asking    == {p \in Prompt : prompt[p] = "asking"}

\* With a timeout of its own a prompt is not taken off the cap.
PausesCap == askTimeout = 0
-----------------------------------------------------------------------------
\* ToolTimeoutClock.suspend: the pause event fires.
Suspend ==
  /\ depth' = depth + 1
  /\ wake' = (wake \/ waiter = "capped")

ResumeClockSilently(n) ==
  /\ depth' = IF n > depth THEN 0 ELSE depth - n
  /\ UNCHANGED wake

\* ToolTimeoutClock.resume, for the prompts that close: the resume event fires
\* when the last of them does.
ResumeClock(n) ==
  /\ depth' = IF n > depth THEN 0 ELSE depth - n
  /\ wake' = (wake \/ (waiter = "frozen" /\ depth' = 0))

\* _ask opens a prompt.
Ask(p) ==
  /\ body = "running"
  /\ prompt[p] = "unasked"
  /\ prompt' = [prompt EXCEPT ![p] = "asking"]
  /\ asked' = [asked EXCEPT ![p] = now]
  /\ IF PausesCap THEN Suspend ELSE UNCHANGED <<depth, wake>>
  /\ UNCHANGED <<askTimeout, now, deadline, waiter, body, charged, result>>

\* _ask's `finally`.
Settle(p, verdict) ==
  /\ prompt' = [prompt EXCEPT ![p] = verdict]
  /\ IF PausesCap THEN ResumeClock(1) ELSE UNCHANGED <<depth, wake>>

\* The user decides.
Answer(p, verdict) ==
  /\ body = "running"
  /\ prompt[p] = "asking"
  /\ Settle(p, verdict)
  /\ UNCHANGED <<askTimeout, now, deadline, waiter, body, asked, charged, result>>

AskExpired(p) == askTimeout > 0 /\ prompt[p] = "asking" /\ now >= asked[p] + askTimeout

\* No decision within timeout_s: fail closed.
AskTimesOut(p) ==
  /\ body = "running"
  /\ AskExpired(p)
  /\ Settle(p, "timed_out")
  /\ UNCHANGED <<askTimeout, now, deadline, waiter, body, asked, charged, result>>

\* The command ends; it has no prompt left to wait for.
BodyEnds ==
  /\ body = "running"
  /\ Asking = {}
  /\ body' = "done"
  /\ UNCHANGED <<askTimeout, now, deadline, waiter, wake, prompt, asked, depth, charged, result>>

\* CancelledError in the task: every open prompt is withdrawn on the way out.
BodyUnwinds ==
  /\ body = "cancelled"
  /\ body' = "done"
  /\ prompt' = [p \in Prompt |-> IF p \in Asking THEN "withdrawn" ELSE prompt[p]]
  /\ IF PausesCap THEN ResumeClock(Cardinality(Asking)) ELSE UNCHANGED <<depth, wake>>
  /\ UNCHANGED <<askTimeout, now, deadline, waiter, asked, charged, result>>
-----------------------------------------------------------------------------
\* asyncio.wait comes back: the task is done, the event fired, or the timeout
\* that was left when it was entered has passed.
Awake ==
  \/ body = "done"
  \/ wake
  \/ waiter = "capped" /\ now >= deadline

Waiting == waiter \in {"capped", "frozen"}

\* The task's result is the call's.
WaiterReturns ==
  /\ Waiting
  /\ body = "done"
  /\ waiter' = "done"
  /\ result' = "returned"
  /\ UNCHANGED <<askTimeout, now, deadline, wake, body, prompt, asked, depth, charged>>

\* A prompt is open: wait for it without a timeout.
WaiterFreezes ==
  /\ Waiting
  /\ Awake
  /\ body # "done"
  /\ Suspended
  /\ waiter' = "frozen"
  /\ wake' = FALSE
  /\ UNCHANGED <<askTimeout, now, deadline, body, prompt, asked,
                 depth, charged, result>>

WaiterRearmsInFull ==
  /\ Waiting
  /\ Awake
  /\ body # "done"
  /\ ~ Suspended
  /\ now < deadline
  /\ waiter' = "capped"
  /\ wake' = FALSE
  /\ deadline' = now + Cap
  /\ UNCHANGED <<askTimeout, now, body, prompt, asked,
                 depth, charged, result>>

\* None is: wait for what is left of the cap.
WaiterRearms ==
  /\ Waiting
  /\ Awake
  /\ body # "done"
  /\ ~ Suspended
  /\ now < deadline
  /\ waiter' = "capped"
  /\ wake' = FALSE
  /\ UNCHANGED <<askTimeout, now, deadline, body, prompt, asked,
                 depth, charged, result>>

WaiterExpiresWhileAsking ==
  /\ Waiting
  /\ body # "done"
  /\ now >= deadline
  /\ waiter' = "unwinding"
  /\ body' = "cancelled"
  /\ result' = "tool_timeout"
  /\ UNCHANGED <<askTimeout, now, deadline, wake, prompt, asked, depth, charged>>

\* Nothing is left of it: TimeoutError, and the task is cancelled.
WaiterExpires ==
  /\ Waiting
  /\ Awake
  /\ body # "done"
  /\ ~ Suspended
  /\ now >= deadline
  /\ waiter' = "unwinding"
  /\ body' = "cancelled"
  /\ result' = "tool_timeout"
  /\ UNCHANGED <<askTimeout, now, deadline, wake, prompt, asked, depth, charged>>

CallCancelledUnmapped ==
  /\ Waiting
  /\ waiter' = "unwinding"
  /\ body' = IF body = "running" THEN "cancelled" ELSE body
  /\ result' = "interrupted"
  /\ UNCHANGED <<askTimeout, now, deadline, wake, prompt, asked, depth, charged>>

\* The turn is cancelled, or the user steers in interrupt mode.
CallCancelled ==
  /\ Waiting
  /\ waiter' = "unwinding"
  /\ body' = IF body = "running" THEN "cancelled" ELSE body
  /\ result' = "cancelled"
  /\ UNCHANGED <<askTimeout, now, deadline, wake, prompt, asked, depth, charged>>

\* `await gather(task)`: the call comes back once the task is gone.
Unwound ==
  /\ waiter = "unwinding"
  /\ body = "done"
  /\ waiter' = "done"
  /\ UNCHANGED <<askTimeout, now, deadline, wake, body, prompt, asked,
                 depth, charged, result>>
-----------------------------------------------------------------------------
\* Nothing that is ready is left waiting while time passes.
Ready ==
  \/ Waiting /\ Awake
  \/ waiter = "unwinding" /\ body = "done"
  \/ \E p \in Prompt : body = "running" /\ AskExpired(p)

Tick ==
  /\ now < Horizon
  /\ waiter # "done"
  /\ ~ Ready
  /\ now' = now + 1
  /\ charged' = IF Suspended \/ body # "running" THEN charged ELSE charged + 1
  /\ UNCHANGED <<askTimeout, deadline, waiter, wake, body, prompt, asked, depth, result>>

WaiterStep ==
  \/ WaiterReturns \/ WaiterFreezes \/ WaiterRearms \/ WaiterExpires \/ Unwound

Next ==
  \/ \E p \in Prompt : Ask(p) \/ AskTimesOut(p)
  \/ \E p \in Prompt, v \in {"allowed", "denied"} : Answer(p, v)
  \/ BodyEnds
  \/ BodyUnwinds
  \/ WaiterStep
  \/ CallCancelled
  \/ Tick

Spec == Init /\ [][Next]_vars

\* The event loop runs what is ready and time passes; neither the user nor the
\* command is obliged to do anything.
Fairness ==
  /\ WF_vars(WaiterStep) /\ WF_vars(BodyUnwinds) /\ WF_vars(Tick)
  /\ \A p \in Prompt : WF_vars(AskTimesOut(p))

FairSpec == Spec /\ Fairness
-----------------------------------------------------------------------------
(***************************************************************************)
(* Properties                                                              *)
(***************************************************************************)

\* The clock is suspended exactly while a prompt that pauses the cap is open,
\* with any number of them opening and closing, and on every way out.
ClockCountsOpenPrompts ==
  depth = IF PausesCap THEN Cardinality(Asking) ELSE 0

\* "The cap still covers the command after the user decides": the time a call
\* spends without an open prompt never exceeds the cap.
CapCoversTheCommand == charged <= Cap

\* A timeout never cuts off a user who is still being asked: it withdraws no
\* prompt that pauses the cap.
TimeoutWithdrawsNoPrompt ==
  PausesCap /\ result = "tool_timeout" =>
    \A p \in Prompt : prompt[p] # "withdrawn"

\* A call that is not asking comes back or asks again: no interleaving of
\* prompts leaves the loop asleep on an event that has already fired.
CallReturnsUnlessAsking ==
  (waiter # "done" /\ Asking = {})
    ~> (waiter = "done" \/ Asking # {})

(***************************************************************************)
(* A statement of the source that does not hold                            *)
(***************************************************************************)

\* "Wait for a tool, freezing the deadline while approval is unanswered": a
\* call times out only when it has had its cap with no prompt open.
TimeoutOnlyAfterTheCap == result = "tool_timeout" => charged >= Cap
=============================================================================
