----------------------------- MODULE AgentPool -----------------------------
(***************************************************************************)
(* The pool of child CoreLoops a parent turn drives                        *)
(* (steerable_agent_runtime/pool.py), together with the two tool           *)
(* executors that are its drivers: the six orchestration tools             *)
(* (orchestration.py) and the delegation seam (subagent.py).               *)
(*                                                                         *)
(* Everything runs on one asyncio event loop, so a step of this            *)
(* specification is the code between two suspension points: the body of a  *)
(* synchronous method, or what a coroutine does from one `await` to the    *)
(* next.  A child's run is an asyncio task of its own.                     *)
(*                                                                         *)
(* What a child says is left out: a turn is known by its number, its       *)
(* transcript by the number of the turn that ended with it.                *)
(***************************************************************************)
EXTENDS Naturals, FiniteSets

CONSTANTS
  Child,        (* the child ids the pool can hand out                     *)
  Call,         (* tool calls of the parent turn that can be in flight     *)
  MaxParallel,  (* OrchestrationConfig.max_parallel                        *)
  MaxTurns,     (* bound: turns one child runs (spawn and resumes)         *)
  MaxResumed    (* bound: children that are ever resumed                   *)

ASSUME ChildAssumption == IsFiniteSet(Child)
ASSUME CapAssumption   == MaxParallel \in Nat
ASSUME TurnsAssumption == MaxTurns \in Nat

VARIABLES
  (* one child: _ChildHandle, its task and its CoreLoop *)
  task,      (* "idle": no task, or it is done; "created": not yet stepped; *)
             (* "running"                                                   *)
  stop,      (* the loop's sticky cooperative cancel                       *)
  hard,      (* task.cancel() was called and has not been delivered        *)
  outcome,   (* _ChildHandle.outcome                                       *)
  closed,    (* _ChildHandle.closed                                        *)
  snapshot,  (* _ChildHandle.resume_messages: the turn it was taken from   *)
  turn,      (* turns started; 0 = not spawned                             *)
  ended,     (* history: how each turn of the child really ended           *)
  (* the parent turn *)
  call,      (* its tool calls in flight                                   *)
  report,    (* history: what the last wait or delegation returned         *)
  shutdown,  (* "no", "waiting", "done": AgentPool.shutdown                *)
  left       (* the children shutdown has still to wait for                *)

childVars  == <<task, stop, hard, outcome, closed, snapshot, turn, ended>>
parentVars == <<call, report, shutdown, left>>
vars       == <<childVars, parentVars>>

NoOutcome == "none"
NoTurn    == 0
Turns     == 1..MaxTurns

\* The status of a run's completion event: what _run_child records.
Status  == {"completed", "failed", "cancelled"}
Outcome == Status \cup {"error"}

\* How a turn's task ended: the clean statuses; an exception; a CancelledError
\* inside the body; a cancellation delivered before the body was entered.
End == Outcome \cup {"killed", "unstarted"}

\* The outcome each ending leaves on the handle.
Recorded(end) == CASE end = "killed"    -> "cancelled"
                   [] end = "unstarted" -> NoOutcome
                   [] OTHER             -> end

Tool  == {"agent_spawn", "agent_send", "agent_interrupt", "agent_close",
          "agent_wait", "delegate"}
NoCall == [tool |-> "none", child |-> "none", turn |-> NoTurn]
Calls  == [tool : {"agent_wait", "agent_close", "delegate", "unwinding"},
           child : Child, turn : Turns]
NoReport == [child |-> "none", turn |-> NoTurn, said |-> "none"]

TypeOK ==
  /\ task     \in [Child -> {"idle", "created", "running"}]
  /\ stop     \in [Child -> BOOLEAN]
  /\ hard     \in [Child -> BOOLEAN]
  /\ outcome  \in [Child -> Outcome \cup {NoOutcome}]
  /\ closed   \in [Child -> BOOLEAN]
  /\ snapshot \in [Child -> Turns \cup {NoTurn}]
  /\ turn     \in [Child -> Turns \cup {NoTurn}]
  /\ ended    \in [Child -> [Turns -> End \cup {"no"}]]
  /\ call     \in [Call -> Calls \cup {NoCall}]
  /\ report   \in [child : Child, turn : Turns, said : Outcome \cup {"running"}]
                    \cup {NoReport}
  /\ shutdown \in {"no", "waiting", "done"}
  /\ left     \subseteq Child

Init ==
  /\ task     = [c \in Child |-> "idle"]
  /\ stop     = [c \in Child |-> FALSE]
  /\ hard     = [c \in Child |-> FALSE]
  /\ outcome  = [c \in Child |-> NoOutcome]
  /\ closed   = [c \in Child |-> FALSE]
  /\ snapshot = [c \in Child |-> NoTurn]
  /\ turn     = [c \in Child |-> NoTurn]
  /\ ended    = [c \in Child |-> [t \in Turns |-> "no"]]
  /\ call     = [k \in Call |-> NoCall]
  /\ report   = NoReport
  /\ shutdown = "no"
  /\ left     = {}
-----------------------------------------------------------------------------
Spawned    == {c \in Child : turn[c] # NoTurn}
Live       == {c \in Spawned : outcome[c] = NoOutcome}
Executing  == {c \in Child : task[c] # "idle"}
InFlight   == {k \in Call : call[k] # NoCall}

\* Both spawn and send count the handles that have no outcome yet.
BelowCapOffByOne == Cardinality(Live) <= MaxParallel
BelowCap         == Cardinality(Live) < MaxParallel

\* A follow-up turn needs an open child at rest and a transcript to start from.
ResumableThoughClosed(c) ==
  c \in Spawned /\ outcome[c] # NoOutcome /\ snapshot[c] # NoTurn
Resumable(c) ==
  c \in Spawned /\ ~ closed[c] /\ outcome[c] # NoOutcome /\ snapshot[c] # NoTurn

\* The task that ran turn t of child c is done.
TaskDone(c, t) == turn[c] # t \/ task[c] = "idle"

\* ... and raises CancelledError when awaited.
TaskCancelled(c, t) == ended[c][t] \in {"killed", "unstarted"}

\* The tools the loop may run next to others of the same round; a delegation
\* is one when its profile sets `concurrent`.
ConcurrencySafeSend(tool) == tool \in {"agent_wait", "delegate", "agent_send"}
ConcurrencySafe(tool)     == tool \in {"agent_wait", "delegate"}

\* The native loop issues an unsafe tool alone, a safe one next to safe ones,
\* and nothing once the turn is over.
MayIssue(tool) ==
  /\ shutdown = "no"
  /\ IF ConcurrencySafe(tool)
     THEN \A k \in InFlight : call[k].tool # "agent_close"
     ELSE InFlight = {}
-----------------------------------------------------------------------------
\* A new task running turn t of child c.
StartTask(c, t) ==
  /\ task' = [task EXCEPT ![c] = "created"]
  /\ turn' = [turn EXCEPT ![c] = t]

\* AgentPool.spawn: refuses at the cap, otherwise a fresh child.
SpawnChild(c) ==
  /\ c \notin Spawned
  /\ BelowCap
  /\ 1 \in Turns
  /\ StartTask(c, 1)
  /\ UNCHANGED <<stop, hard, outcome, closed, snapshot, ended>>

\* agent_spawn
Spawn(c) ==
  /\ MayIssue("agent_spawn")
  /\ SpawnChild(c)
  /\ UNCHANGED parentVars

\* delegate_subagent: AgentPool.run spawns, then awaits the child's task.
Delegate(k, c) ==
  /\ MayIssue("delegate")
  /\ call[k] = NoCall
  /\ SpawnChild(c)
  /\ call' = [call EXCEPT ![k] = [tool |-> "delegate", child |-> c, turn |-> 1]]
  /\ UNCHANGED <<report, shutdown, left>>

\* agent_send to a child at rest: a follow-up turn from the snapshot.  (To a
\* running child the message is a steer, which changes nothing in the pool.)
Resume(c) ==
  /\ MayIssue("agent_send")
  /\ Resumable(c)
  /\ BelowCap
  /\ turn[c] < MaxTurns
  /\ Cardinality({d \in Child : d = c \/ turn[d] > 1}) <= MaxResumed
  /\ outcome' = [outcome EXCEPT ![c] = NoOutcome]
  /\ stop' = [stop EXCEPT ![c] = FALSE]
  /\ StartTask(c, turn[c] + 1)
  /\ UNCHANGED <<hard, closed, snapshot, ended, parentVars>>

\* agent_interrupt: the cooperative cancel of a live, unclosed child.
Interrupt(c) ==
  /\ MayIssue("agent_interrupt")
  /\ c \in Live
  /\ ~ closed[c]
  /\ stop' = [stop EXCEPT ![c] = TRUE]
  /\ UNCHANGED <<task, hard, outcome, closed, snapshot, turn, ended, parentVars>>
-----------------------------------------------------------------------------
\* agent_wait on a child that has an outcome answers at once.
WaitAtRest(c) ==
  /\ MayIssue("agent_wait")
  /\ c \in Spawned \ Live
  /\ report' = [child |-> c, turn |-> turn[c], said |-> outcome[c]]
  /\ UNCHANGED <<childVars, call, shutdown, left>>

\* On a live one it awaits the task, shielded.
Wait(k, c) ==
  /\ MayIssue("agent_wait")
  /\ call[k] = NoCall
  /\ c \in Live
  /\ call' = [call EXCEPT
                ![k] = [tool |-> "agent_wait", child |-> c, turn |-> turn[c]]]
  /\ UNCHANGED <<childVars, report, shutdown, left>>

Return(k) == call' = [call EXCEPT ![k] = NoCall]

\* The awaited task is done.  The handle is read only now, and an outcome that
\* is unset by then is reported as "cancelled"; a task that ended in
\* CancelledError raises it into the waiter.
WaitReturns(k) ==
  LET c == call[k].child
      t == call[k].turn
  IN /\ call[k].tool = "agent_wait"
     /\ TaskDone(c, t)
     /\ report' = IF TaskCancelled(c, t) THEN report
                  ELSE [child |-> c, turn |-> t,
                        said |-> IF outcome[c] = NoOutcome THEN "cancelled"
                                 ELSE outcome[c]]
     /\ Return(k)
     /\ UNCHANGED <<childVars, shutdown, left>>

\* wait_timeout_s expires first: a snapshot "running".
WaitTimesOut(k) ==
  LET c == call[k].child
      t == call[k].turn
  IN /\ call[k].tool = "agent_wait"
     /\ ~ TaskDone(c, t)
     /\ report' = [child |-> c, turn |-> t, said |-> "running"]
     /\ Return(k)
     /\ UNCHANGED <<childVars, shutdown, left>>

\* AgentPool.run after its await: the outcome of a child that was not cancelled.
DelegateReturns(k) ==
  LET c == call[k].child
      t == call[k].turn
  IN /\ call[k].tool \in {"delegate", "unwinding"}
     /\ TaskDone(c, t)
     /\ report' = IF TaskCancelled(c, t) \/ call[k].tool = "unwinding"
                     \/ outcome[c] = NoOutcome
                  THEN report
                  ELSE [child |-> c, turn |-> t, said |-> outcome[c]]
     /\ Return(k)
     /\ UNCHANGED <<childVars, shutdown, left>>
-----------------------------------------------------------------------------
\* task.cancel() unless the task is done.
HardCancelForgotten(c) == UNCHANGED hard
HardCancelIfEntered(c) ==
  hard' = [hard EXCEPT ![c] = hard[c] \/ task[c] = "running"]
HardCancel(c) == hard' = [hard EXCEPT ![c] = hard[c] \/ task[c] # "idle"]

\* AgentPool.close: closed from here on; a live child is asked to stop and
\* given _CLOSE_GRACE_S.
CloseAtRest(c) ==
  /\ MayIssue("agent_close")
  /\ c \in Spawned \ Live
  /\ closed' = [closed EXCEPT ![c] = TRUE]
  /\ UNCHANGED <<task, stop, hard, outcome, snapshot, turn, ended, parentVars>>

Close(k, c) ==
  /\ MayIssue("agent_close")
  /\ call[k] = NoCall
  /\ c \in Live
  /\ closed' = [closed EXCEPT ![c] = TRUE]
  /\ stop' = [stop EXCEPT ![c] = TRUE]
  /\ call' = [call EXCEPT
                ![k] = [tool |-> "agent_close", child |-> c, turn |-> turn[c]]]
  /\ UNCHANGED <<task, hard, outcome, snapshot, turn, ended,
                 report, shutdown, left>>

CloseReturns(k) ==
  /\ call[k].tool = "agent_close"
  /\ TaskDone(call[k].child, call[k].turn)
  /\ Return(k)
  /\ UNCHANGED <<childVars, report, shutdown, left>>

\* The grace runs out: the hard-cancel backstop.
CloseGraceExpires(k) ==
  /\ call[k].tool = "agent_close"
  /\ HardCancel(call[k].child)
  /\ Return(k)
  /\ UNCHANGED <<task, stop, outcome, closed, snapshot, turn, ended,
                 report, shutdown, left>>

\* The tool call itself is cancelled: its deadline passes, the user steers in
\* interrupt mode, or the turn is cancelled.  A wait leaves its child alone
\* (shield); a delegation passes the cancellation on to the child's task and
\* ends with it; a close swallows it and hard-cancels.
CancelCall(k) ==
  LET c == call[k].child
  IN /\ k \in InFlight
     /\ \/ /\ call[k].tool = "agent_wait"
           /\ Return(k)
           /\ UNCHANGED hard
        \/ /\ call[k].tool = "delegate"
           /\ IF TaskDone(c, call[k].turn) THEN UNCHANGED hard ELSE HardCancel(c)
           /\ call' = [call EXCEPT ![k].tool = "unwinding"]
        \/ /\ call[k].tool = "agent_close"
           /\ HardCancel(c)
           /\ Return(k)
     /\ UNCHANGED <<task, stop, outcome, closed, snapshot, turn, ended,
                    report, shutdown, left>>
-----------------------------------------------------------------------------
\* AgentPool.shutdown, when the parent turn ends.
Shutdown ==
  /\ shutdown = "no"
  /\ shutdown' = "waiting"
  /\ left' = Live
  /\ closed' = [c \in Child |-> closed[c] \/ c \in Spawned]
  /\ stop' = [c \in Child |-> stop[c] \/ c \in Live]
  /\ UNCHANGED <<task, hard, outcome, snapshot, turn, ended, call, report>>

\* One straggler at a time: it is done, or its grace runs out (a cancellation
\* of the shutdown itself cuts the grace short).
ShutdownNext(c) ==
  /\ shutdown = "waiting"
  /\ c \in left
  /\ left' = left \ {c}
  /\ HardCancel(c)
  /\ UNCHANGED <<task, stop, outcome, closed, snapshot, turn, ended,
                 call, report, shutdown>>

ShutdownReturns ==
  /\ shutdown = "waiting"
  /\ left = {}
  /\ shutdown' = "done"
  /\ UNCHANGED <<childVars, call, report, left>>
-----------------------------------------------------------------------------
\* The child's task takes its first step and enters _run_child.
Begin(c) ==
  /\ task[c] = "created"
  /\ ~ hard[c]
  /\ task' = [task EXCEPT ![c] = "running"]
  /\ UNCHANGED <<stop, hard, outcome, closed, snapshot, turn, ended, parentVars>>

EndTurn(c, end) ==
  /\ task' = [task EXCEPT ![c] = "idle"]
  /\ hard' = [hard EXCEPT ![c] = FALSE]
  /\ ended' = [ended EXCEPT ![c][turn[c]] = end]

\* The run ends with a completion event: the transcript becomes the resume
\* seed.  Only a run that was asked to stop ends "cancelled".
FinishRun(c, status) ==
  /\ task[c] = "running"
  /\ ~ hard[c]
  /\ status = "cancelled" => stop[c]
  /\ snapshot' = [snapshot EXCEPT ![c] = turn[c]]
  /\ outcome' = [outcome EXCEPT ![c] = status]
  /\ EndTurn(c, status)
  /\ UNCHANGED <<stop, closed, turn, parentVars>>

FailRunKeepsTranscript(c) ==
  /\ task[c] = "running"
  /\ ~ hard[c]
  /\ snapshot' = [snapshot EXCEPT ![c] = turn[c]]
  /\ outcome' = [outcome EXCEPT ![c] = "error"]
  /\ EndTurn(c, "error")
  /\ UNCHANGED <<stop, closed, turn, parentVars>>

\* The run raises: the failure is the outcome, the snapshot stays.
FailRun(c) ==
  /\ task[c] = "running"
  /\ ~ hard[c]
  /\ outcome' = [outcome EXCEPT ![c] = "error"]
  /\ EndTurn(c, "error")
  /\ UNCHANGED <<stop, closed, snapshot, turn, parentVars>>

KillRunUnmapped(c) ==
  /\ task[c] = "running"
  /\ hard[c]
  /\ outcome' = [outcome EXCEPT ![c] = "killed"]
  /\ EndTurn(c, "killed")
  /\ UNCHANGED <<stop, closed, snapshot, turn, parentVars>>

KillRunKeepsTranscript(c) ==
  /\ task[c] = "running"
  /\ hard[c]
  /\ snapshot' = [snapshot EXCEPT ![c] = turn[c]]
  /\ outcome' = [outcome EXCEPT ![c] = "cancelled"]
  /\ EndTurn(c, "killed")
  /\ UNCHANGED <<stop, closed, turn, parentVars>>

\* CancelledError inside the body.
KillRun(c) ==
  /\ task[c] = "running"
  /\ hard[c]
  /\ outcome' = [outcome EXCEPT ![c] = "cancelled"]
  /\ EndTurn(c, "killed")
  /\ UNCHANGED <<stop, closed, snapshot, turn, parentVars>>

\* A task cancelled before its first step never enters _run_child, so none of
\* the handlers there runs.
KillUnstarted(c) ==
  /\ task[c] = "created"
  /\ hard[c]
  /\ EndTurn(c, "unstarted")
  /\ UNCHANGED <<stop, outcome, closed, snapshot, turn, parentVars>>
-----------------------------------------------------------------------------
ChildStep(c) ==
  \/ Begin(c)
  \/ \E s \in Status : FinishRun(c, s)
  \/ FailRun(c)
  \/ KillRun(c)
  \/ KillUnstarted(c)

ParentStep(c) ==
  \/ Spawn(c) \/ Resume(c) \/ Interrupt(c)
  \/ WaitAtRest(c) \/ CloseAtRest(c)
  \/ ShutdownNext(c)
  \/ \E k \in Call : Delegate(k, c) \/ Wait(k, c) \/ Close(k, c)

CallStep(k) ==
  \/ WaitReturns(k) \/ WaitTimesOut(k) \/ DelegateReturns(k)
  \/ CloseReturns(k) \/ CloseGraceExpires(k) \/ CancelCall(k)

Next ==
  \/ \E c \in Child : ChildStep(c) \/ ParentStep(c)
  \/ \E k \in Call : CallStep(k)
  \/ Shutdown
  \/ ShutdownReturns

Spec == Init /\ [][Next]_vars

\* The event loop steps every ready task, delivers every cancellation and
\* fires every timer; nothing obliges a child's run to end by itself.
Fairness ==
  /\ \A c \in Child : /\ WF_vars(Begin(c))
                      /\ WF_vars(KillRun(c))
                      /\ WF_vars(KillUnstarted(c))
                      /\ WF_vars(ShutdownNext(c))
  /\ \A k \in Call : /\ WF_vars(CloseReturns(k) \/ CloseGraceExpires(k))
                     /\ WF_vars(WaitReturns(k) \/ WaitTimesOut(k))
                     /\ WF_vars(DelegateReturns(k))
  /\ WF_vars(ShutdownReturns)

FairSpec == Spec /\ Fairness
-----------------------------------------------------------------------------
(***************************************************************************)
(* Properties                                                              *)
(***************************************************************************)

\* The budget is about tasks that really run, although spawn and send count
\* handles without an outcome: max_parallel "caps concurrently running
\* children per pool" (pool.py).
ParallelCap == Cardinality(Executing) <= MaxParallel

\* What a wait or a delegation reports is how the turn it awaited ended, also
\* when the handle was read some steps after that turn's task was done.
AwaitedTurnIsReported ==
  report.said \in Outcome =>
    report.said = Recorded(ended[report.child][report.turn])

\* "_run_child sets the outcome on every non-cancelled exit path": the
\* assertion at the end of AgentPool.run cannot fail.
DelegateHasOutcome ==
  \A k \in Call :
    LET c == call[k].child
        t == call[k].turn
    IN call[k].tool = "delegate" /\ TaskDone(c, t) /\ ~ TaskCancelled(c, t)
         => outcome[c] # NoOutcome

\* "The hard-cancel backstop path leaves no resumable record": a child whose
\* last turn was killed cannot be sent a follow-up, whatever it did before.
KilledIsNotResumable ==
  \A c \in Spawned :
    ended[c][turn[c]] = "killed" => closed[c] \/ snapshot[c] = NoTurn

\* The resume seed is the transcript of the last turn that ended cleanly.
SeedIsLastCleanTurn ==
  \A c \in Child, t \in Turns :
    ended[c][t] \in Status =>
      /\ snapshot[c] >= t
      /\ ended[c][snapshot[c]] \in Status

\* Seen as workers with a budget, the children keep the promise of SlotPool:
\* the cap, and no turn for a closed child.
SP == INSTANCE SlotPool WITH Worker <- Child, Max <- MaxParallel,
                             busy <- Executing, retired <- {c \in Child : closed[c]}
RefinesSlotPool == SP!Spec

\* A closed child's run ends, cooperatively or not: close and shutdown never
\* leave one behind, even when they are themselves cancelled half way.
ClosedChildEnds ==
  \A c \in Child : closed[c] ~> (task[c] = "idle")

\* "The caller's cancellation propagates into the child run."
CancelledDelegationEnds ==
  \A k \in Call : (call[k].tool = "unwinding") ~> (call[k] = NoCall)

\* shutdown comes back although no child is obliged to cooperate, and then no
\* child keeps running.
ShutdownEnds ==
  (shutdown = "waiting") ~> (shutdown = "done" /\ Executing = {})

(***************************************************************************)
(* The strengthening that makes ParallelCap inductive                      *)
(***************************************************************************)

\* Every task in progress is accounted for by a handle without an outcome.
ExecutingIsLive == Executing \subseteq Live

\* A child id that was not handed out has no trace.
UnspawnedIsFresh ==
  \A c \in Child \ Spawned :
    /\ outcome[c] = NoOutcome
    /\ ~ closed[c]
    /\ snapshot[c] = NoTurn

\* What spawn and send compare with the cap never exceeds it.
LiveBelowCap == Cardinality(Live) <= MaxParallel

CapInv == ExecutingIsLive /\ UnspawnedIsFresh /\ LiveBelowCap
=============================================================================
