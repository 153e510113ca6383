# Steerable: formal models of the agent runtime and its host

TLA+ specifications of the parts of this repository whose correctness is a
matter of *order*: coroutines that interleave at every `await`, cancellations
that race with completions, timers that race with answers, processes that die,
and two stores that must say the same. TLC checks every specification on small
instances; TLAPS proves most of the safety properties for all values of their
constants.

## 1. The system

Three processes and a library:

    web / tauri UI ──HTTP, SSE──> host (agent-shell, Node) ──JSON-RPC over stdio──> sidecar (Python)
                                                                                      └─ agent-runtime: CoreLoop per chat stream,
                                                                                         pool of child loops, tools, approvals

Paths below leave out the long prefixes: `pool.py`, `orchestration.py`,
`subagent.py`, `loop.py`, `approval.py`, `compaction.py`, `history.py`,
`resume.py`, `branch.py`, `native_bridge.py`, `storage/`, `transport/` are in
`src/packages/agent-runtime/py/src/steerable_agent_runtime/`, `sidecar.py` and
`host_tools.py` in `src/packages/sidecar/py/src/steerable_sidecar/`, and
`task-service.ts`, `worktree-service.ts`, `supervisor.ts`, `coreloop-stream.ts`, `router.ts`,
`reverse-approval.ts` in `src/packages/agent-shell/ts/src/`.

### 1.1 Inventory of the core

| Component | State it keeps | Operations | Interacts with | What is hard | What makes it correct |
|---|---|---|---|---|---|
| Agent pool (`pool.py`) | one handle per child: task, cooperative stop, outcome, closed, resume snapshot | spawn, run, send, wait, interrupt, close, shutdown; the child's own task | the six orchestration tools, `delegate_subagent`; the child's CoreLoop | cancellation at each stage of a task; the handle read after an await; graces | the budget, the right turn is reported, a killed turn is never resumed, nothing outlives close and shutdown |
| Orchestration and delegation tools (`orchestration.py`, `subagent.py`) | calls in flight | agent_spawn … agent_wait, delegate_subagent | the native loop decides which run at once | calls of one round in parallel; a call cancelled by its deadline | only safe calls overlap |
| Tool deadline (`loop.py`) and approval clock (`approval.py`) | deadline, the two events, suspension depth, open prompts | execute, ask, answer, time out, cancel | the task of the call and its waiter share the clock | overlapping prompts; the cap expiring as a prompt opens | the cap covers the command, never the user's thinking; no lost wake-up |
| Background tasks (`task-service.ts`) over the task table (`storage/index.ts`) | rows, the map of running streams | task_run, stream end, scan for unblocked tasks, start-up sweep | one stream per task through the chat turn driver | stale reads between awaits; overlapping scans; restart | a task starts once, after its dependencies, and is not forgotten |
| Sidecar supervisor (`supervisor.ts`) | the child process, health timer, scheduled restarts, pending calls | start, boot, health check, restart, shutdown | the processes; every RPC call | events that do not name their process; shutdown in the middle of boot | one lineage of processes, none orphaned, recovery from exits |
| Chat turn (`coreloop-stream.ts`, `supervisor.ts`, `sidecar.py`) | a promise and its timers; listeners; the chat's registration; the stream's task, loop and watchdog | start, abort, grace, start timeout, notifications; stream, cancel, run, wind down | two ordered pipes | an abort before the stream has an id; terminal notification next to the answer; crash; late answers | every turn settles once; a cancel ends the stream; a steer reaches the turn in progress |
| Approval scopes (`approval.py`) | a chat's session decisions, what a turn has read of the approvals file, the file | decide before or after a prompt, persist, next turn, process death | the clock of the call; other processes through the file | a decision kept over a turn, a restart, or another process's write | nothing runs that the user did not allow; the last decision stands |
| Compaction (`compaction.py`) | last pressure, failures, refills, breaker, retries of a round | pass under pressure, periodic and manual pass, forced pass | the loop before and after each request | miscounted rounds, a transcript that never fits | every round is sent or given up; a breaker opens only when earned |
| Chat history (`router.ts` and helpers; `loop.py`, `history.py`, `resume.py`, `branch.py`, `native_bridge.py`, `storage/`) | the host's rows and turn marker; the sidecar's record; the run's transcript and what waits for a flush | send, resume, regenerate, steer; seed, flush, compact, round, reply, fail, cancel | the two processes meet once per turn, when the host's view joins the record | each store extends texts its own way; crashes between writes; a cancelled loop that lives on | the model is shown the whole conversation, once; nothing is thrown away unasked |
| Native loop bridge (`native_bridge.py`, `loop.py`) | streams, tool tasks, the queue of events, the flag, the methods replaced for a run | run, poll, stream, call tools, emit; cancel, steer; end, fail, be killed | the native loop's thread and asyncio's; the pool, which runs a loop again | tasks asked for and not yet born; a loop that leaves a batch off; a failure half way | a cancelled turn ends, nothing outlives a run that returned, a steer reaches the run under way |
| Worktrees (`worktree-service.ts`, `task-service.ts`) | rows with a worktree and what became of it; trees, branches, the main checkout | task_run with a worktree, merge, discard, worktree_remove | git, one awaited command after the other; the panel and the model; the user's own git | a row read before six commands and written after; removal by force; names that are used again | what a task wrote goes in or is thrown away, and is not lost in between |
| Write lease (`storage/write_lease.py`) | the lock file at a path, kernel locks, descriptors | open, lock, compare, release | processes that open one database | the file removed between open and lock | one writer, and not none |
| Reverse channel (`transport/stdio_jsonrpc.py`, `host_tools.py`; `supervisor.ts`, `reverse-approval.ts`) | the futures by id; handlers not yet settled; the child | call, give up, serve, decide, resolve | the supervisor's processes | an answer later than its call, or than its process | an answer goes to its own call |

The remaining components (tools and confinement, providers and their catalog,
front ends, UI, the TypeScript client, the harness, SDKs, evaluations) are
listed with the reason why they are not modelled in `PROJECT.json` under
`components`; section 6 says what that means for the share of the code that is
covered. `PROJECT.json` also lists the hazards of the code line by line, with
the property that watches each.

## 2. The modules

| Module | Models | Abstracted away |
|---|---|---|
| `AgentPool` | the pool together with the tool executors that drive it | what a child says; a transcript is the number of the turn it ends with |
| `SlotPool` | an abstract specification: a budget of workers, retirement is final | everything else |
| `AgentPoolProofs` | theorems about `AgentPool`: its budget, what it reports and resumes from, and that it implements `SlotPool` | |
| `ToolDeadline` | one tool call, its waiter, its prompts, in ticks | what the command does |
| `ToolDeadlineProofs` | theorems about `ToolDeadline` | |
| `ApprovalScopes` | decisions over calls, turns, chats and processes | who asks, and how a call gets its category |
| `Compaction` | when a transcript is compacted, and when no longer | a transcript is its size |
| `WriteLease` | attempts to own a database | what is written to it |
| `ReverseChannel` | the sidecar's calls to the host over processes that come and go | what is asked and answered |
| `NativeBridge` | the two threads of a run of the native loop, over runs that end, fail or are killed | what is streamed, called or emitted; hooks |
| `ProcessProofs` | theorems about `WriteLease`, `ReverseChannel`, `ApprovalScopes` and `NativeBridge` | |
| `TaskService` | the tasks of one chat and the task table | prompts, worktrees, timelines |
| `Worktrees` | the worktrees of tasks, and merging and discarding them | of a task's life all but start, writing and end; what is written |
| `TaskServiceProofs` | theorems about `TaskService` and `Worktrees` | |
| `Supervisor` | the sidecar's processes and their supervision | the calls they serve |
| `SupervisorProofs` | theorems about `Supervisor` | |
| `ChatTurn` | the turns of one chat across both processes | what a turn streams; steering |
| `ChatTurnProofs` | theorems about `ChatTurn` and `Compaction` | |
| `HistoryRecord` | the durable record as operators: projection, seeding, views, forks | a text is a sequence of pieces |
| `HistoryRecordProofs` | lemmas about the operators of `HistoryRecord`, for records of any length | |
| `ChatHistory` | one chat kept twice, by host and sidecar | what is said |
| `ChatHistoryProofs` | theorems about `ChatHistory` | |
| `MC*` | instances for TLC; `MCTaskParts`, `MCTurnParts` and `MCSharedParts` check several components in one run each | |

`PROJECT.json` (`map`) gives the lines each definition stands for.

### Steps

Except for the bridge's worker thread, the code modelled runs on one event loop
per process (asyncio or Node), so a step is what runs between two suspension points: the body of a synchronous
method, or a coroutine from one `await` to the next. Where the code reads,
awaits and then uses what it read, the specification has two actions. Three
conventions follow:

- **A cancelled task.** `task.cancel()` sets a flag (`hard`); it is delivered
  at the task's next step, and a task that never took its first step ends
  without entering its body (`KillUnstarted`). This is asyncio's behaviour;
  it costs the pool a slot of its budget (section 4).
- **A chunk of frames.** Node hands over a chunk of stdout and dispatches all
  the frames in it before any promise continuation runs. `HostReads(n)` in
  `ChatTurn` takes any number of frames at once and lets the continuations
  (registering listeners, registering the stream for the chat) follow them.
- **Event emitters.** A listener installed for "the" exit or "the" ready marker
  gets every one, whichever process it came from; `Marker` and `Exits` in
  `Supervisor` therefore act on all waiting boots.

### AgentPool

A child is its handle: `task` (idle, created, running), `stop`
(`loop.cancel()`), `hard`, `outcome`, `closed`, `snapshot`
(`resume_messages`), `turn`. `ended` records how each turn really ended and is
what the properties compare with what the pool says. A parent's tool call in
flight is an element of `Call`: `Wait`, `Close` and `Delegate` open one, and it
returns, times out or is cancelled (`CancelCall`: its deadline, an interrupting
steer, or the end of the turn). `MayIssue` is the rule
`OrchestrationExecutor.concurrency_safe` gives the native loop: waits and
delegations may overlap, everything else runs alone. The native loop is not in
the repository; that it issues calls by this rule, and none after shutdown, is
the model's only assumption about it (marked external in the map).

### ToolDeadline

`waiter` is `_await_tool_deadline`, `body` the call's task, `depth` the clock's
suspension depth, `wake` the event it sleeps on. Time is in ticks and does not
move while a step is ready, which is what the event loop does when steps are
short compared with timeouts. `charged` counts the ticks with no prompt open.
`askTimeout = 0` is an approver without a timeout of its own: only then does a
prompt pause the cap (`approval.py`, `_ask`).

### TaskService

`tool` is where each `task_run` is, `stream` where each stream is, `scan` where
the scan that its end started is: listed, judged one task, written its row,
ignited it. The three coroutines interleave freely. `owed` records blocked
tasks that the end of a stream has just decided. The process may crash
(`Restart`): coroutines vanish, the table stays, and the sweep runs first.

### Worktrees

A step is one git command with what the coroutine does up to the next one:
`act` says how far each merge, discard or `worktree_remove` is. `trees`,
`branches`, `dirty`, `commits`, `main` and `merging` are what git keeps; what a
task writes is one piece of work, uncommitted in its tree, on the branch, in
the main checkout, or gone. `work` records what each task is owed: it is `due`
once the task has written, and `lost` when the user or the model has thrown its
tree away, or when it came into a tree whose merge was past committing. The
latter takes two tasks with one tree: `createWorktree` gives a name that exists
to whoever asks for it (worktree-service.ts:146-148), so a `task_run` "in a
fresh worktree" (tool-router.ts:567) may share one with a task whose merge then
removes it. `Ask` has the panel's guard as well as the service's: both actions
are offered for completed tasks.

### Supervisor

Each process has a number. `planning` counts the boots that await their spawn
plan, `waits` those that await the ready marker, `timers` the restarts
scheduled, `intervals` the health intervals that fire and `held` whether the
supervisor still holds one. `late` records processes spawned after shutdown was
called.

### ApprovalScopes

`session` and `durable` are the two caches an executor asks before it prompts
(`_stored_decision`), `file` the approvals file; `writing` is a `put` between
its read and its `os.replace`, the only place where two processes can disturb
each other. `granted` and `lastWord` record what the user said, and are what
the caches are compared with.

### Compaction

A round is `pre` (before `pre_step`), `request`, then `sent` or `failed`. What
a pass leaves of a transcript is any size it can leave, since folding and
summaries are texts. The variables are the fields of `CompactionHooks`; the
hook that answers an overflow is another object of the class
(`default_harness`), so it has its own counter and does not touch the breaker's. `story` and
`worked` record what happened since the breaker was last reset (each pass that
failed or worked; the rounds of those that worked), and are what
`BreakerIsEarned` compares the breaker's counters with.

### WriteLease

An attempt opens the lock file (making it if it is gone), locks it, and
compares the inode it locked with the one at the path; three rounds at most.
Removing the file is nobody's code and is an action all the same
(`TidyUp`), since it is what the comparison is for.

### ReverseChannel

A `Letter` is a request or its answer: the id it carries, and the call it is
really of. `awaited` is `_pending_reverse`, `handling` the promises of
`handleReverseRequest` that have not settled, for instance the bridge's
`pending` map of approvals. `Writes` is `writeFrame`: the answer goes to
`this.child` as it is then. That a process dies, is given up while it still
runs, or is followed by another is module `Supervisor`'s business in detail and
three actions here.

### NativeBridge

`worker` is where the thread of `native.run_turn` is: before, in and after each
callback. A callback that needs asyncio's thread schedules a function there
(`call_soon_threadsafe`) and waits on a queue, so a tool or a stream is
`scheduled` before it is a task (`running`), and only a task can be cancelled
(`Reached`). `run` and `taking` are `run_native` on asyncio's thread, `frames`
the queue of a stream, `installed` the runs whose `cancel` and `steer` stand in
for the loop's, innermost first, `steered` where each message is and for which
run it was meant. The native loop is free: after a poll it opens a stream,
reads it, calls any batch, emits, ends or raises; it may leave off a batch or a
stream once a poll tells it of a cancel or an interrupt (`LeavesOff`, marked
external in the map).

`CancelLoop` sets the flag and cancels the tasks in one step, although the
worker may move in between. A poll there sees the flag, as it does after the
step; what the worker schedules there after an earlier poll is no task yet, and
might as well be scheduled after the step. `Kill` is the cancellation of the
task that iterates over the run: the events are no longer consumed, and nothing
winds down tools, streams or the worker. `missed` records the runs that were
cancelled when the worker had just polled or had a task scheduled: that cancel
reaches nothing, and whether the native loop polls again while the batch runs
cannot be read from this repository. `CancelEndsTheRun` leaves them out.

### HistoryRecord and ChatHistory

`HistoryRecord` has no variables: the entries of a record (messages, boundaries,
seeds), the projection `LoadItems`, the host's view of it with and without the
loop's own compactions (`HostView`, `LoopView`), the decision `PlanSeeding` how
a run's messages join the record, the store's key (`Appended`) and forks.
`ChatHistory` is the chat around it. `host` are the rows the user sees,
`active` the durable `turn_active` marker, `turn` each turn's request handler;
`run` is the loop the sidecar works on: its transcript, what waits for the next
flush and the next number; `unwound` is the batch of a loop that was cancelled
hard and whose worker thread goes on. A text is a sequence of pieces, so that
"extended by" is a prefix; a summary is the list of what it stands for, so that
`ModelKnowsTheConversation` can open it. Everything that makes a turn other
than plain (a steer, a failure, a forced skill, a new system prompt, a crash …)
is a *mishap*; their number is bounded, their kinds and order are not, and
`plain` is lost when one makes the two stores' texts differ. `HostSeed` spells
the tool calls of the newest replies out behind their texts, as the host does;
a reply that is empty without them is left out of the seed, and in it with
them, which is a second cause of `history_revision`.

### ChatTurn

`turn` is the promise of `streamCoreLoopTurn`, `call` its `agent.chat.stream`
request, `listening` the notification listeners, `active` the chat's entry in
`activeCoreLoopStreams`. In the sidecar `task` is the stream's asyncio task,
through setup, running, its `except` and its `finally`; `dogs` are the armed
watchdogs. A crash empties pipes and sidecar and rejects the calls pending.

### Variants

Next to some definitions stands a variant with a longer name
(`BelowCapOffByOne`, `KillRunKeepsTranscript`, …): the same definition with a
plausible bug. No specification uses them. Each is what shows that some
property can fail: put in place of the definition it varies, it makes TLC
report that property. `PROJECT.json` (`mutants`) says which.

## 3. The runs

| Run | Instance | Shows |
|---|---|---|
| `pool_safety` | 2 children, cap 1, 2 calls, 2 turns of which one is a follow-up, fair | the budget (`ParallelCap`), what waits and delegations report (`AwaitedTurnIsReported`, `DelegateHasOutcome`), resumption (`KilledIsNotResumable`, `SeedIsLastCleanTurn`), that the pool implements `SlotPool`; closed children end, cancelled delegations end with their child, shutdown returns |
| `task_parts` | deadline: 2 prompts, cap 3 ticks, 8 ticks, approver timeout 0 or 2; bridge: 2 runs, a batch of 2, 1 stream, 1 steer; tasks: 3, 2 dependencies, 2 streams per task, 1 restart; fair | the cap covers the command and spares open prompts; a cancelled run ends and one that returned leaves no task; tasks start after their dependencies, scans reach everyone waiting, a restart leaves nothing pending |
| `turn_parts` | turns: 2, 1 crash; supervisor: 4 processes, 2 crashes, 1 health failure; compaction: 5 rounds; fair | aborts settle, cancels end the stream, the registration belongs to the turn in progress, a loop's end is announced; one lineage, no orphan, recovery; rounds end and breakers are earned |
| `shared_parts` | approvals: 3 chats, 2 processes, 2 calls; lease: 3 processes, 3 lock files; channel: 2 processes, 2 calls each; chat: 3 turns, 1 tool round each, 1 compaction, any 2 mishaps; worktrees: 2 tasks, 2 names, 2 merges or removals at a time, 1 crash or removal by the model | nothing runs unallowed and the last word stands; one owner, and not none; answers go to their own call; the host's view joins the record unless texts were made to differ, the model is shown the conversation, the record gives back what the run had, a prompt that was not answered is offered; a merge loses nothing |

The three `parts` runs check components that share no state: `part` says which
one a behaviour is about, and the others rest in a reachable state in which
nothing is under way, so that neither steps nor fairness of theirs come in. The
states are the sum of those of the parts, not the product.

Eight runs check a statement of the source that the code does not keep; TLC
prints the trace, and `PROJECT.json` (`findings`) quotes the statement:

| Run | Statement | What happens |
|---|---|---|
| `deadline_freeze` | the deadline is frozen while approval is unanswered | the deadline is absolute; a decision after the cap cancels the command at once |
| `task_blocked` | a blocked task is ignited by its dependency's end | the dependency ends between `task_run`'s read and its insert: blocked for ever |
| `task_twice` | one independent stream for each task | two overlapping scans ignite the same task twice |
| `chat_stranded` | no host waits for a terminal event that never comes | `stream.error` in the same chunk as the answer is dispatched before anybody listens |
| `channel_stray` | an answer to a request the process did not make is ignored | ids start again with each process: the answer to a dead process's request resolves a call of its successor |
| `bridge_steer` | a message sent to a running loop is appended at the next round boundary | a failed run never gives the loop its `steer` back: in the next run the message goes into the dead run's queue |
| `history_revision` | a revision means that the host edited or truncated its history | an accepted steer makes the next turn declare one, and the record's tool rounds and compactions are lost to the model; with four turns and a failure in place of the steer the same instance shows another cause: a reply that is empty but for its tool calls is in the seed only while the host spells them out |
| `history_resume` | the prompt of an interrupted turn is in the record | the marker is durable before the first flush: a turn is continued without its prompt |

### Bounds, and why they are enough

- Each bound (`MaxTurns`, `MaxResumed`, `MaxRuns`, `MaxSpawns`, `MaxCrashes`,
  `MaxPingFailures`, `MaxRestarts`, `MaxDeaths`, `Horizon`, `MaxRounds`, `MaxBegun`, `MaxUpsets`,
  `MaxFiles`, `MaxProcesses`, `MaxReverse`, `MaxLoopRuns`, `MaxStreams`, `MaxChunks`,
  `MaxSteers`, `MaxCompactions`, `MaxMishaps`) is a
  guard of one action or of a few that count together.
- Pool: two children and a cap of one make every operation meet a full budget;
  two turns are the least for a snapshot to be older than the turn that was
  killed; two calls are the least for one to outlive the turn it awaits. The
  proofs lift the bounds for every safety property.
- Deadline: two prompts overlap or follow one another; eight ticks leave time
  for the cap of three, a prompt's timeout of two and more. Proved in general.
- Compaction: five rounds let either breaker open (it takes two passes, or three
  that refill) with healthy rounds and manual passes before or in between; the
  window holds two growths over what a pass leaves, and one growth may be more
  than the room left.
- Approvals: two chats of one process and one of another; a turn of a chat or a
  process ends twice, so a decision outlives either.
- Worktrees: two tasks share a tree or have one each; two merges or removals
  meet at every command, and a third has nothing new to meet. `Click` bounds how
  many are under way at once, not how many there are.
- Lease: three files are one more than two removals need; three openers let a
  second attempt meet a removal and a third meet the owner.
- Channel: with two calls one is given up and its answer meets the other; with
  two processes it meets a stranger's.
- Bridge: two runs let a second one meet what the first left; a batch of two
  can be half born or half answered when a cancel comes. `bridge_steer` needs a
  third run: one that ended, one that failed, one that is steered.
- Tasks: three allow a chain and a fork of two dependencies, so two scans can
  compete for one task; two streams per task allow the double ignition.
- Supervisor: four processes allow a crash, the replacement's crash and a
  health restart in one behaviour.
- Chat: a second turn is what a late answer or a late end of the first can
  disturb; one crash can come at any point of either.
- History: the third turn joins a record that a resumed, regenerated or
  compacted second one has left; two mishaps can meet in one turn or follow one
  another. More mishaps were left out for the time they
  take; `RecordMirrorsTheRun` is proved for any number of everything.

Deadlock is not checked: in each of these systems a state with nothing left to
do is a legitimate end (a turn that is over, a supervisor that has shut down).
The liveness properties say what must not be left undone there.

### Fairness

Weak fairness is assumed only of what the scheduler does by itself: the event
loop steps ready tasks, delivers cancellations and fires timers; Node runs
continuations and reads pipes; a process that was sent a signal exits; one that
is let alone prints its marker or boot times out; `pre_step` returns and a
request is answered one way or the other; both threads of the bridge go on when
they can, whoever iterates over a run takes its next event, and a task that was
cancelled ends. Nothing obliges a child, a loop, a
command, a stream or a setup to end by itself, a user to answer, or a model to
call a tool. That is why the backstops (hard cancel, watchdog, grace, retries)
are what the liveness properties are about.

`RecoversFromExit` holds up to a refused spawn plan (after which nothing is
scheduled), the health check's second lineage, and the bound on processes.
`DecidedIsUnblocked` lets go of tasks one of whose dependencies was started a
second time (the finding of `task_twice`). `SingleLineage` and `NoOrphan` are
about behaviours in which the health check has not given up on a process: it
starts a successor beside it, and `waitForReady` cannot tell their exits apart.

## 4. What is proved

TLAPS checks these for every value of the constants, from the assumptions
named in the modules (finite sets of children and prompts, bounds that are
natural numbers, a name that is not a member; of the lease, that somebody opens
the database; of compaction, that the limits and windows of its breakers are
positive, and at least one round is run):

| Theorem | Says |
|---|---|
| `AgentPoolProofs!TypeCorrect` | `Spec => []TypeOK` |
| `AgentPoolProofs!BudgetHolds` | `Spec => []ParallelCap` |
| `AgentPoolProofs!ImplementsSlotPool` | `Spec => RefinesSlotPool` |
| `AgentPoolProofs!SeedsAreClean` | `Spec => []SeedIsLastCleanTurn` |
| `AgentPoolProofs!KillsAreFinal` | `Spec => []KilledIsNotResumable` |
| `AgentPoolProofs!ReportsAreTrue` | `Spec => []AwaitedTurnIsReported` |
| `AgentPoolProofs!DelegationsHaveOutcomes` | `Spec => []DelegateHasOutcome` |
| `ToolDeadlineProofs!TypeCorrect` | `Spec => []TypeOK` |
| `ToolDeadlineProofs!ClockIsBalanced` | `Spec => []ClockCountsOpenPrompts` |
| `ToolDeadlineProofs!CapIsKept` | `Spec => []CapCoversTheCommand` |
| `ToolDeadlineProofs!TimeoutsSpareTheUser` | `Spec => []TimeoutWithdrawsNoPrompt` |
| `TaskServiceProofs!TasksTyped` | `TaskSpec => []TaskTypeOK` |
| `TaskServiceProofs!StreamsStartReady` | `TaskSpec => []IgnitedWhenReady` |
| `TaskServiceProofs!InheritedStaysTerminal` | `TaskSpec => []InheritedIsTerminal` |
| `TaskServiceProofs!WorktreesTyped` | `WorktreeSpec => []WorktreeTypeOK` |
| `TaskServiceProofs!MergesKeepTheWork` | `WorktreeSpec => []MergesLoseNothing` |
| `ChatTurnProofs!TurnsTyped` | `TurnSpec => []TurnTypeOK` |
| `ChatTurnProofs!SteersReachTheTurn` | `TurnSpec => []OpenTurnIsRegistered` |
| `ChatTurnProofs!LoopsEndAloud` | `TurnSpec => EndOfALoopIsSaid` |
| `ChatTurnProofs!CompactionTyped` | `CompactionSpec => []CompactionTypeOK` |
| `ChatTurnProofs!BreakersAreEarned` | `CompactionSpec => BreakerIsEarned` |
| `ProcessProofs!LeaseTypes` | `LeaseSpec => []LeaseTypeOK` |
| `ProcessProofs!LeaseIsExclusive` | `LeaseSpec => []OneOwner` |
| `ProcessProofs!AttemptsSucceed` | `LeaseSpec => []AttemptsLeaveAnOwner` |
| `ProcessProofs!ChannelTypes` | `ChannelSpec => []ChannelTypeOK` |
| `ProcessProofs!AnswersAreOwn` | `ChannelSpec => []OwnAnswers` |
| `ProcessProofs!BridgeTypes` | `BridgeSpec => []BridgeTypeOK` |
| `ProcessProofs!NothingOutlives` | `BridgeSpec => []NoTaskOutlivesTheRun` |
| `ProcessProofs!ApprovalTypes` | `ApprovalSpec => []ApprovalTypeOK` |
| `ProcessProofs!RunsAreAllowed` | `ApprovalSpec => []AllowedByTheUser` |
| `ProcessProofs!FileHasTheLastWord` | `ApprovalSpec => []LastWordStands` |
| `ChatHistoryProofs!HistoryTyped` | `HistorySpec => []HistoryTypeOK` |
| `ChatHistoryProofs!RecordsMirrorRuns` | `HistorySpec => []RecordMirrorsTheRun` |
| `ChatHistoryProofs!UnansweredAreOffered` | `HistorySpec => []UnansweredIsOffered` |
| `ChatHistoryProofs!FaithfulChatsStayJoined` | `HistorySpec => []FaithfulChatsAreNeverRevised` |
| `SupervisorProofs!TypeCorrect` | `Spec => []TypeOK` |
| `SupervisorProofs!OneLineage` | `Spec => []SingleLineage` |
| `SupervisorProofs!NobodyForgotten` | `Spec => []NoOrphan` |

**The budget.** The code compares the cap with the number of handles *without
an outcome* (`Live`), the promise is about tasks that *run* (`Executing`).
`ParallelCap` alone is not inductive: a state with a running task whose handle
has an outcome would let spawn exceed the cap. The invariant is
`CapInv == ExecutingIsLive /\ UnspawnedIsFresh /\ LiveBelowCap`: every task in
progress belongs to a live handle, an id not handed out has left no trace (so
a spawn adds one live handle), and the live handles respect the cap. Each
action either leaves `Live` alone or shrinks it, except `SpawnChild` and
`Resume`, which check the cap first. (`Live \subseteq Executing`, the other
half, is false: a child whose task is cancelled before its first step keeps a
handle without an outcome, and its slot of the budget, for the rest of the
turn. The error is on the safe side of the budget.)

**The refinement.** `busy` is `Executing`, `retired` the closed children. A
spawn or a resume is `Admit`, the end of a turn `Release`, close and shutdown
`Retire`, everything else stutters. That `Admit` may be taken needs `CapInv`,
and that a closed child is not admitted is the guard of `Resume` and, for a
fresh child, `UnspawnedIsFresh`.

**The seed.** A follow-up turn starts from `resume_messages`, which only a turn
that ended by itself writes. That the snapshot is the *last* such turn needs
`EndedAreOver` (only turns that are over have an ending, so a turn that starts
has none) and `SnapshotIsClean`.

**The kill.** A killed turn leaves the snapshot of an earlier turn in place, so
`KilledIsNotResumable` rests on who may raise `hard`. `KillInv` says it for
each of them: a close has closed the child first (`ClosesAreClosed`), shutdown
too (`LeftIsClosed`), and a delegation kills only the first turn of the child
it spawned (`DelegationsAreFirst`), which has no snapshot (`FirstTurnIsFresh`).
Hence `HardSpares`: a child about to be killed cannot be resumed afterwards.

**The report.** `wait` and `run` read the handle some steps after the task they
awaited is done. `CallsAreCurrent` says that no other turn has begun meanwhile:
a send runs alone (`MayIssue`), so none is issued while a call that awaits is
in flight. This is where the rule of `concurrency_safe` is needed, and where
letting sends overlap breaks the proof (and the run: the mutant
`ConcurrencySafeSend`). `OutcomeIsRecorded` says that a handle at rest tells
how its last turn ended.

**The cap.** `ClockCountsOpenPrompts` (the clock is suspended exactly while
prompts that pause the cap are open; no run checks it apart) is inductive given the types; its proof
counts prompts with the cardinality lemmas `OneMoreAsks` and `OneLessAsks`.
`CapCoversTheCommand` needs in addition that time does not pass for a waiter
that has something to do: `FrozenIsWoken` (once the last prompt closes, the
waiter that slept without a timeout has been woken: no wake-up is lost) and
`RunningIsAwaited`. Then a tick that is charged happens before the deadline, and
`ChargedBelowNow` carries the rest. That a timeout withdraws no prompt follows
from the balance: a clock that is not suspended has no open prompt, and none
opens once the task is cancelled.

**The lineage.** `SingleLineage` bounds *live processes + planned boots +
scheduled restarts* by one. It needs `HeldFires` (as many intervals fire as the
supervisor holds, so `stopHealthTimer` really stops the health check) and the
cardinality lemmas `LivingCount` and `OneAlive` for the set of live processes;
`ScheduleRestartAdds` isolates what the three callers of `scheduleRestart`
share. `NoOrphan` needs `WaitedIsAlive`: a boot that waits for a marker waits
for the process it spawned, which is the child and has not exited.

**The tasks.** A scan judges a task from a list it read some awaits before.
`TaskInv` says what stays true meanwhile: `KnowsItsRow` (where a `task_run` and
a row are, together), `StreamHasRow` (a stream's task has a row that was not
inherited), and `ScanKnows` (a scan that found a task ready has found each
dependency completed, and completed is never taken back in the history). A
restart empties the coroutines, so nothing of the old process can touch a row
that the sweep has ended.

**The registration.** `OpenTurnIsRegistered` must not be lost to a late answer
of an earlier turn. `TurnInv` is about the pipes: the start request of the turn
under way, or its answer, is the *last* of its kind in them (`LastRequest`), at
most one turn is under way, a turn not begun has left nothing in the pipes, and
an open turn's pipes hold no request any more. The lemmas `Appending`,
`Dropping`, `Cutting` say what the pipes' operations do to positions.

**The end of a loop.** `EndOfALoopIsSaid` is about a step: the task of a turn
ends only with the terminal notification behind it. The one step that could
break it would be a second start of a turn that has a task; `StartedOnce` says
that a turn's start request is under way once at most, and only while the turn
has no task.

**The worktrees.** A merge reads the row, then runs six commands, and writes.
`MergesLoseNothing` is inductive with what each merge knows at each of them
(`Covers`): past the commit, nothing in the tree is still owed; past the merge,
nothing on the branch that is not in the main checkout; and between the removal
of a tree and that of its branch no tree of the name comes back. `GoneIsEmpty`
says that a tree has its branch and that what is gone holds nothing.

**The breakers.** `BreakerIsEarned` speaks of the past, so the invariant relates
the counters to it: `failures` is at most the length of the run of failures at
the end of `story`, `refills` at most that of the passes at the end of `worked`
which followed each other within the window, and `lastRound` is the last of
`worked`. A breaker opens in a step that makes a count reach its limit.

**The lease.** `LeaseInv`: whoever is past its `flock` has the kernel's lock on
the file it opened (`LocksItsFile`), and the owner's file is the one at the
path. The comparison establishes the last part and the removal of a file that
nobody holds keeps it; two owners would have locked one file.

**The attempts.** `AttemptsInv` says that every round an attempt has lost was
lost to a removal of its own (`TriesAreFiles`: the file an opener has is at
least as new as the rounds it lost), and that with fewer removals than rounds
somebody is not refused. A refusal by the lock means that somebody holds it,
who goes on; so when all are through, one of them owns the store.

**The channel.** `IdsAreNumbers`: an id is the number of its call wherever it
is found, in a pipe, at the host or under a future. So the call that awaits an
id in a process is the one the id was made for; across processes that says
nothing, which is `channel_stray`.

**The scopes.** A call runs on what a cache says, so `AllowsAreGranted` says of
every place an allow can be found in (the session, what the turn has read, the
file, a `put` under way) that the user granted it, for the chat or for all.
What makes it inductive is that a process takes its sessions with it when it
dies, and its turns' copies, but never an allow for all. `WriterIsAlone` says
that, as long as no two processes were writing at once, what the one writer has
read is still the file; hence its replacement adds one decision and loses none.

**The bridge.** `WoundDown` is about each run: the end of `out` is put there by
the worker's last step, so a run that winds down has no worker, and a run
without a worker schedules nothing. What was scheduled before is born before
`out` ends (callbacks of asyncio's thread run in order), so it is cancelled and
gathered with the rest. `CancellingRunning` says that a cancel, from whichever
run's methods, makes running tasks wind down and touches no other.

**The record and the run.** `RecordMirrorsTheRun` looks at a run with nothing
left to flush and says nothing of the numbers the next rows need. `MirrorInv`
says of every run (`Kept`): the record gives back the durable part of its
messages, the others wait, numbered behind every row of the record, so that the
next flush is not refused and appends (`Flushed`), and a compaction's rewrite
replaces (`Rewritten`). What starts a run (`PlanSeeding`, in its five cases)
establishes it: `PlansWell`. All of it rests on lemmas about the record as such
in `HistoryRecordProofs`: a projection is cut at the newest boundary and goes
through what follows it (`LoadAfter`, `LoadRewritten`), flattening goes through
concatenation (`ItemsJoined`), rows with numbers behind the record's are stored
at its end in their order (`AppendedLast`). These are shown by induction over
the length of a sequence, with the lemma `Induction`, which takes the property
as the *set* of the numbers that have it; the library's own takes an operator,
which the provers cannot instantiate. The theorem is up to `overlapped`: a
stream cancelled hard leaves a thread that may store rows behind the next run's
back, as the code's worker does.

**The marker.** A dead turn's prompt is offered when the chat is still marked
active, the record has the prompt, and the host's last row is the user's.
`UnansweredIsOffered` speaks of dead turns only; `OfferInv` follows the marker
through the whole turn (`Offered`): it is there from the opening to the stored
reply, and a turn that died has it or has nothing in the record. `Turns` is the
order of turns: one begins when those before it have streamed, and those it did
not overtake are over, so no earlier turn's end can take its marker away.
`Unheard` names the prompts that neither the record, nor a thread cut off, nor
the inbox, nor the run can hold yet (`Untold`): a text gets into the record
only after its turn was opened, and opening sets the marker. That a
flush adds no text but that of its batch, stored or refused half way, is
`AppendedIs`; it needs the record's rows in the order of their numbers.
`HostRows` says that a chat in which anything was said has a row of the user's,
without which `Last(host)` would mean nothing. The theorem has no exception for
`overlapped`: the thread of a stream cut off is part of `Unheard`. The type
invariant `HistoryTyped` follows from the same parts.

**The joined chat.** `FaithfulChatsAreNeverRevised` says what a new turn may not
conclude; whether it concludes it depends on two texts written by two processes
at different times. The invariant `Faithful`, which holds as long as the chat is
`plain`, relates them at every step of a turn:

- `Viewed`: every entry of the record is a message of a run or one of the loop's
  own compactions, `LoopView(record)` is what they add up to, what it gives
  back begins with the system prompt, and a user's text that is not in the view
  is in no entry, also not in one a compaction has left behind. The last part is
  what makes the sequence numbers and the newest boundary of no consequence.
- `Joining`: `LoopView(record)` is a prefix of what the host's table tells
  (`Known`), and the rest holds no reply (`Follows`): nothing but prompts that
  died before the sidecar wrote them. While a run works, the record and the
  messages that wait are exactly the table (`Working`); between the end of a
  stream and the stored reply, the record is ahead by the row about to be
  written; between the stored prompt and the opening, it is behind by that
  prompt; before a resumed run the two are equal, because only a prompt that is
  in the record is offered.
- `Tidy` and `PlainRows` are the turns and rows of a plain chat: one turn at a
  time, no steer, no thread cut off, a reply after its prompt.

`Follows`, rather than equality, is needed because a process may die before it
has opened its record; that the rest holds no reply is needed because
`PlanSeeding` joins only where everything the host adds is by a user. The steps
of `Faithful` use `MirrorInv` for what a flush adds and `OfferInv` for the order
of turns and for which turns can be resumed. What the host sends is not the
rows themselves: to the newest replies it adds the tool calls, and `Alike` says
which messages may be sent for a row so that the sidecar still recognises it.
`SendsJoin` and `ResumesJoin` are the two ways a turn's run then joins.

Temporal reasoning is one PTL step per theorem over `Init => Inv` and
`Inv /\ [Next]_vars => Inv'`.

### Only model-checked

- Liveness under fairness and anything about `ENABLED`: the prover's temporal
  backend is propositional.
- `ModelKnowsTheConversation` of `ChatHistory`. For plain chats `Faithful` says
  most of what it needs; it also speaks of chats that were edited, forked or
  steered, and opens summaries of summaries, which takes an induction over the
  depth and over `Found`'s fold. It is the next to prove.
- `PartsTypeOK` of the `parts` runs as such: it is the conjunction of the
  components' type invariants, each of which is proved apart.
- `CancelEndsTheRun`, a liveness property, like those of the pool, the
  deadline, the turn and the tasks.

## 5. How to run

    tlc -config MCAgentPool.cfg MCAgentPool      (and so for every other .cfg)
    tlapm AgentPoolProofs.tla                    (and so for every other *Proofs.tla)

A `.cfg` is named after its module, with what it shows behind it. The longest
runs are `turn_parts`, `pool_safety`, `task_parts` and `shared_parts`, between
one minute and a bit over two; the others take seconds. The proofs take some ten minutes altogether.

## 6. Not modelled

Inside the modules:

- The listing of children, a steer of a running child, and profile
  configuration (pool). A steer after an interrupt is accepted and lost; it is
  listed under hazards.
- `listTasks`' limit of one hundred, and `task_steer` (`task-service.ts`).
- Of worktrees: git commands that fail for other reasons than those named in
  the actions, and links and ignored files in a tree.
- Frame splitting: the supervisor's line buffer is not emptied between
  processes (`supervisor.ts`), and the models have whole frames only.
- Notifications other than the terminal ones, and the plain (non-CoreLoop)
  provider stream (`sidecar.py`).
- The bridge's callbacks to hooks (`_await_on_loop`), the cuts of a stream by
  soft timeouts, conversions, and the usage counters (`native_bridge.py`).
- Which tool results compaction folds and what a summary says; the activation
  of a branch, which writes the record pointer and the rows one after the
  other; compaction's brackets in the record, which every reader skips.
- The Windows mutex and the Node twin of the write lease.
- What handlers of reverse requests do: commands, files, confinement.

Outside them, and why the share of the code that is mapped is small: of about
57,000 lines of implementation the greater part is data (a catalog of models,
generated types, presets), adapters to services that are not in the repository
(providers), effects on files, processes and the kernel (tools, sandboxes,
delivery), translations of one format into another (front ends, routes) and
rendering. None of it has states that interleave; a specification of it would
be the code again, and its mistakes are those a unit test finds. The native
loop, which has such states, is a binary whose source is not in the repository;
what the Python side sees of it is in `NativeBridge`, `AgentPool`,
`ToolDeadline`, `Compaction` and `ChatHistory`. What has states and is left is in section 7.

## 7. Plan

Done, in this order: the pool and its promise (`AgentPool`, `SlotPool`), the
cap of a tool call, background tasks, the processes, a turn across host and
sidecar; then the scopes of approvals, compaction, the write lease, the record
and the chat kept twice, the reverse channel, the two threads of the native
bridge, the worktrees of tasks, and the proofs about tasks, turns, lease,
channel, scopes, bridge, worktrees, compaction and the record.

What is left, the most valuable first:

1. The bridge's callbacks to hooks (`_await_on_loop`), where a cancelled task
   hands the worker nothing, and `ChatHistory`'s flushes made by them.
2. `ReverseChannel` composed with `Supervisor` and `ApprovalScopes`: whose
   decision a call runs on after a restart.
3. A property of `Worktrees` for tasks that share a tree, once the code says
   what they may expect; `TaskService` composed with it.
4. The activation of a branch, and the live-stream buffer a page reconnects to.
5. `shell_session` and the code runner, whose child processes outlive calls.
6. The TypeScript client, with the ideas of `Supervisor`; harness arithmetic
   (budget, retry) as operators checked against a reference.

Abstract specifications worth stating: a stream that ends exactly once (for
`ChatTurn`), a dependency scheduler (for `TaskService`), an append-only chat
(for `ChatHistory`). Theorems worth proving: `ModelKnowsTheConversation`, and
the refinements of these.
