---------------------------- MODULE NativeBridge ----------------------------
(***************************************************************************)
(* The bridge between a CoreLoop and the native loop that drives its turns *)
(* (run_native in native_bridge.py, cancel and steer in loop.py).          *)
(*                                                                         *)
(* Two threads work on a run: the worker, which runs the native loop and   *)
(* waits in each callback until asyncio's thread has done what it asks,    *)
(* and asyncio's thread, which runs streams and tools as tasks, takes the  *)
(* events and cancels.  What the worker wants is scheduled on asyncio's    *)
(* thread (call_soon_threadsafe) and is no task before that thread comes   *)
(* to it.  A CoreLoop is run again when its child is resumed (pool.py).    *)
(*                                                                         *)
(* The native loop is not in the repository: it may do whatever the        *)
(* callbacks allow, and polls before what it does next.                    *)
(***************************************************************************)
EXTENDS Naturals, Sequences, FiniteSets

CONSTANTS
  MaxLoopRuns,  (* bound: runs of the loop                                  *)
  ToolSlot,     (* the calls of a batch, which may be in flight together    *)
  MaxStreams,   (* bound: streams of a run                                  *)
  MaxChunks,    (* bound: frames in a stream's queue                        *)
  MaxSteers     (* bound: messages sent to the loop                         *)

ASSUME BridgeAssumption ==
  /\ MaxLoopRuns \in Nat \ {0} /\ {MaxStreams, MaxChunks, MaxSteers} \subseteq Nat
  /\ IsFiniteSet(ToolSlot)

LoopRun  == 1..MaxLoopRuns
StreamId == 1..MaxStreams
Message  == 1..MaxSteers
NoStream == 0
NoRun    == 0

VARIABLES
  (* the CoreLoop *)
  interrupts, (* steer_mode = "interrupt"                                   *)
  sticky,     (* _cancel_event                                              *)
  installed,  (* runs whose cancel and steer stand in for the loop's, each  *)
              (* calling the one before it                                  *)
  steered,    (* each message: where it is, and the run it was sent to      *)
  (* each run, on asyncio's thread *)
  run,
  taking,     (* the consumer's side of `out`                               *)
  toolTask,   (* each call's task                                           *)
  collector,  (* each stream's task (_collect_stream)                       *)
  frames,     (* each stream's queue                                        *)
  (* each run's worker *)
  worker,
  reading,    (* the stream it reads                                        *)
  flag,       (* cancel_flag                                                *)
  raised,     (* worker_error                                               *)
  (* history *)
  missed      (* runs whose worker had polled, and had no task for what it  *)
              (* does next, when they were cancelled                        *)

loopVars   == <<interrupts, sticky, installed, steered>>
asyncVars  == <<toolTask, collector, frames>>
workerVars == <<worker, reading, flag, raised>>
bridgeVars == <<loopVars, run, taking, asyncVars, workerVars, missed>>

TaskState == {"none", "scheduled", "running", "cancelling"}

BridgeTypeOK ==
  /\ interrupts \in BOOLEAN /\ sticky \in BOOLEAN
  /\ installed \in Seq(LoopRun)
  /\ steered \in [Message -> [at : {"unsent", "inbox", "queue", "read"},
                              queue : LoopRun \cup {NoRun}, meant : LoopRun \cup {NoRun}]]
  /\ run \in [LoopRun -> {"none", "due", "open", "leaving", "ended", "failed", "killed"}]
  /\ taking \in [LoopRun -> {"empty", "event", "held", "end"}]
  /\ toolTask \in [LoopRun -> [ToolSlot -> TaskState]]
  /\ collector \in [LoopRun -> [StreamId -> TaskState \cup {"over"}]]
  /\ frames \in [LoopRun -> [StreamId -> Seq({"chunk", "done", "error"})]]
  /\ worker \in [LoopRun -> {"none", "polling", "clear", "stopping", "opening", "reading",
       "calling", "emitting", "closing", "finishing", "gone"}]
  /\ reading \in [LoopRun -> StreamId \cup {NoStream}]
  /\ flag \in [LoopRun -> BOOLEAN] /\ raised \in [LoopRun -> BOOLEAN]
  /\ missed \subseteq LoopRun

BridgeInit ==
  /\ interrupts \in BOOLEAN /\ sticky = FALSE
  /\ installed = <<>>
  /\ steered = [i \in Message |-> [at |-> "unsent", queue |-> NoRun, meant |-> NoRun]]
  /\ run = [r \in LoopRun |-> IF r = 1 THEN "due" ELSE "none"]
  /\ taking = [r \in LoopRun |-> "empty"]
  /\ toolTask = [r \in LoopRun |-> [k \in ToolSlot |-> "none"]]
  /\ collector = [r \in LoopRun |-> [s \in StreamId |-> "none"]]
  /\ frames = [r \in LoopRun |-> [s \in StreamId |-> <<>>]]
  /\ worker = [r \in LoopRun |-> "none"]
  /\ reading = [r \in LoopRun |-> NoStream]
  /\ flag = [r \in LoopRun |-> FALSE] /\ raised = [r \in LoopRun |-> FALSE]
  /\ missed = {}
-----------------------------------------------------------------------------
(***************************************************************************)
(* The CoreLoop, on asyncio's thread                                       *)
(***************************************************************************)
Installed  == {installed[i] : i \in DOMAIN installed}
UnderWay(r) == run[r] \in {"due", "open", "leaving"}

\* pool.send resumes a child whose turn is over and that has ended one well.
Resume(r) ==
  /\ run[r] = "none" /\ r > 1 /\ run[r - 1] \in {"ended", "failed"}
  /\ \E q \in 1..(r - 1) : run[q] = "ended"
  /\ run' = [run EXCEPT ![r] = "due"]
  /\ sticky' = FALSE
  /\ UNCHANGED <<interrupts, installed, steered, taking, asyncVars, workerVars, missed>>

\* The seed is planned; what came before goes into the run's own queue, and
\* its cancel and steer take the place of the loop's.
BeginRun(r) ==
  /\ run[r] = "due"
  /\ run' = [run EXCEPT ![r] = "open"]
  /\ steered' = [i \in Message |-> IF steered[i].at = "inbox"
                  THEN [steered[i] EXCEPT !.at = "queue", !.queue = r] ELSE steered[i]]
  /\ flag' = [flag EXCEPT ![r] = sticky]
  /\ installed' = Append(installed, r)
  /\ worker' = [worker EXCEPT ![r] = "polling"]
  /\ UNCHANGED <<interrupts, sticky, taking, asyncVars, reading, raised, missed>>

\* _plan_record_seeding raises: nothing was replaced yet.
PlanFails(r) ==
  /\ run[r] = "due"
  /\ run' = [run EXCEPT ![r] = "failed"]
  /\ UNCHANGED <<loopVars, taking, asyncVars, workerVars, missed>>

\* Variant: cancel_now forgets the streams.
ToolsAlone(r) == {<<"tool", k>> : k \in {k \in ToolSlot : toolTask[r][k] = "running"}}

\* cancel_now: the tasks there are.  What is scheduled is not one of them.
Reached(r) == {<<"tool", k>> : k \in {k \in ToolSlot : toolTask[r][k] = "running"}}
         \cup {<<"stream", s>> : s \in {s \in StreamId : collector[r][s] = "running"}}

\* cancel_active_tools of each run whose cancel or steer is called.
CancelTasks(reached) ==
  /\ toolTask' = [r \in LoopRun |-> [k \in ToolSlot |->
       IF <<"tool", k>> \in reached[r] THEN "cancelling" ELSE toolTask[r][k]]]
  /\ collector' = [r \in LoopRun |-> [s \in StreamId |->
       IF <<"stream", s>> \in reached[r] THEN "cancelling" ELSE collector[r][s]]]

OfInstalled == [r \in LoopRun |-> IF r \in Installed THEN Reached(r) ELSE {}]

Unborn(r) ==
  \/ worker[r] = "clear"
  \/ \E k \in ToolSlot : toolTask[r][k] = "scheduled"
  \/ \E s \in StreamId : collector[r][s] = "scheduled"

\* loop.cancel, from a handler or from whoever takes the events.  The worker
\* may poll between the flag and the tasks; it then has none.
CancelLoop ==
  /\ \E r \in LoopRun : UnderWay(r)
  /\ sticky' = TRUE
  /\ flag' = [r \in LoopRun |-> flag[r] \/ r \in Installed]
  /\ CancelTasks(OfInstalled)
  /\ missed' = missed \cup {r \in Installed : Unborn(r)}
  /\ UNCHANGED <<interrupts, installed, steered, run, taking, frames, worker, reading, raised>>

\* loop.steer: the innermost of the replaced methods empties the inbox into
\* its own queue.
Steer(i) ==
  /\ steered[i].at = "unsent" /\ \A j \in 1..(i - 1) : steered[j].at # "unsent"
  /\ \E r \in LoopRun :
       /\ UnderWay(r)
       /\ steered' = [steered EXCEPT ![i] =
            IF installed = <<>> THEN [at |-> "inbox", queue |-> NoRun, meant |-> r]
            ELSE [at |-> "queue", queue |-> Head(installed), meant |-> r]]
  /\ IF interrupts THEN CancelTasks(OfInstalled) ELSE UNCHANGED <<toolTask, collector>>
  /\ UNCHANGED <<interrupts, sticky, installed, run, taking, frames, workerVars, missed>>
-----------------------------------------------------------------------------
(***************************************************************************)
(* The worker                                                              *)
(***************************************************************************)
Becomes(r, state) == worker' = [worker EXCEPT ![r] = state]

\* poll_control: the steers are drained and the flag is read.
PollControl(r) ==
  /\ worker[r] = "polling"
  /\ steered' = [i \in Message |-> IF steered[i].at = "queue" /\ steered[i].queue = r
                  THEN [steered[i] EXCEPT !.at = "read"] ELSE steered[i]]
  /\ Becomes(r, IF flag[r] THEN "stopping" ELSE "clear")
  /\ UNCHANGED <<interrupts, sticky, installed, run, taking, asyncVars, reading, flag,
                 raised, missed>>

\* stream_llm waits for the first frame; only an error frame ends it there.
OpenStream(r, s) ==
  /\ worker[r] = "clear" /\ reading[r] = NoStream
  /\ collector[r][s] = "none" /\ \A t \in 1..(s - 1) : collector[r][t] # "none"
  /\ collector' = [collector EXCEPT ![r][s] = "scheduled"]
  /\ reading' = [reading EXCEPT ![r] = s]
  /\ Becomes(r, "opening")
  /\ UNCHANGED <<loopVars, run, taking, toolTask, frames, flag, raised, missed>>

FirstFrame(r) ==
  /\ worker[r] = "opening" /\ frames[r][reading[r]] # <<>>
  /\ reading' = [reading EXCEPT ![r] =
       IF Head(frames[r][reading[r]]) = "error" THEN NoStream ELSE reading[r]]
  /\ Becomes(r, "polling")
  /\ UNCHANGED <<loopVars, run, taking, asyncVars, flag, raised, missed>>

\* next_stream_chunk; the frame taken before is the first one.
NextStreamChunk(r) ==
  /\ worker[r] = "clear" /\ reading[r] # NoStream
  /\ Becomes(r, "reading")
  /\ UNCHANGED <<loopVars, run, taking, asyncVars, reading, flag, raised, missed>>

ChunkRead(r) ==
  LET s == reading[r] IN
  /\ worker[r] = "reading" /\ frames[r][s] # <<>>
  /\ frames' = [frames EXCEPT ![r][s] = Tail(@)]
  /\ reading' = [reading EXCEPT ![r] = IF Head(frames[r][s]) = "chunk" THEN s ELSE NoStream]
  /\ Becomes(r, "polling")
  /\ UNCHANGED <<loopVars, run, taking, toolTask, collector, flag, raised, missed>>

\* exec_tool of each call of a batch.
ExecTools(r, batch) ==
  /\ worker[r] = "clear" /\ reading[r] = NoStream
  /\ \A k \in batch : toolTask[r][k] = "none"
  /\ toolTask' = [toolTask EXCEPT ![r] =
       [k \in ToolSlot |-> IF k \in batch THEN "scheduled" ELSE @[k]]]
  /\ Becomes(r, "calling")
  /\ UNCHANGED <<loopVars, run, taking, collector, frames, reading, flag, raised, missed>>

ToolsAnswered(r) ==
  /\ worker[r] = "calling"
  /\ \A k \in ToolSlot : toolTask[r][k] = "none"
  /\ Becomes(r, "polling")
  /\ UNCHANGED <<loopVars, run, taking, asyncVars, reading, flag, raised, missed>>

\* poll_control that drains nothing tells of a cancel or, in interrupt mode,
\* of a steer: the native loop may leave a batch or a stream as it is.
LeavesOff(r) ==
  /\ flag[r] \/ (interrupts /\ \E i \in Message : steered[i].at = "queue" /\ steered[i].queue = r)
  /\ worker[r] = "calling" \/ (worker[r] = "polling" /\ reading[r] # NoStream)
  /\ Becomes(r, "polling")
  /\ reading' = [reading EXCEPT ![r] = NoStream]
  /\ UNCHANGED <<loopVars, run, taking, asyncVars, flag, raised, missed>>

\* emit waits until the event was consumed; the last one says how it ended.
Emit(r) ==
  /\ taking[r] = "empty"
  /\ \/ worker[r] = "clear" /\ Becomes(r, "emitting")
     \/ worker[r] = "clear" /\ reading[r] = NoStream /\ Becomes(r, "closing")
     \/ worker[r] = "stopping" /\ Becomes(r, "closing")
  /\ taking' = [taking EXCEPT ![r] = "event"]
  /\ UNCHANGED <<loopVars, run, asyncVars, reading, flag, raised, missed>>

\* run_turn raises.
WorkerRaises(r) ==
  /\ worker[r] = "clear"
  /\ Becomes(r, "finishing")
  /\ raised' = [raised EXCEPT ![r] = TRUE]
  /\ UNCHANGED <<loopVars, run, taking, asyncVars, reading, flag, missed>>

WorkerEnds(r) ==
  /\ worker[r] = "finishing"
  /\ Becomes(r, "gone")
  /\ taking' = [taking EXCEPT ![r] = "end"]
  /\ UNCHANGED <<loopVars, run, asyncVars, reading, flag, raised, missed>>
-----------------------------------------------------------------------------
(***************************************************************************)
(* Tasks and the consumer, on asyncio's thread                             *)
(***************************************************************************)
StartTool(r, k) ==
  /\ toolTask[r][k] = "scheduled"
  /\ toolTask' = [toolTask EXCEPT ![r][k] = "running"]
  /\ UNCHANGED <<loopVars, run, taking, collector, frames, workerVars, missed>>

\* The task ends and `done` answers: with its result, its error, or with the
\* reason it was cancelled for.
ToolEnds(r, k) ==
  /\ toolTask[r][k] \in {"running", "cancelling"}
  /\ toolTask' = [toolTask EXCEPT ![r][k] = "none"]
  /\ UNCHANGED <<loopVars, run, taking, collector, frames, workerVars, missed>>

StartCollector(r, s) ==
  /\ collector[r][s] = "scheduled"
  /\ collector' = [collector EXCEPT ![r][s] = "running"]
  /\ UNCHANGED <<loopVars, run, taking, toolTask, frames, workerVars, missed>>

Send(r, s, frame) == frames' = [frames EXCEPT ![r][s] = Append(@, frame)]

\* A chunk; once the run is cancelled it is the last.
CollectsChunk(r, s) ==
  /\ collector[r][s] = "running" /\ Len(frames[r][s]) < MaxChunks
  /\ IF flag[r] \/ sticky
     THEN /\ frames' = [frames EXCEPT ![r][s] = @ \o <<"chunk", "done">>]
          /\ collector' = [collector EXCEPT ![r][s] = "over"]
     ELSE Send(r, s, "chunk") /\ UNCHANGED collector
  /\ UNCHANGED <<loopVars, run, taking, toolTask, workerVars, missed>>

\* One frame says that the stream is over: it ended, raised, or its task was
\* cancelled, before its first step or after.
CollectorEnds(r, s) ==
  /\ \/ collector[r][s] = "running" /\ (Send(r, s, "done") \/ Send(r, s, "error"))
     \/ collector[r][s] = "cancelling" /\ Send(r, s, "error")
  /\ collector' = [collector EXCEPT ![r][s] = "over"]
  /\ UNCHANGED <<loopVars, run, taking, toolTask, workerVars, missed>>

\* out.get, and the body of whoever iterates over the run.
Take(r) ==
  /\ run[r] = "open" /\ taking[r] = "event"
  /\ taking' = [taking EXCEPT ![r] = "held"]
  /\ UNCHANGED <<loopVars, run, asyncVars, workerVars, missed>>

Consumed(r) ==
  worker' = [worker EXCEPT ![r] = CASE @ = "emitting" -> "polling"
                                    [] @ = "closing"  -> "finishing"
                                    [] OTHER          -> @]

Release(r) ==
  /\ run[r] = "open" /\ taking[r] = "held"
  /\ taking' = [taking EXCEPT ![r] = "empty"]
  /\ Consumed(r)
  /\ UNCHANGED <<loopVars, run, asyncVars, reading, flag, raised, missed>>

\* Variant: only the streams are wound down.
StreamsLeft(r) == [r0 \in LoopRun |-> IF r0 # r THEN {} ELSE Reached(r) \ ToolsAlone(r)]

\* remaining_tasks
Remaining(r) == [r0 \in LoopRun |-> IF r0 # r THEN {} ELSE Reached(r)]

\* The end of `out`.  What the worker had scheduled came before it.
WindDown(r) ==
  /\ run[r] = "open" /\ taking[r] = "end"
  /\ \A k \in ToolSlot : toolTask[r][k] # "scheduled"
  /\ \A s \in StreamId : collector[r][s] # "scheduled"
  /\ run' = [run EXCEPT ![r] = "leaving"]
  /\ taking' = [taking EXCEPT ![r] = "empty"]
  /\ CancelTasks(Remaining(r))
  /\ UNCHANGED <<loopVars, frames, workerVars, missed>>

\* gather: the tasks it cancelled, or that were cancelled already.
Gathered(r) ==
  /\ \A k \in ToolSlot : toolTask[r][k] # "cancelling"
  /\ \A s \in StreamId : collector[r][s] # "cancelling"

\* The worker's error is raised; or the record is written, which may fail; or
\* the loop gets its methods back.  What was local to the run is gone.
Return(r) ==
  /\ run[r] = "leaving" /\ Gathered(r)
  /\ \/ run' = [run EXCEPT ![r] = "failed"] /\ UNCHANGED installed
     \/ /\ ~raised[r]
        /\ run' = [run EXCEPT ![r] = "ended"]
        /\ installed' = SubSeq(installed, 1, Len(installed) - 1)
  /\ frames' = [frames EXCEPT ![r] = [s \in StreamId |-> <<>>]]
  /\ reading' = [reading EXCEPT ![r] = NoStream]
  /\ UNCHANGED <<interrupts, sticky, steered, taking, toolTask, collector, worker, flag,
                 raised, missed>>

\* The task that iterates is cancelled: at out.get, in its body (the event is
\* consumed then), or while it gathers.
Kill(r) ==
  /\ run[r] \in {"open", "leaving"}
  /\ run' = [run EXCEPT ![r] = "killed"]
  /\ IF taking[r] = "held" THEN /\ Consumed(r)
                                /\ taking' = [taking EXCEPT ![r] = "empty"]
     ELSE UNCHANGED <<worker, taking>>
  /\ UNCHANGED <<loopVars, asyncVars, reading, flag, raised, missed>>
-----------------------------------------------------------------------------
WorkerActs(r) ==
  \/ \E s \in StreamId : OpenStream(r, s)
  \/ NextStreamChunk(r)
  \/ \E batch \in SUBSET ToolSlot \ {{}} : ExecTools(r, batch)
  \/ Emit(r) \/ WorkerRaises(r)

WorkerGoesOn(r) ==
  \/ PollControl(r) \/ FirstFrame(r) \/ ChunkRead(r) \/ ToolsAnswered(r)
  \/ worker[r] = "stopping" /\ Emit(r)
  \/ WorkerEnds(r)

ConsumerGoesOn(r) == Take(r) \/ Release(r) \/ WindDown(r) \/ Return(r)

BridgeNext ==
  \/ CancelLoop
  \/ \E i \in Message : Steer(i)
  \/ \E r \in LoopRun :
       \/ Resume(r) \/ BeginRun(r) \/ PlanFails(r)
       \/ WorkerActs(r) \/ WorkerGoesOn(r) \/ LeavesOff(r)
       \/ ConsumerGoesOn(r) \/ Kill(r)
       \/ \E k \in ToolSlot : StartTool(r, k) \/ ToolEnds(r, k)
       \/ \E s \in StreamId : StartCollector(r, s) \/ CollectsChunk(r, s) \/ CollectorEnds(r, s)

BridgeSpec == BridgeInit /\ [][BridgeNext]_bridgeVars

\* Both threads go on by themselves, and a task that was cancelled ends; no
\* tool and no provider must answer.
BridgeFairness ==
  \A r \in LoopRun :
    /\ WF_bridgeVars(WorkerGoesOn(r)) /\ WF_bridgeVars(ConsumerGoesOn(r))
    /\ \A k \in ToolSlot :
         /\ WF_bridgeVars(StartTool(r, k))
         /\ WF_bridgeVars(toolTask[r][k] = "cancelling" /\ ToolEnds(r, k))
    /\ \A s \in StreamId :
         /\ WF_bridgeVars(StartCollector(r, s))
         /\ WF_bridgeVars(collector[r][s] = "cancelling" /\ CollectorEnds(r, s))
-----------------------------------------------------------------------------
(***************************************************************************)
(* Properties                                                              *)
(***************************************************************************)

\* A run that returns, with an answer or an error, leaves no tool and no
\* stream behind, not even those the native loop had left off.
NoTaskOutlivesTheRun ==
  \A r \in LoopRun : run[r] \in {"ended", "failed"} =>
    /\ \A k \in ToolSlot : toolTask[r][k] = "none"
    /\ \A s \in StreamId : collector[r][s] \in {"none", "over"}

\* A cancelled run ends, whatever hangs: its tools and streams are cancelled
\* and the worker, woken, sees the flag.  Not promised when the cancel came
\* between the worker's poll and the birth of the task it then asked for.
CancelEndsTheRun ==
  \A r \in LoopRun : (run[r] = "open" /\ flag[r] /\ r \notin missed)
                       ~> (run[r] \in {"ended", "failed", "killed"})

\* A message sent to a loop goes to the run under way, never into the queue of
\* a run before it, which nobody polls any more.
SteersReachTheirRun ==
  \A i \in Message : steered[i].at = "queue" => steered[i].queue >= steered[i].meant
=============================================================================
