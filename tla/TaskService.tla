---------------------------- MODULE TaskService ----------------------------
(***************************************************************************)
(* Background tasks of one chat and their dependencies                     *)
(* (agent-shell, local-backend/task-service.ts) over the task table        *)
(* (storage/index.ts).                                                     *)
(*                                                                         *)
(* Everything runs on one Node thread.  The table is read and written      *)
(* synchronously, but every operation on it is awaited, so a step is what  *)
(* a coroutine does from one `await` to the next: task_run is one          *)
(* coroutine, a task's stream is another, and the scan that looks for      *)
(* tasks to unblock, started when a stream is over, a third.               *)
(* A task's words, its worktree and its timeline are left out.             *)
(***************************************************************************)
EXTENDS Naturals, FiniteSets

CONSTANTS
  Task,     (* the task ids of the chat                                     *)
  MaxDeps,  (* bound: dependencies of one task                              *)
  MaxRuns,  (* bound: streams started for one task                          *)
  MaxRestarts (* bound: crashes of the process                              *)

ASSUME TaskAssumption == IsFiniteSet(Task)
ASSUME TaskBoundAssumption == {MaxDeps, MaxRuns, MaxRestarts} \subseteq Nat

VARIABLES
  (* the table *)
  status,   (* of each task's row; "absent": no row                         *)
  deps,     (* dependsOn                                                    *)
  (* the coroutines *)
  tool,     (* each task's task_run: where it is                            *)
  first,    (* ... the status it decided the row starts with                *)
  runs,     (* streams started for each task                                *)
  stream,   (* each stream: "none", "open", "over" (its status is written)  *)
  scan,     (* the scan each stream's end started                           *)
  entry,    (* TaskService.running: the stream registered for the task      *)
  (* history *)
  completed, (* tasks that completed once                                   *)
  owed,     (* blocked tasks that a stream's end has decided                *)
  inherited, (* tasks that were in the table when this process started      *)
  restarts

toolVars == <<tool, first>>
taskHistory == <<completed, owed, inherited, restarts>>
taskVars == <<status, deps, toolVars, runs, stream, scan, entry, taskHistory>>

Terminal == {"completed", "failed"}
Pending  == {"blocked", "running"}
Run      == Task \X (1..MaxRuns)
NoTask   == "none"
NoScan   == [at |-> "none", left |-> {}, task |-> NoTask, verdict |-> "waiting"]

TaskTypeOK ==
  /\ status \in [Task -> {"absent"} \cup Pending \cup Terminal]
  /\ deps   \in [Task -> SUBSET Task]
  /\ tool   \in [Task -> {"none", "checked", "over"}]
  /\ first  \in [Task -> Pending]
  /\ runs   \in [Task -> 0..MaxRuns]
  /\ stream \in [Run -> {"none", "open", "over"}]
  /\ scan   \in [Run -> [at : {"none", "listed", "judged", "written"},
                         left : SUBSET Task, task : Task \cup {NoTask},
                         verdict : {"ready", "failed", "waiting"}]]
  /\ entry  \in [Task -> 0..MaxRuns]
  /\ completed \subseteq Task
  /\ owed      \subseteq Task
  /\ inherited \subseteq Task
  /\ restarts  \in 0..MaxRestarts

TaskInit ==
  /\ status = [t \in Task |-> "absent"]
  /\ deps   = [t \in Task |-> {}]
  /\ tool   = [t \in Task |-> "none"]
  /\ first  = [t \in Task |-> "running"]
  /\ runs   = [t \in Task |-> 0]
  /\ stream = [r \in Run |-> "none"]
  /\ scan   = [r \in Run |-> NoScan]
  /\ entry  = [t \in Task |-> 0]
  /\ completed = {}
  /\ owed      = {}
  /\ inherited = {}
  /\ restarts  = 0
-----------------------------------------------------------------------------
AllCompleted(ds) == \A d \in ds : status[d] = "completed"
AnyFailed(ds)    == \E d \in ds : status[d] = "failed"

\* The dependencies that make runTask insert the row as blocked.
BlockersIfRunning(ds) == {d \in ds : status[d] = "running"}
Blockers(ds)          == {d \in ds : status[d] # "completed"}

\* What a scan finds out about a blocked task.
ScanVerdictAnyCompleted(t) ==
  IF AnyFailed(deps[t]) THEN "failed"
  ELSE IF \E d \in deps[t] : status[d] = "completed" THEN "ready" ELSE "waiting"
ScanVerdict(t) ==
  IF AnyFailed(deps[t]) THEN "failed"
  ELSE IF AllCompleted(deps[t]) THEN "ready" ELSE "waiting"

\* ignite: an independent stream, and its entry in the map.
Ignite(t) ==
  /\ runs[t] < MaxRuns
  /\ runs' = [runs EXCEPT ![t] = @ + 1]
  /\ stream' = [stream EXCEPT ![<<t, runs[t] + 1>>] = "open"]
  /\ entry' = [entry EXCEPT ![t] = runs[t] + 1]
-----------------------------------------------------------------------------
\* runTask reads all the dependencies at once; it goes on only if every one
\* exists and none has failed.
Check(t, ds) ==
  /\ tool[t] = "none"
  /\ status[t] = "absent"
  /\ Cardinality(ds) <= MaxDeps
  /\ \A d \in ds : status[d] # "absent"
  /\ ~ AnyFailed(ds)
  /\ deps' = [deps EXCEPT ![t] = ds]
  /\ first' = [first EXCEPT ![t] = IF Blockers(ds) = {} THEN "running" ELSE "blocked"]
  /\ tool' = [tool EXCEPT ![t] = "checked"]
  /\ UNCHANGED <<status, runs, stream, scan, entry, taskHistory>>

\* No worktree can be made for it: task_run fails and leaves no row.
WorktreeFails(t) ==
  /\ tool[t] = "checked"
  /\ tool' = [tool EXCEPT ![t] = "none"]
  /\ deps' = [deps EXCEPT ![t] = {}]
  /\ first' = [first EXCEPT ![t] = "running"]
  /\ UNCHANGED <<status, runs, stream, scan, entry, taskHistory>>

\* The worktree is there: createTask inserts the row as decided before, and a
\* task that is not blocked is ignited.  (updateTask(recordId) in between is
\* over before a scan that has just listed the row can write to it.)
Insert(t) ==
  /\ tool[t] = "checked"
  /\ status' = [status EXCEPT ![t] = first[t]]
  /\ tool' = [tool EXCEPT ![t] = "over"]
  /\ IF first[t] = "running" THEN Ignite(t) ELSE UNCHANGED <<runs, stream, entry>>
  /\ UNCHANGED <<deps, first, scan, taskHistory>>
-----------------------------------------------------------------------------
\* The tasks whose fate is decided once d's row says `end`.
Decided(d, end) ==
  {t \in Task : /\ status[t] = "blocked"
                /\ d \in deps[t]
                /\ end = "failed" \/ AllCompleted(deps[t] \ {d})}

\* executeTask writes how the stream ended; with no sidecar it fails the task
\* without opening one.
RunEnds(r, end) ==
  LET t == r[1]
  IN /\ stream[r] = "open"
     /\ stream' = [stream EXCEPT ![r] = "over"]
     /\ status' = [status EXCEPT ![t] = end]
     /\ completed' = IF end = "completed" THEN completed \cup {t} ELSE completed
     /\ owed' = owed \cup Decided(t, end)
     /\ UNCHANGED <<deps, toolVars, runs, scan, entry, inherited, restarts>>

\* It throws outside its `try`: only a warning.
RunEscapes(r) ==
  /\ stream[r] = "open"
  /\ stream' = [stream EXCEPT ![r] = "over"]
  /\ UNCHANGED <<status, deps, toolVars, runs, scan, entry, taskHistory>>

RunSettlesSilently(r) ==
  /\ stream[r] = "over"
  /\ scan[r].at = "none"
  /\ stream' = [stream EXCEPT ![r] = "none"]
  /\ entry' = [entry EXCEPT ![r[1]] = 0]
  /\ scan' = [scan EXCEPT ![r] =
                IF status[r[1]] = "failed" THEN NoScan
                ELSE [at |-> "listed", left |-> {t \in Task : status[t] = "blocked"},
                      task |-> NoTask, verdict |-> "waiting"]]
  /\ UNCHANGED <<status, deps, toolVars, runs, taskHistory>>

\* ignite's `finally`: the entry goes, whichever stream it stands for, and a
\* scan starts by listing the blocked tasks.
RunSettles(r) ==
  /\ stream[r] = "over"
  /\ stream' = [stream EXCEPT ![r] = "none"]
  /\ entry' = [entry EXCEPT ![r[1]] = 0]
  /\ scan' = [scan EXCEPT ![r] =
                [at |-> "listed",
                 left |-> {t \in Task : status[t] = "blocked" /\ deps[t] # {}},
                 task |-> NoTask, verdict |-> "waiting"]]
  /\ UNCHANGED <<status, deps, toolVars, runs, taskHistory>>
-----------------------------------------------------------------------------
AtHead(r) ==
  \/ scan[r].at = "listed"
  \/ scan[r].at = "judged" /\ scan[r].verdict = "waiting"

\* maybeUnblock at the head of its loop: the next task, in any order (the list
\* is sorted by the second a row was updated in), and its dependencies.
ScanGoesOn(r) ==
  IF scan[r].left = {}
  THEN scan' = [scan EXCEPT ![r] = NoScan]
  ELSE \E t \in scan[r].left :
         scan' = [scan EXCEPT ![r] =
                    [at |-> "judged", left |-> scan[r].left \ {t},
                     task |-> t, verdict |-> ScanVerdict(t)]]

ScanNext(r) ==
  /\ AtHead(r)
  /\ ScanGoesOn(r)
  /\ UNCHANGED <<status, deps, toolVars, runs, stream, entry, taskHistory>>

\* The verdict is written, whatever has become of the row since it was listed.
ScanWrites(r) ==
  LET t == scan[r].task
  IN /\ scan[r].at = "judged"
     /\ scan[r].verdict # "waiting"
     /\ status' = [status EXCEPT
                     ![t] = IF scan[r].verdict = "failed" THEN "failed" ELSE "running"]
     /\ owed' = owed \ {t}
     /\ scan' = [scan EXCEPT ![r].at = "written"]
     /\ UNCHANGED <<deps, toolVars, runs, stream, entry, completed, inherited, restarts>>

\* A ready task is ignited once its row says so; then the next.
ScanIgnites(r) ==
  /\ scan[r].at = "written"
  /\ IF scan[r].verdict = "ready" THEN Ignite(scan[r].task)
     ELSE UNCHANGED <<runs, stream, entry>>
  /\ ScanGoesOn(r)
  /\ UNCHANGED <<status, deps, toolVars, taskHistory>>
-----------------------------------------------------------------------------
SweepAsInterrupted(t) == IF status[t] \in Pending THEN "interrupted" ELSE status[t]
SweepRunningOnly(t) == IF status[t] = "running" THEN "failed" ELSE status[t]

\* failRunningTasks, before anything else the new process does.
Sweep(t) == IF status[t] \in Pending THEN "failed" ELSE status[t]

\* The process dies with all its coroutines and starts again.
HostRestarts ==
  /\ restarts < MaxRestarts
  /\ restarts' = restarts + 1
  /\ status' = [t \in Task |-> Sweep(t)]
  /\ inherited' = {t \in Task : status[t] # "absent"}
  /\ owed' = {}
  /\ tool' = [t \in Task |-> IF status[t] = "absent" THEN "none" ELSE "over"]
  /\ deps' = [t \in Task |-> IF status[t] = "absent" THEN {} ELSE deps[t]]
  /\ first' = [t \in Task |-> "running"]
  /\ stream' = [r \in Run |-> "none"]
  /\ scan' = [r \in Run |-> NoScan]
  /\ entry' = [t \in Task |-> 0]
  /\ UNCHANGED <<runs, completed>>
-----------------------------------------------------------------------------
ScanStep(r) == ScanNext(r) \/ ScanWrites(r) \/ ScanIgnites(r)

TaskNext ==
  \/ \E t \in Task : \/ \E ds \in SUBSET (Task \ {t}) : Check(t, ds)
                     \/ WorktreeFails(t)
                     \/ Insert(t)
  \/ \E r \in Run : \/ \E end \in Terminal : RunEnds(r, end)
                    \/ RunEscapes(r)
                    \/ RunSettles(r)
                    \/ ScanStep(r)
  \/ HostRestarts

TaskSpec == TaskInit /\ [][TaskNext]_taskVars

\* Node runs what is ready; nothing obliges a stream to end, a worktree to be
\* made or the model to call task_run.
TaskFairness ==
  \A r \in Run : WF_taskVars(RunSettles(r)) /\ WF_taskVars(ScanStep(r))

TaskFairSpec == TaskSpec /\ TaskFairness
-----------------------------------------------------------------------------
(***************************************************************************)
(* Properties                                                              *)
(***************************************************************************)

\* Every stream a task was given started after all its dependencies had
\* completed, although they are read some steps before it starts.
IgnitedWhenReady ==
  \A t \in Task : runs[t] > 0 => deps[t] \subseteq completed

\* A restart leaves no task waiting for a stream or a scan that died with the
\* old process, and nothing in the new one revives it.
InheritedIsTerminal == \A t \in inherited : status[t] \in Terminal

\* A dependency whose stream ends decides every task that was already waiting
\* for it: the scan reaches it however many others are under way.  (A second
\* stream of a dependency takes its status back.)
DecidedIsUnblocked ==
  \A t \in Task :
    (t \in owed) ~> (t \notin owed \/ \E d \in deps[t] : runs[d] > 1)

(***************************************************************************)
(* Statements of the source that do not hold                               *)
(***************************************************************************)

\* Nothing is under way that could still change the table.
Idle == /\ \A t \in Task : tool[t] # "checked"
        /\ \A r \in Run : stream[r] = "none" /\ scan[r].at = "none"

\* "With a running or blocked dependency it is stored as blocked, and
\* maybeUnblock, called when the dependency reaches its end, ignites it": no
\* task is still blocked when there is nothing left to unblock it.
BlockedIsScheduled == Idle => \A t \in Task : status[t] # "blocked"

\* "The host starts one independent stream for each task".
OneStreamPerTask ==
  \A t \in Task : Cardinality({r \in Run : r[1] = t /\ stream[r] = "open"}) <= 1
=============================================================================
