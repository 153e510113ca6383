-------------------------- MODULE TaskServiceProofs --------------------------
(***************************************************************************)
(* The background tasks of a chat, for any number of tasks, dependencies,  *)
(* streams and restarts: a stream starts only after the dependencies of    *)
(* its task, and a restart leaves nothing pending.  Both rest on what a    *)
(* coroutine still knows when it goes on after an await (KnowsItsRow).     *)
(* Then their worktrees, for any number of trees, merges and removals under *)
(* way: a merge loses nothing (WorktreeInv).                               *)
(***************************************************************************)
EXTENDS TaskService, Worktrees, TLAPS

\* A row, its coroutine and its streams.
KnowsItsRow(t) ==
  /\ tool[t] = "over" <=> status[t] # "absent"
  /\ runs[t] > 0 => status[t] # "absent"
  /\ status[t] = "completed" => t \in completed
  /\ t \in inherited => status[t] \in Terminal
  /\ tool[t] = "checked" /\ first[t] = "running" => deps[t] \subseteq completed

StreamHasRow(r) == stream[r] = "open" => status[r[1]] # "absent"

\* A scan goes over rows that exist and are not inherited; the task it found
\* ready is.
ScanKnows(r) ==
  /\ \A t \in scan[r].left : status[t] # "absent" /\ t \notin inherited
  /\ scan[r].at \in {"judged", "written"} =>
       /\ scan[r].task \in Task
       /\ status[scan[r].task] # "absent"
       /\ scan[r].task \notin inherited
       /\ scan[r].verdict = "ready" => deps[scan[r].task] \subseteq completed

TaskInv ==
  /\ TaskTypeOK
  /\ IgnitedWhenReady
  /\ \A t \in Task : KnowsItsRow(t)
  /\ \A r \in Run : StreamHasRow(r) /\ ScanKnows(r)

LEMMA TaskInitially == TaskInit => TaskInv
<1> SUFFICES ASSUME TaskInit PROVE TaskInv
  OBVIOUS
<1> USE TaskBoundAssumption
<1>1. TaskTypeOK
  BY DEF TaskInit, TaskTypeOK, Pending, Terminal, NoScan, NoTask
<1>2. IgnitedWhenReady /\ \A t \in Task : KnowsItsRow(t)
  BY DEF TaskInit, IgnitedWhenReady, KnowsItsRow
<1>3. \A r \in Run : StreamHasRow(r) /\ ScanKnows(r)
  BY DEF TaskInit, StreamHasRow, ScanKnows, NoScan
<1> QED BY <1>1, <1>2, <1>3 DEF TaskInv

\* A stream that starts is registered and keeps the types; only its task's
\* number of streams changes.
LEMMA IgniteTypes ==
  ASSUME TaskTypeOK, NEW t \in Task, Ignite(t)
  PROVE  /\ runs'   \in [Task -> 0..MaxRuns]
         /\ stream' \in [Run -> {"none", "open", "over"}]
         /\ entry'  \in [Task -> 0..MaxRuns]
         /\ \A u \in Task : u # t => runs'[u] = runs[u]
         /\ \A r \in Run : r[1] # t => stream'[r] = stream[r]
<1>1. runs[t] + 1 \in 1..MaxRuns
  BY TaskBoundAssumption DEF TaskTypeOK, Ignite
<1>2. <<t, runs[t] + 1>> \in Run
  BY <1>1 DEF Run
<1> QED BY <1>1, <1>2 DEF TaskTypeOK, Ignite, Run

LEMMA RunHasTask == \A r \in Run : r[1] \in Task
BY DEF Run

\* The head of a scan's loop: either the scan is over, or the next task is
\* judged by the rows as they are.
LEMMA ScanGoesOnKnows ==
  ASSUME TaskInv, NEW r \in Run, ScanGoesOn(r), UNCHANGED <<status, deps, completed, inherited>>
  PROVE  /\ scan' \in [Run -> [at : {"none", "listed", "judged", "written"},
                               left : SUBSET Task, task : Task \cup {NoTask},
                               verdict : {"ready", "failed", "waiting"}]]
         /\ \A s \in Run : ScanKnows(s)'
<1> USE DEF TaskInv
<1>1. CASE scan[r].left = {}
  <2>1. scan' = [scan EXCEPT ![r] = NoScan]
    BY <1>1 DEF ScanGoesOn
  <2> QED BY <2>1 DEF TaskTypeOK, ScanKnows, NoScan, NoTask
<1>2. CASE scan[r].left # {}
  <2>1. PICK t \in scan[r].left :
          scan' = [scan EXCEPT ![r] = [at |-> "judged", left |-> scan[r].left \ {t},
                                       task |-> t, verdict |-> ScanVerdict(t)]]
    BY <1>2 DEF ScanGoesOn
  <2>2. scan[r].left \subseteq Task /\ t \in Task
    BY DEF TaskTypeOK
  <2>3. ScanVerdict(t) \in {"ready", "failed", "waiting"}
    BY DEF ScanVerdict
  <2>4. status[t] # "absent" /\ t \notin inherited
    BY DEF ScanKnows
  <2>5. ScanVerdict(t) = "ready" => deps[t] \subseteq completed
    BY <2>2 DEF ScanVerdict, AllCompleted, KnowsItsRow, TaskTypeOK
  <2>6. scan' \in [Run -> [at : {"none", "listed", "judged", "written"},
                           left : SUBSET Task, task : Task \cup {NoTask},
                           verdict : {"ready", "failed", "waiting"}]]
    BY <2>1, <2>2, <2>3 DEF TaskTypeOK
  <2>7. ASSUME NEW s \in Run PROVE ScanKnows(s)'
    <3>1. CASE s = r
      <4>1. scan'[s] = [at |-> "judged", left |-> scan[r].left \ {t},
                        task |-> t, verdict |-> ScanVerdict(t)]
        BY <2>1, <3>1 DEF TaskTypeOK
      <4> QED BY <3>1, <4>1, <2>2, <2>4, <2>5 DEF ScanKnows
    <3>2. CASE s # r
      <4>1. scan'[s] = scan[s]
        BY <2>1, <3>2 DEF TaskTypeOK
      <4> QED BY <4>1 DEF ScanKnows
    <3> QED BY <3>1, <3>2
  <2> QED BY <2>6, <2>7
<1> QED BY <1>1, <1>2

LEMMA TaskStep == TaskInv /\ [TaskNext]_taskVars => TaskInv'
<1> SUFFICES ASSUME TaskInv, [TaskNext]_taskVars PROVE TaskInv'
  OBVIOUS
<1> USE TaskBoundAssumption DEF TaskInv, taskHistory, toolVars
<1>1. ASSUME NEW t \in Task, NEW ds \in SUBSET (Task \ {t}), Check(t, ds) PROVE TaskInv'
  <2>1. TaskTypeOK'
    BY <1>1 DEF Check, TaskTypeOK, Pending
  <2>2. runs[t] = 0
    BY <1>1 DEF Check, KnowsItsRow, TaskTypeOK
  <2>3. Blockers(ds) = {} => ds \subseteq completed
    BY DEF Blockers, KnowsItsRow
  <2>4. \A u \in Task : u # t => deps'[u] = deps[u] /\ tool'[u] = tool[u] /\ first'[u] = first[u]
    BY <1>1 DEF Check, TaskTypeOK
  <2>5. IgnitedWhenReady'
    BY <1>1, <2>2, <2>4 DEF Check, IgnitedWhenReady
  <2>6. ASSUME NEW u \in Task PROVE KnowsItsRow(u)'
    BY <1>1, <2>2, <2>3, <2>4 DEF Check, KnowsItsRow, TaskTypeOK
  <2>7. ASSUME NEW r \in Run PROVE StreamHasRow(r)' /\ ScanKnows(r)'
    BY <1>1, <2>4 DEF Check, StreamHasRow, ScanKnows
  <2> QED BY <2>1, <2>5, <2>6, <2>7
<1>2. ASSUME NEW t \in Task, WorktreeFails(t) PROVE TaskInv'
  <2>1. TaskTypeOK'
    BY <1>2 DEF WorktreeFails, TaskTypeOK, Pending
  <2>2. \A u \in Task : u # t => deps'[u] = deps[u] /\ tool'[u] = tool[u] /\ first'[u] = first[u]
    BY <1>2 DEF WorktreeFails, TaskTypeOK
  <2>3. deps'[t] = {} /\ tool'[t] = "none" /\ tool[t] = "checked"
    BY <1>2 DEF WorktreeFails, TaskTypeOK
  <2>4. IgnitedWhenReady' /\ \A u \in Task : KnowsItsRow(u)'
    BY <1>2, <2>2, <2>3 DEF WorktreeFails, IgnitedWhenReady, KnowsItsRow
  <2>5. ASSUME NEW r \in Run PROVE StreamHasRow(r)' /\ ScanKnows(r)'
    BY <1>2, <2>2, <2>3 DEF WorktreeFails, StreamHasRow, ScanKnows
  <2> QED BY <2>1, <2>4, <2>5
<1>3. ASSUME NEW t \in Task, Insert(t) PROVE TaskInv'
  <2>1. /\ runs'   \in [Task -> 0..MaxRuns]
        /\ stream' \in [Run -> {"none", "open", "over"}]
        /\ entry'  \in [Task -> 0..MaxRuns]
        /\ \A u \in Task : u # t => runs'[u] = runs[u]
        /\ \A r \in Run : r[1] # t => stream'[r] = stream[r]
    <3>1. CASE first[t] = "running"
      BY <1>3, <3>1, IgniteTypes DEF Insert
    <3>2. CASE first[t] # "running"
      BY <1>3, <3>2 DEF Insert, TaskTypeOK
    <3> QED BY <3>1, <3>2
  <2>2. /\ status'[t] = first[t] /\ tool'[t] = "over"
        /\ tool[t] = "checked" /\ status[t] = "absent" /\ t \notin inherited
        /\ \A u \in Task : u # t => status'[u] = status[u] /\ tool'[u] = tool[u]
    BY <1>3 DEF Insert, TaskTypeOK, KnowsItsRow, Terminal
  <2>3. first[t] \in Pending /\ first[t] # "absent" /\ first[t] # "completed"
    BY DEF TaskTypeOK, Pending
  <2>4. TaskTypeOK'
    BY <1>3, <2>1, <2>3 DEF Insert, TaskTypeOK
  <2>5. runs'[t] > 0 => deps[t] \subseteq completed
    <3>1. first[t] # "running" => runs'[t] = 0
      BY <1>3, <2>2 DEF Insert, KnowsItsRow, TaskTypeOK
    <3> QED BY <2>2, <3>1 DEF KnowsItsRow
  <2>6. IgnitedWhenReady'
    BY <1>3, <2>1, <2>5 DEF Insert, IgnitedWhenReady
  <2>7. ASSUME NEW u \in Task PROVE KnowsItsRow(u)'
    BY <1>3, <2>1, <2>2, <2>3 DEF Insert, KnowsItsRow
  <2>8. ASSUME NEW r \in Run PROVE StreamHasRow(r)' /\ ScanKnows(r)'
    <3>1. StreamHasRow(r)'
      BY <2>1, <2>2, <2>3, RunHasTask DEF StreamHasRow
    <3>2. scan[r].left \subseteq Task
      BY DEF TaskTypeOK
    <3>3. ScanKnows(r)'
      BY <1>3, <2>2, <2>3, <3>2 DEF Insert, ScanKnows
    <3> QED BY <3>1, <3>3
  <2> QED BY <2>4, <2>6, <2>7, <2>8
<1>4. ASSUME NEW r \in Run, NEW end \in Terminal, RunEnds(r, end) PROVE TaskInv'
  <2>1. r[1] \in Task /\ status[r[1]] # "absent" /\ end # "absent"
    BY <1>4, RunHasTask DEF RunEnds, StreamHasRow, Terminal
  <2>2. /\ status'[r[1]] = end
        /\ \A u \in Task : u # r[1] => status'[u] = status[u]
        /\ completed \subseteq completed' /\ completed' \subseteq Task
        /\ end = "completed" => r[1] \in completed'
    BY <1>4, <2>1 DEF RunEnds, TaskTypeOK
  <2>3. TaskTypeOK'
    BY <1>4, <2>1, <2>2 DEF RunEnds, Decided, TaskTypeOK
  <2>4. IgnitedWhenReady'
    BY <1>4, <2>2 DEF RunEnds, IgnitedWhenReady
  <2>5. ASSUME NEW u \in Task PROVE KnowsItsRow(u)'
    BY <1>4, <2>1, <2>2 DEF RunEnds, KnowsItsRow
  <2>6. ASSUME NEW s \in Run PROVE StreamHasRow(s)' /\ ScanKnows(s)'
    <3>1. StreamHasRow(s)'
      BY <1>4, <2>1, <2>2, RunHasTask DEF RunEnds, StreamHasRow, TaskTypeOK
    <3>2. scan[s].left \subseteq Task
      BY DEF TaskTypeOK
    <3>3. ScanKnows(s)'
      BY <1>4, <2>1, <2>2, <3>2 DEF RunEnds, ScanKnows
    <3> QED BY <3>1, <3>3
  <2> QED BY <2>3, <2>4, <2>5, <2>6
<1>5. ASSUME NEW r \in Run, RunEscapes(r) PROVE TaskInv'
  <2>1. TaskTypeOK'
    BY <1>5 DEF RunEscapes, TaskTypeOK
  <2>2. IgnitedWhenReady' /\ \A u \in Task : KnowsItsRow(u)'
    BY <1>5 DEF RunEscapes, IgnitedWhenReady, KnowsItsRow
  <2>3. ASSUME NEW s \in Run PROVE StreamHasRow(s)' /\ ScanKnows(s)'
    BY <1>5 DEF RunEscapes, StreamHasRow, ScanKnows, TaskTypeOK
  <2> QED BY <2>1, <2>2, <2>3
<1>6. ASSUME NEW r \in Run, RunSettles(r) PROVE TaskInv'
  <2>1. r[1] \in Task
    BY RunHasTask
  <2>2. /\ \A s \in Run : s # r => scan'[s] = scan[s]
        /\ scan'[r] = [at |-> "listed",
                       left |-> {t \in Task : status[t] = "blocked" /\ deps[t] # {}},
                       task |-> NoTask, verdict |-> "waiting"]
    BY <1>6 DEF RunSettles, TaskTypeOK
  <2>3. TaskTypeOK'
    BY <1>6, <2>1 DEF RunSettles, TaskTypeOK, NoTask
  <2>4. IgnitedWhenReady' /\ \A u \in Task : KnowsItsRow(u)'
    BY <1>6 DEF RunSettles, IgnitedWhenReady, KnowsItsRow
  <2>5. ASSUME NEW s \in Run PROVE StreamHasRow(s)' /\ ScanKnows(s)'
    <3>1. StreamHasRow(s)'
      BY <1>6 DEF RunSettles, StreamHasRow, TaskTypeOK
    <3>2. CASE s = r
      <4>1. ScanKnows(s)'
        BY <1>6, <2>2, <3>2 DEF RunSettles, ScanKnows, KnowsItsRow, Terminal
      <4> QED BY <3>1, <4>1
    <3>3. CASE s # r
      BY <1>6, <2>2, <3>1, <3>3 DEF RunSettles, ScanKnows
    <3> QED BY <3>2, <3>3
  <2> QED BY <2>3, <2>4, <2>5
<1>7. ASSUME NEW r \in Run, ScanNext(r) PROVE TaskInv'
  <2>1. ScanGoesOn(r) /\ UNCHANGED <<status, deps, completed, inherited>>
    BY <1>7 DEF ScanNext
  <2>2. TaskTypeOK' /\ \A s \in Run : ScanKnows(s)'
    BY <1>7, <2>1, ScanGoesOnKnows DEF ScanNext, TaskTypeOK
  <2>3. IgnitedWhenReady' /\ \A u \in Task : KnowsItsRow(u)'
    BY <1>7 DEF ScanNext, IgnitedWhenReady, KnowsItsRow
  <2>4. \A s \in Run : StreamHasRow(s)'
    BY <1>7 DEF ScanNext, StreamHasRow
  <2> QED BY <2>2, <2>3, <2>4
<1>8. ASSUME NEW r \in Run, ScanWrites(r) PROVE TaskInv'
  <2> DEFINE t == scan[r].task
  <2>1. t \in Task /\ status[t] # "absent" /\ t \notin inherited
    BY <1>8 DEF ScanWrites, ScanKnows
  <2>2. /\ status'[t] \in {"failed", "running"}
        /\ \A u \in Task : u # t => status'[u] = status[u]
    BY <1>8, <2>1 DEF ScanWrites, TaskTypeOK
  <2>3. /\ \A s \in Run : s # r => scan'[s] = scan[s]
        /\ scan'[r].at = "written" /\ scan'[r].left = scan[r].left
        /\ scan'[r].task = scan[r].task /\ scan'[r].verdict = scan[r].verdict
        /\ scan[r].at = "judged"
    BY <1>8 DEF ScanWrites, TaskTypeOK
  <2>4. TaskTypeOK'
    BY <1>8, <2>1 DEF ScanWrites, TaskTypeOK, Pending, Terminal
  <2>5. IgnitedWhenReady'
    BY <1>8 DEF ScanWrites, IgnitedWhenReady
  <2>6. ASSUME NEW u \in Task PROVE KnowsItsRow(u)'
    BY <1>8, <2>1, <2>2 DEF ScanWrites, KnowsItsRow
  <2>7. ASSUME NEW s \in Run PROVE StreamHasRow(s)' /\ ScanKnows(s)'
    <3>1. StreamHasRow(s)'
      BY <1>8, <2>1, <2>2, RunHasTask DEF ScanWrites, StreamHasRow
    <3>2. scan[s].left \subseteq Task
      BY DEF TaskTypeOK
    <3>3. /\ scan'[s].left = scan[s].left /\ scan'[s].task = scan[s].task
          /\ scan'[s].verdict = scan[s].verdict
          /\ scan'[s].at \in {"judged", "written"} => scan[s].at \in {"judged", "written"}
      BY <2>3
    <3>4. ScanKnows(s)'
      BY <1>8, <2>1, <2>2, <3>2, <3>3 DEF ScanWrites, ScanKnows
    <3> QED BY <3>1, <3>4
  <2> QED BY <2>4, <2>5, <2>6, <2>7
<1>9. ASSUME NEW r \in Run, ScanIgnites(r) PROVE TaskInv'
  <2> DEFINE t == scan[r].task
  <2>1. /\ t \in Task /\ status[t] # "absent"
        /\ scan[r].verdict = "ready" => deps[t] \subseteq completed
    BY <1>9 DEF ScanIgnites, ScanKnows
  <2>2. ScanGoesOn(r) /\ UNCHANGED <<status, deps, completed, inherited>>
    BY <1>9 DEF ScanIgnites
  <2>3. /\ runs'   \in [Task -> 0..MaxRuns]
        /\ stream' \in [Run -> {"none", "open", "over"}]
        /\ entry'  \in [Task -> 0..MaxRuns]
        /\ \A u \in Task : u # t => runs'[u] = runs[u]
        /\ \A s \in Run : s[1] # t => stream'[s] = stream[s]
        /\ scan[r].verdict # "ready" => runs' = runs
    <3>1. CASE scan[r].verdict = "ready"
      <4>1. Ignite(t)
        BY <1>9, <3>1 DEF ScanIgnites
      <4> QED BY <2>1, <3>1, <4>1, IgniteTypes
    <3>2. CASE scan[r].verdict # "ready"
      BY <1>9, <3>2 DEF ScanIgnites, TaskTypeOK
    <3> QED BY <3>1, <3>2
  <2>4. TaskTypeOK' /\ \A s \in Run : ScanKnows(s)'
    BY <1>9, <2>2, <2>3, ScanGoesOnKnows DEF ScanIgnites, TaskTypeOK
  <2>5. IgnitedWhenReady'
    BY <2>1, <2>2, <2>3 DEF IgnitedWhenReady
  <2>6. ASSUME NEW u \in Task PROVE KnowsItsRow(u)'
    BY <1>9, <2>1, <2>3 DEF ScanIgnites, KnowsItsRow
  <2>7. \A s \in Run : StreamHasRow(s)'
    BY <2>1, <2>2, <2>3, RunHasTask DEF StreamHasRow
  <2> QED BY <2>4, <2>5, <2>6, <2>7
<1>10. ASSUME HostRestarts PROVE TaskInv'
  <2>1. \A u \in Task :
          /\ status'[u] \in {"absent"} \cup Terminal
          /\ status'[u] = "absent" <=> status[u] = "absent"
          /\ status'[u] = "completed" <=> status[u] = "completed"
    BY <1>10 DEF HostRestarts, Sweep, TaskTypeOK, Pending, Terminal
  <2>2. TaskTypeOK'
    <3>1. /\ status' \in [Task -> {"absent"} \cup Pending \cup Terminal]
          /\ restarts' \in 0..MaxRestarts /\ inherited' \subseteq Task
      BY <1>10 DEF HostRestarts, Sweep, TaskTypeOK, Pending, Terminal
    <3>2. /\ deps' \in [Task -> SUBSET Task]
          /\ tool' \in [Task -> {"none", "checked", "over"}]
          /\ first' \in [Task -> Pending]
      BY <1>10 DEF HostRestarts, TaskTypeOK, Pending
    <3>3. /\ stream' \in [Run -> {"none", "open", "over"}]
          /\ scan' \in [Run -> [at : {"none", "listed", "judged", "written"},
                                left : SUBSET Task, task : Task \cup {NoTask},
                                verdict : {"ready", "failed", "waiting"}]]
          /\ entry' \in [Task -> 0..MaxRuns]
      BY <1>10 DEF HostRestarts, NoScan, NoTask
    <3> QED BY <1>10, <3>1, <3>2, <3>3 DEF HostRestarts, TaskTypeOK
  <2>3. IgnitedWhenReady'
    BY <1>10 DEF HostRestarts, IgnitedWhenReady, KnowsItsRow
  <2>4. ASSUME NEW u \in Task PROVE KnowsItsRow(u)'
    BY <1>10, <2>1 DEF HostRestarts, KnowsItsRow
  <2>5. ASSUME NEW r \in Run PROVE StreamHasRow(r)' /\ ScanKnows(r)'
    BY <1>10 DEF HostRestarts, StreamHasRow, ScanKnows, NoScan
  <2> QED BY <2>2, <2>3, <2>4, <2>5
<1>11. CASE UNCHANGED taskVars
  <2>1. TaskTypeOK' /\ IgnitedWhenReady'
    BY <1>11 DEF taskVars, TaskTypeOK, IgnitedWhenReady
  <2>2. \A u \in Task : KnowsItsRow(u)'
    BY <1>11 DEF taskVars, KnowsItsRow
  <2>3. \A r \in Run : StreamHasRow(r)' /\ ScanKnows(r)'
    BY <1>11 DEF taskVars, StreamHasRow, ScanKnows
  <2> QED BY <2>1, <2>2, <2>3
<1> QED
  BY <1>1, <1>2, <1>3, <1>4, <1>5, <1>6, <1>7, <1>8, <1>9, <1>10, <1>11
  DEF TaskNext, ScanStep

LEMMA TaskInvariant == TaskSpec => []TaskInv
BY TaskInitially, TaskStep, PTL DEF TaskSpec

\* Every variable keeps its type, whatever a scan finds.
THEOREM TasksTyped == TaskSpec => []TaskTypeOK
<1>1. TaskInv => TaskTypeOK
  BY DEF TaskInv
<1> QED BY TaskInvariant, <1>1, PTL

\* A task's stream starts only when all its dependencies have completed: what
\* runTask and maybeUnblock read before their awaits still holds after them,
\* because a completed dependency stays one in the record of what completed.
THEOREM StreamsStartReady == TaskSpec => []IgnitedWhenReady
<1>1. TaskInv => IgnitedWhenReady
  BY DEF TaskInv
<1> QED BY TaskInvariant, <1>1, PTL

\* After a restart no task of the old process is pending, and none ever is
\* again: the scans of the new process list only rows that are blocked.
THEOREM InheritedStaysTerminal == TaskSpec => []InheritedIsTerminal
<1>1. TaskInv => InheritedIsTerminal
  BY DEF TaskInv, KnowsItsRow, InheritedIsTerminal, TaskTypeOK
<1> QED BY TaskInvariant, <1>1, PTL

-----------------------------------------------------------------------------
(***************************************************************************)
(* The worktrees: what a task wrote is not lost in a merge.                *)
(***************************************************************************)

\* What is known of a merge or a removal under way.  A merge that is past
\* committing has left nothing in the tree that is still owed, and from then on
\* nothing on the branch that is not in the main checkout; a removal has settled
\* what was on the branch.  Between the removal of a tree and that of its branch
\* no tree of the name comes back.
Covers(c) ==
  LET n == act[c].name
  IN  /\ act[c].at # "free" => /\ n \in Name
                               /\ act[c].kind # "none"
                               /\ act[c].kind # "tool" => act[c].task \in Isolated
      /\ act[c].kind = "merge" /\ act[c].at \in {"ready", "merged", "removing"} =>
           \A t \in dirty[n] : work[t] = "lost"
      /\ act[c].kind = "merge" /\ act[c].at \in {"merged", "removing", "removed"} =>
           \A t \in commits[n] : work[t] = "lost" \/ t \in main
      /\ act[c].kind # "merge" => act[c].at \in {"free", "asked", "removing", "removed"}
      /\ act[c].kind # "merge" /\ act[c].at = "removed" =>
           \A t \in commits[n] : work[t] = "lost"
      /\ act[c].at = "removed" =>
           /\ n \in branches \ trees
           /\ \A d \in Click : act[d].at = "removed" /\ act[d].name = n => d = c

\* A tree has its branch, and what is gone holds nothing.
GoneIsEmpty ==
  /\ trees \subseteq branches
  /\ \A n \in Name : /\ n \notin trees => dirty[n] = {}
                     /\ n \notin branches => commits[n] = {}

\* Where a task's work is: in the main checkout, in a tree or on a branch.
Owed(t) == work[t] = "due" => t \in main \/ \E n \in Name : t \in dirty[n] \cup commits[n]

WorktreeInv ==
  /\ WorktreeTypeOK
  /\ GoneIsEmpty
  /\ \A t \in Isolated : job[t] # "none" => given[t] \in Name
  /\ \A c \in Click : Covers(c)
  /\ \A t \in Isolated : Owed(t)

LEMMA WorktreeInitially == WorktreeInit => WorktreeInv
BY WorktreeAssumption
   DEF WorktreeInit, WorktreeInv, WorktreeTypeOK, GoneIsEmpty, Covers, Owed, NoAct, NoName

\* A step of an operation goes on to the next of its commands, or ends it.
LEMMA ActTyped ==
  ASSUME WorktreeTypeOK, NEW c \in Click,
         NEW at \in {"found", "changed", "ready", "merged", "failed", "removing", "removed"},
         act' = [act EXCEPT ![c].at = at] \/ act' = [act EXCEPT ![c] = NoAct]
  PROVE  act' \in [Click -> [kind : {"none", "merge", "discard", "tool"},
                             task : Isolated \cup {NoName}, name : Name \cup {NoName},
                             at : {"free", "asked", "found", "changed", "ready",
                                   "merged", "failed", "removing", "removed"}]]
<1>1. CASE act' = [act EXCEPT ![c].at = at]
  BY <1>1 DEF WorktreeTypeOK
<1>2. CASE act' = [act EXCEPT ![c] = NoAct]
  BY <1>2 DEF WorktreeTypeOK, NoAct
<1> QED BY <1>1, <1>2

LEMMA WorktreeTypes == WorktreeInv /\ WorktreeNext => WorktreeTypeOK'
<1> SUFFICES ASSUME WorktreeTypeOK, \A c \in Click : Covers(c), WorktreeNext,
                    \A t \in Isolated : job[t] # "none" => given[t] \in Name
             PROVE  WorktreeTypeOK'
  BY DEF WorktreeInv
<1> USE DEF WorktreeTypeOK
<1>0. \A c \in Click : act[c].at # "free" => /\ act[c].name \in Name
                                             /\ act[c].kind # "none"
                                             /\ act[c].kind # "tool" => act[c].task \in Isolated
  BY DEF Covers
<1>1. ASSUME NEW t \in Isolated, NEW n \in Name, CreateWorktree(t, n) PROVE WorktreeTypeOK'
  BY <1>1 DEF CreateWorktree, gitVars
<1>2. ASSUME NEW t \in Isolated, AddTree(t) PROVE WorktreeTypeOK'
  BY <1>2 DEF AddTree, NoName
<1>3. ASSUME NEW t \in Isolated, StoreTask(t) \/ Ends(t) PROVE WorktreeTypeOK'
  BY <1>3 DEF StoreTask, Ends, gitVars
<1>4. ASSUME NEW t \in Isolated, WritesFiles(t) PROVE WorktreeTypeOK'
  BY <1>4 DEF WritesFiles, tableVars
<1>5. ASSUME NEW c \in Click, NEW t \in Isolated, NEW kind \in {"merge", "discard"}, Ask(c, kind, t)
      PROVE WorktreeTypeOK'
  BY <1>5 DEF Ask, tableVars, gitVars
<1>6. ASSUME NEW c \in Click, NEW n \in Name, AskTool(c, n) PROVE WorktreeTypeOK'
  BY <1>6, WorktreeAssumption DEF AskTool, tableVars, gitVars
<1>7. ASSUME NEW c \in Click, Lists(c) \/ LooksForChanges(c) PROVE WorktreeTypeOK'
  BY <1>7 DEF Lists, LooksForChanges, tableVars, gitVars, Goes, Throws, NoAct
<1>8. ASSUME NEW c \in Click, Commits(c) PROVE WorktreeTypeOK'
  <2>1. act[c].name \in Name /\ dirty[act[c].name] \subseteq Isolated
    BY <1>8, <1>0 DEF Commits
  <2>2. dirty' \in [Name -> SUBSET Isolated]
    BY <1>8, <2>1 DEF Commits
  <2>3. commits' \in [Name -> SUBSET Isolated]
    BY <1>8, <2>1 DEF Commits
  <2>4. act' = [act EXCEPT ![c].at = "ready"] \/ act' = [act EXCEPT ![c] = NoAct]
    BY <1>8 DEF Commits, Goes, Throws
  <2> QED BY <1>8, <2>2, <2>3, <2>4, ActTyped DEF Commits, tableVars
<1>9. ASSUME NEW c \in Click, GoesIn(c) PROVE WorktreeTypeOK'
  <2>1. main' \subseteq Isolated
    BY <1>9, <1>0 DEF GoesIn
  <2>2. act' = [act EXCEPT ![c].at = "merged"]
    BY <1>9 DEF GoesIn, Goes
  <2> QED BY <1>9, <2>1, <2>2, ActTyped DEF GoesIn, tableVars
<1>10. ASSUME NEW c \in Click, FailsToMerge(c) \/ Aborts(c) PROVE WorktreeTypeOK'
  <2>1. act' = [act EXCEPT ![c].at = "failed"] \/ act' = [act EXCEPT ![c] = NoAct]
    BY <1>10 DEF FailsToMerge, Aborts, Goes, Throws
  <2>2. merging' \in {"nobody", "user"} \cup Click
    BY <1>10 DEF FailsToMerge, Aborts
  <2> QED BY <1>10, <2>1, <2>2, ActTyped DEF FailsToMerge, Aborts, tableVars
<1>11. ASSUME NEW c \in Click, RemovesTree(c) PROVE WorktreeTypeOK'
  <2>1. trees' \subseteq Name /\ dirty' \in [Name -> SUBSET Isolated]
    BY <1>11 DEF RemovesTree
  <2>2. work' \in [Isolated -> {"none", "due", "lost"}]
    BY <1>11 DEF RemovesTree
  <2>3. act' = [act EXCEPT ![c].at = "removed"] \/ act' = [act EXCEPT ![c] = NoAct]
    BY <1>11 DEF RemovesTree, Goes, Throws
  <2> QED BY <1>11, <2>1, <2>2, <2>3, ActTyped DEF RemovesTree, tableVars
<1>12. ASSUME NEW c \in Click, Settles(c) PROVE WorktreeTypeOK'
  <2>1. act[c].name \in Name /\ (act[c].kind # "tool" => act[c].task \in Isolated)
    BY <1>12, <1>0 DEF Settles
  <2>2. branches' \subseteq Name /\ commits' \in [Name -> SUBSET Isolated]
    BY <1>12, <2>1 DEF Settles
  <2>3. fate' \in [Isolated -> {"pending", "merged", "discarded"}]
    <3>1. act[c].kind \in {"merge", "discard", "tool"}
      BY <1>12, <1>0 DEF Settles
    <3> QED BY <1>12, <2>1, <3>1 DEF Settles
  <2>4. act' = [act EXCEPT ![c] = NoAct]
    BY <1>12 DEF Settles, Throws
  <2>5. act' \in [Click -> [kind : {"none", "merge", "discard", "tool"},
                           task : Isolated \cup {NoName}, name : Name \cup {NoName},
                           at : {"free", "asked", "found", "changed", "ready",
                                 "merged", "failed", "removing", "removed"}]]
    BY <2>4, ActTyped
  <2> QED BY <1>12, <2>2, <2>3, <2>5 DEF Settles
<1>13. ASSUME UserMerges \/ HostDies PROVE WorktreeTypeOK'
  BY <1>13, WorktreeAssumption DEF UserMerges, HostDies, tableVars, NoAct
<1> QED
  BY <1>1, <1>2, <1>3, <1>4, <1>5, <1>6, <1>7, <1>8, <1>9, <1>10, <1>11, <1>12, <1>13
     DEF WorktreeNext, JobStep, ClickStep

LEMMA WorktreeStep == WorktreeInv /\ WorktreeNext => WorktreeInv'
<1> SUFFICES ASSUME WorktreeInv, WorktreeNext PROVE WorktreeInv'
  OBVIOUS
<1> DEFINE Given  == \A t \in Isolated : job[t] # "none" => given[t] \in Name
           Covered == \A c \in Click : Covers(c)
           AllOwed == \A t \in Isolated : Owed(t)
           Rest == GoneIsEmpty /\ Given /\ Covered /\ AllOwed
<1>0. WorktreeTypeOK /\ WorktreeTypeOK' /\ Rest
  BY WorktreeTypes DEF WorktreeInv
<1> USE <1>0 DEF WorktreeTypeOK
<1>1. ASSUME NEW t \in Isolated, NEW n \in Name, CreateWorktree(t, n) PROVE Rest'
  BY <1>1 DEF CreateWorktree, gitVars, GoneIsEmpty, Covers, Owed
<1>2. ASSUME NEW t \in Isolated, AddTree(t) PROVE Rest'
  <2>1. GoneIsEmpty' /\ Given'
    BY <1>2 DEF AddTree, GoneIsEmpty
  <2>2. Covered'
    <3> SUFFICES ASSUME NEW c \in Click PROVE Covers(c)'
      OBVIOUS
    <3>1. Covers(c)
      OBVIOUS
    <3>2. CASE act[c].at = "removed"
      BY <1>2, <3>1, <3>2 DEF AddTree, GoneIsEmpty, Covers
    <3>3. CASE act[c].at # "removed"
      BY <1>2, <3>1, <3>3 DEF AddTree, Covers
    <3> QED BY <3>2, <3>3
  <2>3. AllOwed'
    BY <1>2 DEF AddTree, Owed
  <2> QED BY <2>1, <2>2, <2>3
<1>3. ASSUME NEW t \in Isolated, StoreTask(t) \/ Ends(t) PROVE Rest'
  BY <1>3 DEF StoreTask, Ends, gitVars, GoneIsEmpty, Covers, Owed
<1>4. ASSUME NEW t \in Isolated, WritesFiles(t) PROVE Rest'
  <2>1. GoneIsEmpty' /\ Given'
    BY <1>4 DEF WritesFiles, tableVars, GoneIsEmpty
  <2>2. Covered'
    <3> SUFFICES ASSUME NEW c \in Click PROVE Covers(c)'
      OBVIOUS
    <3>1. Covers(c)
      OBVIOUS
    <3>2. CASE act[c].kind = "merge" /\ act[c].at \in {"ready", "merged", "removing"} /\ act[c].name = given[t]
      BY <1>4, <3>1, <3>2 DEF WritesFiles, tableVars, Covers, PastCommitting
    <3>3. CASE ~(act[c].kind = "merge" /\ act[c].at \in {"ready", "merged", "removing"} /\ act[c].name = given[t])
      BY <1>4, <3>1, <3>3 DEF WritesFiles, tableVars, Covers
    <3> QED BY <3>2, <3>3
  <2>3. AllOwed'
    BY <1>4 DEF WritesFiles, Owed
  <2> QED BY <2>1, <2>2, <2>3
<1>5. ASSUME NEW c \in Click, NEW t \in Isolated, NEW kind \in {"merge", "discard"}, Ask(c, kind, t)
      PROVE Rest'
  BY <1>5 DEF Ask, tableVars, gitVars, GoneIsEmpty, Covers, Owed
<1>6. ASSUME NEW c \in Click, NEW n \in Name, AskTool(c, n) PROVE Rest'
  BY <1>6 DEF AskTool, tableVars, gitVars, GoneIsEmpty, Covers, Owed
<1>7. ASSUME NEW c \in Click, Lists(c) \/ LooksForChanges(c) PROVE Rest'
  <2>1. GoneIsEmpty' /\ Given' /\ AllOwed'
    BY <1>7 DEF Lists, LooksForChanges, tableVars, gitVars, GoneIsEmpty, Owed
  <2>2. Covered'
    <3> SUFFICES ASSUME NEW d \in Click PROVE Covers(d)'
      OBVIOUS
    <3>1. Covers(c) /\ Covers(d)
      OBVIOUS
    <3>2. CASE d # c
      <4>1. act'[d] = act[d] /\ UNCHANGED <<gitVars, work>>
        BY <1>7, <3>2 DEF Lists, LooksForChanges, gitVars, Goes, Throws
      <4>2. \A e \in Click : act'[e].at = "removed" => act'[e] = act[e]
        BY <1>7 DEF Lists, LooksForChanges, Goes, Throws, NoAct
      <4> QED BY <3>1, <4>1, <4>2 DEF gitVars, Covers
    <3>3. CASE d = c
      BY <1>7, <3>1, <3>3 DEF Lists, LooksForChanges, tableVars, gitVars, Goes, Throws, NoAct, Covers
    <3> QED BY <3>2, <3>3
  <2> QED BY <2>1, <2>2
<1>8. ASSUME NEW c \in Click, Commits(c) PROVE Rest'
  <2>0. Covers(c)
    OBVIOUS
  <2>1. GoneIsEmpty' /\ Given' /\ AllOwed'
    <3>1. GoneIsEmpty' /\ Given'
      BY <1>8, <2>0 DEF Commits, tableVars, GoneIsEmpty, Covers
    <3>2. ASSUME NEW t \in Isolated PROVE Owed(t)'
      <4>1. Owed(t) /\ work' = work /\ main' = main
        BY <1>8 DEF Commits
      <4>2. ASSUME NEW n \in Name, t \in dirty[n] \cup commits[n]
            PROVE  t \in dirty'[n] \cup commits'[n]
        <5>1. CASE n = act[c].name
          BY <1>8, <2>0, <4>2, <5>1 DEF Commits
        <5>2. CASE n # act[c].name
          BY <1>8, <2>0, <4>2, <5>2 DEF Commits
        <5> QED BY <5>1, <5>2
      <4> QED BY <4>1, <4>2 DEF Owed
    <3> QED BY <3>1, <3>2
  <2>2. Covered'
    <3> SUFFICES ASSUME NEW d \in Click PROVE Covers(d)'
      OBVIOUS
    <3>1. Covers(d)
      OBVIOUS
    <3>2. CASE d # c
      <4>1. act'[d] = act[d] /\ UNCHANGED <<trees, branches, main, work>>
        BY <1>8, <3>2 DEF Commits, Goes, Throws
      <4>2. \A e \in Click : act'[e].at = "removed" => act'[e] = act[e]
        BY <1>8 DEF Commits, Goes, Throws, NoAct
      <4>3. ASSUME NEW n \in Name
            PROVE  dirty'[n] \subseteq dirty[n] /\ commits'[n] \subseteq commits[n] \cup dirty[n]
        BY <1>8, <2>0 DEF Commits, Covers
      <4>4. act[d].at = "removed" => act[d].name \notin trees /\ dirty[act[d].name] = {}
        BY <3>1 DEF Covers, GoneIsEmpty
      <4> QED BY <3>1, <4>1, <4>2, <4>3, <4>4 DEF Covers
    <3>3. CASE d = c
      BY <1>8, <2>0, <3>3 DEF Commits, tableVars, Goes, Throws, NoAct, Covers
    <3> QED BY <3>2, <3>3
  <2> QED BY <2>1, <2>2
<1>9. ASSUME NEW c \in Click, GoesIn(c) PROVE Rest'
  <2>0. Covers(c)
    OBVIOUS
  <2>1. GoneIsEmpty' /\ Given' /\ AllOwed'
    BY <1>9, <2>0 DEF GoesIn, tableVars, GoneIsEmpty, Owed
  <2>2. Covered'
    <3> SUFFICES ASSUME NEW d \in Click PROVE Covers(d)'
      OBVIOUS
    <3>1. Covers(d)
      OBVIOUS
    <3> QED BY <1>9, <2>0, <3>1 DEF GoesIn, tableVars, Goes, Covers
  <2> QED BY <2>1, <2>2
<1>10. ASSUME NEW c \in Click, FailsToMerge(c) \/ Aborts(c) PROVE Rest'
  BY <1>10 DEF FailsToMerge, Aborts, tableVars, Goes, Throws, NoAct, GoneIsEmpty, Covers, Owed
<1>11. ASSUME NEW c \in Click, RemovesTree(c) PROVE Rest'
  <2>0. Covers(c)
    OBVIOUS
  <2>1. GoneIsEmpty' /\ Given'
    BY <1>11, <2>0 DEF RemovesTree, tableVars, GoneIsEmpty, Covers
  <2>2. AllOwed'
    <3> SUFFICES ASSUME NEW t \in Isolated PROVE Owed(t)'
      OBVIOUS
    <3>1. Owed(t)
      OBVIOUS
    <3>2. CASE act[c].kind = "merge" \/ act[c].name \notin trees
      BY <1>11, <2>0, <3>1, <3>2 DEF RemovesTree, Owed, Covers
    <3>3. CASE act[c].kind # "merge" /\ act[c].name \in trees
      BY <1>11, <2>0, <3>1, <3>3 DEF RemovesTree, Owed, Covers
    <3> QED BY <3>2, <3>3
  <2>3. Covered'
    <3> SUFFICES ASSUME NEW d \in Click PROVE Covers(d)'
      OBVIOUS
    <3>1. Covers(d)
      OBVIOUS
    <3>2. CASE d # c
      <4>1. act'[d] = act[d] /\ UNCHANGED <<branches, commits, main>>
        BY <1>11, <3>2 DEF RemovesTree, Goes, Throws
      <4>2. \A t \in Isolated : work[t] = "lost" => work'[t] = "lost"
        BY <1>11 DEF RemovesTree
      <4>3. /\ trees' \subseteq trees
            /\ \A n \in Name : dirty'[n] \subseteq dirty[n]
        BY <1>11, <2>0 DEF RemovesTree, Covers
      <4>4. \A e \in Click : act'[e].at = "removed" =>
              \/ act'[e] = act[e]
              \/ e = c /\ act'[e].name = act[c].name /\ act[c].name \in trees
        BY <1>11 DEF RemovesTree, Goes, Throws, NoAct
      <4> QED BY <3>1, <4>1, <4>2, <4>3, <4>4 DEF Covers
    <3>3. CASE d = c
      <4>1. CASE act[c].name \notin trees
        BY <1>11, <2>0, <3>3, <4>1 DEF RemovesTree, Throws, NoAct, Covers
      <4>2. CASE act[c].name \in trees
        <5>1. /\ act'[d] = [act[c] EXCEPT !.at = "removed"]
              /\ UNCHANGED <<branches, commits, main>> /\ trees' = trees \ {act[c].name}
              /\ \A e \in Click : e # c => act'[e] = act[e]
          BY <1>11, <3>3, <4>2 DEF RemovesTree, Goes
        <5>2. \A e \in Click : act[e].at = "removed" => act[e].name # act[c].name
          BY <4>2 DEF Covers
        <5>3. act[c].at = "removing" /\ act[c].name \in branches
          BY <1>11, <4>2 DEF RemovesTree, GoneIsEmpty
        <5>4. \A t \in commits[act[c].name] :
                act[c].kind # "merge" => work'[t] = "lost"
          BY <1>11, <4>2, <5>3, <2>0 DEF RemovesTree, Covers
        <5>5. \A t \in Isolated : work[t] = "lost" => work'[t] = "lost"
          BY <1>11 DEF RemovesTree
        <5> QED BY <2>0, <3>3, <4>2, <5>1, <5>2, <5>3, <5>4, <5>5 DEF Covers
      <4> QED BY <4>1, <4>2
    <3> QED BY <3>2, <3>3
  <2> QED BY <2>1, <2>2, <2>3
<1>12. ASSUME NEW c \in Click, Settles(c) PROVE Rest'
  <2>0. Covers(c)
    OBVIOUS
  <2>1. GoneIsEmpty' /\ Given'
    BY <1>12, <2>0 DEF Settles, GoneIsEmpty, Covers
  <2>2. AllOwed'
    BY <1>12, <2>0 DEF Settles, Owed, Covers
  <2>3. Covered'
    BY <1>12, <2>0 DEF Settles, Throws, NoAct, Covers
  <2> QED BY <2>1, <2>2, <2>3
<1>13. ASSUME UserMerges PROVE Rest'
  BY <1>13 DEF UserMerges, tableVars, GoneIsEmpty, Covers, Owed
<1>14. ASSUME HostDies PROVE Rest'
  BY <1>14 DEF HostDies, NoAct, GoneIsEmpty, Covers, Owed
<1> HIDE DEF Rest
<1>15. Rest'
  BY <1>1, <1>2, <1>3, <1>4, <1>5, <1>6, <1>7, <1>8, <1>9, <1>10, <1>11, <1>12, <1>13, <1>14
     DEF WorktreeNext, JobStep, ClickStep
<1> QED
  BY <1>0, <1>15 DEF Rest, WorktreeInv

LEMMA WorktreeAlways == WorktreeSpec => []WorktreeInv
<1>1. WorktreeInv /\ [WorktreeNext]_worktreeVars => WorktreeInv'
  <2> SUFFICES ASSUME WorktreeInv, UNCHANGED worktreeVars PROVE WorktreeInv'
    BY WorktreeStep
  <2> QED BY DEF worktreeVars, tableVars, gitVars, WorktreeInv, WorktreeTypeOK, GoneIsEmpty, Covers, Owed
<1> QED BY <1>1, WorktreeInitially, PTL DEF WorktreeSpec

\* Types of the worktrees' variables.
THEOREM WorktreesTyped == WorktreeSpec => []WorktreeTypeOK
<1>1. WorktreeInv => WorktreeTypeOK
  BY DEF WorktreeInv
<1> QED BY <1>1, WorktreeAlways, PTL

\* What a task wrote is in a tree, on a branch or in the main checkout unless
\* somebody threw it away (mergeTaskWorktree, discardTaskWorktree).
THEOREM MergesKeepTheWork == WorktreeSpec => []MergesLoseNothing
<1>1. WorktreeInv => MergesLoseNothing
  <2> SUFFICES ASSUME WorktreeInv, NEW t \in Isolated, work[t] = "due" PROVE Kept(t)
    BY DEF MergesLoseNothing
  <2>1. t \in main \/ \E n \in Name : t \in dirty[n] \cup commits[n]
    BY DEF WorktreeInv, Owed
  <2>2. ASSUME NEW n \in Name
        PROVE  (t \in dirty[n] => n \in trees) /\ (t \in commits[n] => n \in branches)
    BY DEF WorktreeInv, GoneIsEmpty
  <2>3. CASE t \in main
    BY <2>3 DEF Kept
  <2>4. ASSUME NEW n \in Name, t \in dirty[n] \cup commits[n] PROVE Kept(t)
    BY <2>2, <2>4 DEF Kept
  <2> QED BY <2>1, <2>3, <2>4
<1> QED BY <1>1, WorktreeAlways, PTL
=============================================================================
