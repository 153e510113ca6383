----------------------------- MODULE Worktrees -----------------------------
(***************************************************************************)
(* The git worktrees of a project's background tasks (agent-shell,         *)
(* local-backend/worktree-service.ts) and what the task panel does with    *)
(* them: mergeTaskWorktree and discardTaskWorktree of                      *)
(* local-backend/task-service.ts.                                          *)
(*                                                                         *)
(* A git command is awaited, so a step is one command and what the         *)
(* coroutine does up to the next.  What a task writes is one piece of      *)
(* work that may be written again; of a task's life (module TaskService)   *)
(* only that it starts and ends is kept.                                   *)
(***************************************************************************)
EXTENDS Naturals

CONSTANTS
  Isolated,    (* tasks that are run with worktree: true                    *)
  Name,        (* worktree names (slugs); a branch is named after its tree  *)
  Click,       (* bound: merges and removals under way at the same time     *)
  MaxUpsets    (* bound: calls of worktree_remove by the model, and crashes *)

ASSUME WorktreeAssumption == MaxUpsets \in Nat

VARIABLES
  (* the task table *)
  job,      (* where a task is; "none": no task_run for it                  *)
  given,    (* worktreePath                                                 *)
  fate,     (* worktreeState                                                *)
  (* the repository *)
  trees,    (* names whose worktree exists                                  *)
  branches, (* names whose branch exists                                    *)
  dirty,    (* each tree's uncommitted work                                 *)
  commits,  (* each branch's committed work                                 *)
  main,     (* the work merged into the main checkout                       *)
  merging,  (* whose merge MERGE_HEAD of the main checkout is               *)
  (* the coroutines *)
  act,      (* merges and removals                                          *)
  (* history *)
  work,     (* what a task wrote: "none", "due", or "lost" to a discard of  *)
            (* its tree or to a merge that was past committing              *)
  upsets

tableVars == <<job, given, fate>>
gitVars   == <<trees, branches, dirty, commits, main, merging>>
worktreeVars == <<tableVars, gitVars, act, work, upsets>>

NoName == "none"
NoAct  == [kind |-> "none", task |-> NoName, name |-> NoName, at |-> "free"]

WorktreeTypeOK ==
  /\ job   \in [Isolated -> {"none", "adding", "given", "running",
                             "completed", "failed"}]
  /\ given \in [Isolated -> Name \cup {NoName}]
  /\ fate  \in [Isolated -> {"pending", "merged", "discarded"}]
  /\ trees \subseteq Name /\ branches \subseteq Name
  /\ dirty   \in [Name -> SUBSET Isolated]
  /\ commits \in [Name -> SUBSET Isolated]
  /\ merging \in {"nobody", "user"} \cup Click
  /\ act \in [Click -> [kind : {"none", "merge", "discard", "tool"},
                        task : Isolated \cup {NoName}, name : Name \cup {NoName},
                        at : {"free", "asked", "found", "changed", "ready",
                              "merged", "failed", "removing", "removed"}]]
  /\ main \subseteq Isolated
  /\ work \in [Isolated -> {"none", "due", "lost"}]
  /\ upsets \in 0..MaxUpsets

WorktreeInit ==
  /\ job   = [t \in Isolated |-> "none"]
  /\ given = [t \in Isolated |-> NoName]
  /\ fate  = [t \in Isolated |-> "pending"]
  /\ trees = {} /\ branches = {}
  /\ dirty   = [n \in Name |-> {}]
  /\ commits = [n \in Name |-> {}]
  /\ main = {} /\ merging = "nobody"
  /\ act = [c \in Click |-> NoAct]
  /\ work = [t \in Isolated |-> "none"]
  /\ upsets = 0
-----------------------------------------------------------------------------
(***************************************************************************)
(* task_run and the task                                                   *)
(***************************************************************************)

\* createWorktree lists the trees: one of that name is reused.
CreateWorktree(t, n) ==
  /\ job[t] = "none"
  /\ given' = [given EXCEPT ![t] = n]
  /\ job' = [job EXCEPT ![t] = IF n \in trees THEN "given" ELSE "adding"]
  /\ UNCHANGED <<fate, gitVars, act, work, upsets>>

\* git worktree add -b: it fails on a tree or a branch of that name.
AddTree(t) ==
  LET n == given[t]
  IN /\ job[t] = "adding"
     /\ IF n \in trees \cup branches
        THEN /\ job' = [job EXCEPT ![t] = "none"]
             /\ given' = [given EXCEPT ![t] = NoName]
             /\ UNCHANGED <<trees, branches>>
        ELSE /\ job' = [job EXCEPT ![t] = "given"]
             /\ trees' = trees \cup {n} /\ branches' = branches \cup {n}
             /\ UNCHANGED given
     /\ UNCHANGED <<fate, dirty, commits, main, merging, act, work, upsets>>

\* createTask stores the row, its worktree pending, and the task starts.  (It may
\* wait for others first: one of them is then in `given` for longer.)
StoreTask(t) ==
  /\ job[t] = "given"
  /\ job' = [job EXCEPT ![t] = "running"]
  /\ UNCHANGED <<given, fate, gitVars, act, work, upsets>>

Ends(t) ==
  /\ job[t] = "running"
  /\ \E end \in {"completed", "failed"} : job' = [job EXCEPT ![t] = end]
  /\ UNCHANGED <<given, fate, gitVars, act, work, upsets>>

\* A merge of that tree has committed and will remove it.
PastCommitting(n) ==
  \E c \in Click : /\ act[c].kind = "merge" /\ act[c].name = n
                   /\ act[c].at \in {"ready", "merged", "removing"}

\* The task writes files, and commits nothing.
WritesFiles(t) ==
  LET n == given[t]
  IN /\ job[t] = "running"
     /\ n \in trees
     /\ dirty' = [dirty EXCEPT ![n] = @ \cup {t}]
     /\ work' = [work EXCEPT ![t] = IF @ = "lost" \/ PastCommitting(n) THEN "lost" ELSE "due"]
     /\ UNCHANGED <<tableVars, trees, branches, commits, main, merging, act, upsets>>
-----------------------------------------------------------------------------
(***************************************************************************)
(* mergeTaskWorktree, discardTaskWorktree and worktree_remove              *)
(***************************************************************************)
Goes(c, at) == act' = [act EXCEPT ![c].at = at]
Throws(c)   == act' = [act EXCEPT ![c] = NoAct]

\* The panel offers both for a completed task, and each asks whether the
\* worktree is still pending.  (Reopening the panel forgets a click.)
Ask(c, kind, t) ==
  /\ act[c] = NoAct
  /\ kind \in {"merge", "discard"}
  /\ job[t] = "completed"
  /\ fate[t] = "pending"
  /\ act' = [act EXCEPT ![c] = [kind |-> kind, task |-> t, name |-> given[t], at |-> "asked"]]
  /\ UNCHANGED <<tableVars, gitVars, work, upsets>>

AskTool(c, n) ==
  /\ upsets < MaxUpsets /\ upsets' = upsets + 1
  /\ act[c] = NoAct
  /\ act' = [act EXCEPT ![c] = [kind |-> "tool", task |-> NoName, name |-> n, at |-> "asked"]]
  /\ UNCHANGED <<tableVars, gitVars, work>>

\* listWorktrees: the tree must be there, to be merged and to be removed.
Lists(c) ==
  /\ act[c].at \in {"asked", "merged"}
  /\ IF act[c].name \notin trees THEN Throws(c)
     ELSE Goes(c, IF act[c].kind = "merge" /\ act[c].at = "asked" THEN "found" ELSE "removing")
  /\ UNCHANGED <<tableVars, gitVars, work, upsets>>

\* git status in the tree
LooksForChanges(c) ==
  /\ act[c].at = "found"
  /\ IF act[c].name \notin trees THEN Throws(c)
     ELSE Goes(c, IF dirty[act[c].name] = {} THEN "ready" ELSE "changed")
  /\ UNCHANGED <<tableVars, gitVars, work, upsets>>

\* git add and commit: it fails without a tree, or with nothing to commit.
Commits(c) ==
  LET n == act[c].name
  IN /\ act[c].at = "changed"
     /\ IF n \notin trees \/ dirty[n] = {}
        THEN Throws(c) /\ UNCHANGED <<dirty, commits>>
        ELSE /\ commits' = [commits EXCEPT ![n] = @ \cup dirty[n]]
             /\ dirty' = [dirty EXCEPT ![n] = {}]
             /\ Goes(c, "ready")
     /\ UNCHANGED <<tableVars, trees, branches, main, merging, work, upsets>>

\* git merge --no-ff
GoesIn(c) ==
  LET n == act[c].name
  IN /\ act[c].at = "ready"
     /\ n \in branches
     /\ merging = "nobody"
     /\ main' = main \cup commits[n]
     /\ Goes(c, "merged")
     /\ UNCHANGED <<tableVars, trees, branches, dirty, commits, merging, work, upsets>>

\* Variant: what git answered is not looked at.
FailsToMergeButGoesOn(c) ==
  /\ act[c].at = "ready"
  /\ merging' = merging
  /\ Goes(c, "merged")
  /\ UNCHANGED <<tableVars, trees, branches, dirty, commits, main, work, upsets>>

\* It fails: on a conflict, which is left in the main checkout, or because
\* something is in the way there, a merge in progress for one.
FailsToMerge(c) ==
  /\ act[c].at = "ready"
  /\ \/ merging' = merging
     \/ merging = "nobody" /\ act[c].name \in branches /\ merging' = c
  /\ Goes(c, "failed")
  /\ UNCHANGED <<tableVars, trees, branches, dirty, commits, main, work, upsets>>

\* git merge --abort, whoever's merge is in progress; the tree stays.
Aborts(c) ==
  /\ act[c].at = "failed"
  /\ merging' = "nobody"
  /\ Throws(c)
  /\ UNCHANGED <<tableVars, trees, branches, dirty, commits, main, work, upsets>>

\* git worktree remove --force
RemovesTree(c) ==
  LET n == act[c].name
  IN /\ act[c].at = "removing"
     /\ IF n \notin trees
        THEN Throws(c) /\ UNCHANGED <<trees, dirty, work>>
        ELSE /\ trees' = trees \ {n}
             /\ dirty' = [dirty EXCEPT ![n] = {}]
             /\ work' = [t \in Isolated |->
                           IF act[c].kind # "merge" /\ t \in dirty[n] \cup commits[n]
                           THEN "lost" ELSE work[t]]
             /\ Goes(c, "removed")
     /\ UNCHANGED <<tableVars, branches, commits, main, merging, upsets>>

\* git branch -D, and the row says what was done.
Settles(c) ==
  LET n == act[c].name
      t == act[c].task
  IN /\ act[c].at = "removed"
     /\ branches' = branches \ {n}
     /\ commits' = [commits EXCEPT ![n] = {}]
     /\ fate' = CASE act[c].kind = "merge"   -> [fate EXCEPT ![t] = "merged"]
                  [] act[c].kind = "discard" -> [fate EXCEPT ![t] = "discarded"]
                  [] act[c].kind = "tool"    -> fate
     /\ Throws(c)
     /\ UNCHANGED <<job, given, trees, dirty, main, merging, work, upsets>>
-----------------------------------------------------------------------------
\* The user's own work in the main checkout.
UserMerges ==
  /\ \/ merging = "nobody" /\ merging' = "user"
     \/ merging = "user"   /\ merging' = "nobody"
  /\ UNCHANGED <<tableVars, trees, branches, dirty, commits, main, act, work, upsets>>

\* The process dies and starts again: failRunningTasks, and a merge that was
\* about to be aborted is the user's.
HostDies ==
  /\ upsets < MaxUpsets /\ upsets' = upsets + 1
  /\ job' = [t \in Isolated |->
               CASE job[t] \in {"adding", "given"} -> "none"
                 [] job[t] = "running"            -> "failed"
                 [] OTHER -> job[t]]
  /\ given' = [t \in Isolated |-> IF job[t] \in {"adding", "given"} THEN NoName ELSE given[t]]
  /\ act' = [c \in Click |-> NoAct]
  /\ merging' = IF merging \in Click THEN "user" ELSE merging
  /\ UNCHANGED <<fate, trees, branches, dirty, commits, main, work>>
-----------------------------------------------------------------------------
JobStep(t) ==
  \/ \E n \in Name : CreateWorktree(t, n)
  \/ AddTree(t)
  \/ StoreTask(t) \/ Ends(t) \/ WritesFiles(t)

ClickStep(c) ==
  \/ \E t \in Isolated, kind \in {"merge", "discard"} : Ask(c, kind, t)
  \/ \E n \in Name : AskTool(c, n)
  \/ Lists(c) \/ LooksForChanges(c) \/ Commits(c) \/ GoesIn(c) \/ FailsToMerge(c)
  \/ Aborts(c) \/ RemovesTree(c) \/ Settles(c)

WorktreeNext ==
  \/ \E t \in Isolated : JobStep(t)
  \/ \E c \in Click : ClickStep(c)
  \/ UserMerges
  \/ HostDies

WorktreeSpec == WorktreeInit /\ [][WorktreeNext]_worktreeVars
-----------------------------------------------------------------------------
(***************************************************************************)
(* Properties                                                              *)
(***************************************************************************)
Kept(t) ==
  \/ t \in main
  \/ \E n \in Name : \/ n \in trees /\ t \in dirty[n]
                     \/ n \in branches /\ t \in commits[n]

\* What a task wrote is lost only by a discard of its tree: a merge that fails,
\* is made twice, meets a discard of another tree, the user's own merge or a
\* crash keeps it in the tree, on the branch or in the main checkout.  (A merge
\* does lose what a task that shares the tree writes between the commit and the
\* removal.)
MergesLoseNothing == \A t \in Isolated : work[t] = "due" => Kept(t)
=============================================================================
