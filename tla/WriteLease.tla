----------------------------- MODULE WriteLease -----------------------------
(***************************************************************************)
(* The write lease of a session store (storage/write_lease.py): processes  *)
(* that open the same database take a kernel lock on a sibling lock file,  *)
(* and check afterwards that the file they locked is still the one at that *)
(* path.  No code of the repository deletes the file; somebody who tidies  *)
(* up may, as long as no process holds the lease.                          *)
(***************************************************************************)
EXTENDS Naturals

CONSTANTS
  Opener,       (* attempts to open the store, each in a process of its own *)
  MaxFiles      (* bound: lock files made at the path                       *)

LOCK_ATTEMPTS == 3
NoFile  == 0
File    == 1..MaxFiles
Nobody  == "nobody"

ASSUME LeaseAssumption == MaxFiles \in Nat /\ Opener # {} /\ Nobody \notin Opener

VARIABLES
  path,    (* the file at lock_path; NoFile when there is none              *)
  made,    (* files made so far                                             *)
  lock,    (* the kernel's lock on each file                                *)
  fd,      (* the file each process has open                                *)
  at,      (* "idle", "trying" (about to open), "opened", "locked" (before  *)
           (* the comparison), "held", "refused", "gone"                    *)
  tries    (* rounds of the loop begun                                      *)

leaseVars == <<path, made, lock, fd, at, tries>>

LeaseTypeOK ==
  /\ path \in File \cup {NoFile}
  /\ made \in 0..MaxFiles
  /\ lock \in [File -> Opener \cup {Nobody}]
  /\ fd \in [Opener -> File \cup {NoFile}]
  /\ at \in [Opener -> {"idle", "trying", "opened", "locked", "held", "refused", "gone"}]
  /\ tries \in [Opener -> 0..LOCK_ATTEMPTS]

LeaseInit ==
  /\ path = NoFile /\ made = 0
  /\ lock = [f \in File |-> Nobody]
  /\ fd = [p \in Opener |-> NoFile]
  /\ at = [p \in Opener |-> "idle"]
  /\ tries = [p \in Opener |-> 0]

\* os.close drops the lock the descriptor has, if it has one.
Close(p) ==
  /\ fd' = [fd EXCEPT ![p] = NoFile]
  /\ lock' = [f \in File |-> IF lock[f] = p THEN Nobody ELSE lock[f]]

\* os.open with O_CREAT.
OpenLockFile(p) ==
  /\ at[p] \in {"idle", "trying"}
  /\ \/ path # NoFile /\ UNCHANGED <<path, made>>
     \/ path = NoFile /\ made < MaxFiles /\ made' = made + 1 /\ path' = made + 1
  /\ fd' = [fd EXCEPT ![p] = path']
  /\ tries' = [tries EXCEPT ![p] = @ + 1]
  /\ at' = [at EXCEPT ![p] = "opened"]
  /\ UNCHANGED lock

\* flock with LOCK_NB: somebody else's lock ends the attempt.
Flock(p) ==
  /\ at[p] = "opened"
  /\ \/ /\ lock[fd[p]] = Nobody
        /\ lock' = [lock EXCEPT ![fd[p]] = p]
        /\ at' = [at EXCEPT ![p] = "locked"]
        /\ UNCHANGED fd
     \/ /\ lock[fd[p]] # Nobody
        /\ Close(p)
        /\ at' = [at EXCEPT ![p] = "refused"]
  /\ UNCHANGED <<path, made, tries>>

\* Variant: a file that was locked is good enough.
StillThereUnchecked(p) == TRUE

\* fstat and stat name the same inode.
StillThere(p) == path = fd[p]

\* Variant: one round is all there is.
GoesRoundNever(p) == FALSE

\* Rounds left of the loop.
GoesRound(p) == tries[p] < LOCK_ATTEMPTS

\* The lease is held, or the loop goes round once more.
Compare(p) ==
  /\ at[p] = "locked"
  /\ \/ /\ StillThere(p)
        /\ at' = [at EXCEPT ![p] = "held"]
        /\ UNCHANGED <<lock, fd>>
     \/ /\ ~StillThere(p)
        /\ Close(p)
        /\ at' = [at EXCEPT ![p] = IF GoesRound(p) THEN "trying" ELSE "refused"]
  /\ UNCHANGED <<path, made, tries>>

\* The store is closed, or the process dies wherever it is: the kernel closes
\* what it had open.
Leave(p) ==
  /\ at[p] \notin {"idle", "refused", "gone"}
  /\ Close(p)
  /\ at' = [at EXCEPT ![p] = "gone"]
  /\ UNCHANGED <<path, made, tries>>

\* Somebody removes a lock file nobody seems to use.
TidyUp ==
  /\ path # NoFile
  /\ \A p \in Opener : at[p] # "held"
  /\ path' = NoFile
  /\ UNCHANGED <<made, lock, fd, at, tries>>

LeaseNext ==
  \/ \E p \in Opener : OpenLockFile(p) \/ Flock(p) \/ Compare(p) \/ Leave(p)
  \/ TidyUp

LeaseSpec == LeaseInit /\ [][LeaseNext]_leaseVars
-----------------------------------------------------------------------------
(***************************************************************************)
(* Properties                                                              *)
(***************************************************************************)

\* Two processes never write the same database, however their attempts, their
\* deaths and the removals of the lock file interleave.
OneOwner == \A p, q \in Opener : at[p] = "held" /\ at[q] = "held" => p = q

\* When everybody who tried is through and nobody left, one of them owns the
\* store: the removals of the lock file, fewer than the rounds of the loop, do
\* not make the processes refuse each other.
Removals == IF path = NoFile THEN made ELSE made - 1
AttemptsLeaveAnOwner ==
  ((\A p \in Opener : at[p] \in {"held", "refused"}) /\ Removals < LOCK_ATTEMPTS)
  => \E p \in Opener : at[p] = "held"
=============================================================================
