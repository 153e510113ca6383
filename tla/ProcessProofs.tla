--------------------------- MODULE ProcessProofs ---------------------------
(***************************************************************************)
(* Results about processes that come and go, for any number of them.       *)
(*                                                                         *)
(* One process owns the store: the file a process locked stays locked by   *)
(* it until it closes it, and the owner's file is the one at the path:     *)
(* that is what the comparison establishes and what nobody undoes while    *)
(* the lease is held.                                                      *)
(*                                                                         *)
(* A call is never given the answer of another call of its process: the id *)
(* of a letter is the number of the call it is of, and so is the id under  *)
(* which a call awaits its answer.                                         *)
(*                                                                         *)
(* No call runs that the user did not allow, and his last decision stands: *)
(* every allow a turn may come upon is traced to its answer.               *)
(*                                                                         *)
(* A run of the native loop that returns leaves no task: its worker is the *)
(* only one to schedule any, and is gone when the run winds down.          *)
(***************************************************************************)
EXTENDS WriteLease, ReverseChannel, ApprovalScopes, NativeBridge, TLAPS

\* What a process that has the lock, or the lease, knows; and that one that
\* opens the file has rounds left.
LocksItsFile(p) ==
  /\ at[p] = "idle" => tries[p] = 0
  /\ at[p] = "trying" => tries[p] < LOCK_ATTEMPTS
  /\ at[p] \in {"opened", "locked", "held"} => fd[p] \in File
  /\ at[p] \in {"locked", "held"} => lock[fd[p]] = p
  /\ at[p] = "held" => path = fd[p]

LeaseInv == LeaseTypeOK /\ \A p \in Opener : LocksItsFile(p)

LEMMA LeaseInitially == LeaseInit => LeaseInv
<1> SUFFICES ASSUME LeaseInit PROVE LeaseInv
  OBVIOUS
<1>1. LeaseTypeOK
  BY LeaseAssumption DEF LeaseInit, LeaseTypeOK, File, NoFile, LOCK_ATTEMPTS
<1>2. \A p \in Opener : LocksItsFile(p)
  BY DEF LeaseInit, LocksItsFile
<1> QED BY <1>1, <1>2 DEF LeaseInv

\* Closing a file takes no other process's lock away.
LEMMA CloseSparesOthers ==
  ASSUME LeaseInv, NEW p \in Opener, Close(p), NEW q \in Opener, q # p
  PROVE  /\ fd'[q] = fd[q]
         /\ at[q] \in {"locked", "held"} => lock'[fd[q]] = q
BY DEF LeaseInv, LeaseTypeOK, LocksItsFile, Close

LEMMA CloseTypes ==
  ASSUME LeaseInv, NEW p \in Opener, Close(p)
  PROVE  /\ fd' \in [Opener -> File \cup {NoFile}]
         /\ lock' \in [File -> Opener \cup {Nobody}]
BY DEF LeaseInv, LeaseTypeOK, Close

LEMMA LeaseStep == LeaseInv /\ [LeaseNext]_leaseVars => LeaseInv'
<1> SUFFICES ASSUME LeaseInv, [LeaseNext]_leaseVars PROVE LeaseInv'
  OBVIOUS
<1> USE LeaseAssumption DEF LeaseInv
<1>1. ASSUME NEW p \in Opener, OpenLockFile(p) PROVE LeaseInv'
  <2>1. path' \in File /\ made' \in 0..MaxFiles /\ (path # NoFile => path' = path)
    BY <1>1 DEF OpenLockFile, LeaseTypeOK, File, NoFile
  <2>2. tries[p] + 1 \in 0..LOCK_ATTEMPTS
    BY <1>1 DEF OpenLockFile, LeaseTypeOK, LocksItsFile, LOCK_ATTEMPTS
  <2>3. LeaseTypeOK'
    BY <1>1, <2>1, <2>2 DEF OpenLockFile, LeaseTypeOK
  <2>4. ASSUME NEW q \in Opener PROVE LocksItsFile(q)'
    <3>1. CASE q = p
      BY <1>1, <2>1, <3>1 DEF OpenLockFile, LeaseTypeOK, LocksItsFile
    <3>2. CASE q # p
      <4>1. at[q] = "held" => path # NoFile
        BY LeaseAssumption DEF LocksItsFile, File, NoFile
      <4> QED BY <1>1, <2>1, <3>2, <4>1 DEF OpenLockFile, LeaseTypeOK, LocksItsFile
    <3> QED BY <3>1, <3>2
  <2> QED BY <2>3, <2>4
<1>2. ASSUME NEW p \in Opener, Flock(p) PROVE LeaseInv'
  <2>1. CASE lock[fd[p]] = Nobody
    <3>1. lock' = [lock EXCEPT ![fd[p]] = p] /\ at' = [at EXCEPT ![p] = "locked"]
          /\ UNCHANGED <<path, made, fd, tries>> /\ fd[p] \in File
      BY <1>2, <2>1 DEF Flock, LocksItsFile
    <3>2. LeaseTypeOK'
      BY <3>1 DEF LeaseTypeOK
    <3>3. ASSUME NEW q \in Opener PROVE LocksItsFile(q)'
      <4>1. CASE q = p
        BY <3>1, <4>1 DEF LeaseTypeOK, LocksItsFile
      <4>2. CASE q # p
        BY <2>1, <3>1, <4>2 DEF LeaseTypeOK, LocksItsFile
      <4> QED BY <4>1, <4>2
    <3> QED BY <3>2, <3>3
  <2>2. CASE lock[fd[p]] # Nobody
    <3>1. Close(p) /\ at' = [at EXCEPT ![p] = "refused"] /\ UNCHANGED <<path, made, tries>>
      BY <1>2, <2>2 DEF Flock
    <3>2. LeaseTypeOK'
      BY <3>1, CloseTypes DEF LeaseTypeOK
    <3>3. ASSUME NEW q \in Opener PROVE LocksItsFile(q)'
      BY <3>1, CloseSparesOthers DEF LeaseTypeOK, LocksItsFile
    <3> QED BY <3>2, <3>3
  <2> QED BY <2>1, <2>2
<1>3. ASSUME NEW p \in Opener, Compare(p) PROVE LeaseInv'
  <2>1. CASE StillThere(p)
    <3>1. at[p] = "locked" /\ path = fd[p] /\ at' = [at EXCEPT ![p] = "held"]
          /\ UNCHANGED <<path, made, lock, fd, tries>>
      BY <1>3, <2>1 DEF Compare, StillThere
    <3>2. LeaseTypeOK'
      BY <3>1 DEF LeaseTypeOK
    <3>3. ASSUME NEW q \in Opener PROVE LocksItsFile(q)'
      BY <3>1 DEF LeaseTypeOK, LocksItsFile
    <3> QED BY <3>2, <3>3
  <2>2. CASE ~StillThere(p)
    <3>1. Close(p) /\ UNCHANGED <<path, made, tries>>
          /\ at' = [at EXCEPT ![p] = IF tries[p] < LOCK_ATTEMPTS THEN "trying" ELSE "refused"]
      BY <1>3, <2>2 DEF Compare, GoesRound
    <3>2. LeaseTypeOK'
      BY <3>1, CloseTypes DEF LeaseTypeOK
    <3>3. ASSUME NEW q \in Opener PROVE LocksItsFile(q)'
      <4>1. CASE q = p
        BY <3>1, <4>1 DEF LeaseTypeOK, LocksItsFile
      <4>2. CASE q # p
        BY <3>1, <4>2, CloseSparesOthers DEF LeaseTypeOK, LocksItsFile
      <4> QED BY <4>1, <4>2
    <3> QED BY <3>2, <3>3
  <2> QED BY <2>1, <2>2
<1>4. ASSUME NEW p \in Opener, Leave(p) PROVE LeaseInv'
  <2>1. Close(p) /\ at' = [at EXCEPT ![p] = "gone"] /\ UNCHANGED <<path, made, tries>>
    BY <1>4 DEF Leave
  <2>2. LeaseTypeOK'
    BY <2>1, CloseTypes DEF LeaseTypeOK
  <2>3. ASSUME NEW q \in Opener PROVE LocksItsFile(q)'
    BY <2>1, CloseSparesOthers DEF LeaseTypeOK, LocksItsFile
  <2> QED BY <2>2, <2>3
<1>5. ASSUME TidyUp PROVE LeaseInv'
  BY <1>5 DEF TidyUp, LeaseTypeOK, LocksItsFile
<1>6. CASE UNCHANGED leaseVars
  BY <1>6 DEF leaseVars, LeaseTypeOK, LocksItsFile
<1> QED BY <1>1, <1>2, <1>3, <1>4, <1>5, <1>6 DEF LeaseNext

\* Every variable keeps its type.
THEOREM LeaseTypes == LeaseSpec => []LeaseTypeOK
<1>1. LeaseInv => LeaseTypeOK
  BY DEF LeaseInv
<1> QED BY <1>1, LeaseInitially, LeaseStep, PTL DEF LeaseSpec

\* Two processes that hold the lease would both have locked the file at the
\* path: however attempts, deaths and removals of the lock file interleave, one
\* process writes the database.
THEOREM LeaseIsExclusive == LeaseSpec => []OneOwner
<1>1. LeaseInv => OneOwner
  BY DEF LeaseInv, LocksItsFile, OneOwner
<1> QED BY <1>1, LeaseInitially, LeaseStep, PTL DEF LeaseSpec

\* Files are made and removed one after the other, a lock is of somebody who
\* goes on, every round an attempt has lost was lost to a removal of its own, and
\* as long as there were fewer of these than rounds somebody is not refused.
TriesAreFiles(p) ==
  /\ at[p] = "trying" => tries[p] <= Removals
  /\ at[p] \in {"opened", "locked", "held"} => tries[p] <= fd[p] /\ fd[p] <= made

AttemptsInv ==
  /\ path \in {NoFile, made}
  /\ \A f \in File : lock[f] # Nobody => at[lock[f]] \in {"locked", "held"}
  /\ \A p \in Opener : TriesAreFiles(p)
  /\ Removals < LOCK_ATTEMPTS => \E p \in Opener : at[p] # "refused"

LEMMA AttemptsStep == LeaseInv /\ LeaseInv' /\ AttemptsInv /\ [LeaseNext]_leaseVars => AttemptsInv'
<1> SUFFICES ASSUME LeaseInv, LeaseInv', AttemptsInv, [LeaseNext]_leaseVars PROVE AttemptsInv'
  OBVIOUS
<1> DEFINE Ordered == path \in {NoFile, made}
           LocksAreOfSome == \A f \in File : lock[f] # Nobody => at[lock[f]] \in {"locked", "held"}
           Tries == \A p \in Opener : TriesAreFiles(p)
           SomeGoOn == Removals < LOCK_ATTEMPTS => \E p \in Opener : at[p] # "refused"
<1>0. /\ Ordered /\ LocksAreOfSome /\ Tries /\ SomeGoOn
      /\ made \in Nat /\ made' \in Nat /\ Nobody \notin Opener
      /\ at \in [Opener -> {"idle", "trying", "opened", "locked", "held", "refused", "gone"}]
      /\ tries \in [Opener -> Nat] /\ fd \in [Opener -> Nat]
      /\ lock \in [File -> Opener \cup {Nobody}]
  <2>1. Ordered /\ LocksAreOfSome /\ Tries /\ SomeGoOn /\ Nobody \notin Opener
    BY LeaseAssumption DEF AttemptsInv
  <2>2. made \in Nat /\ made' \in Nat
    BY LeaseAssumption DEF LeaseInv, LeaseTypeOK
  <2>3. /\ at \in [Opener -> {"idle", "trying", "opened", "locked", "held", "refused", "gone"}]
        /\ lock \in [File -> Opener \cup {Nobody}]
    BY DEF LeaseInv, LeaseTypeOK
  <2>4. tries \in [Opener -> Nat] /\ fd \in [Opener -> Nat]
    <3>1. File \cup {NoFile} \subseteq Nat /\ 0..LOCK_ATTEMPTS \subseteq Nat
      BY LeaseAssumption DEF File, NoFile, LOCK_ATTEMPTS
    <3>2. tries \in [Opener -> 0..LOCK_ATTEMPTS] /\ fd \in [Opener -> File \cup {NoFile}]
      BY DEF LeaseInv, LeaseTypeOK
    <3> HIDE DEF LeaseInv
    <3> QED BY <3>1, <3>2
  <2> QED BY <2>1, <2>2, <2>3, <2>4
<1>1. ASSUME NEW p \in Opener, OpenLockFile(p) PROVE AttemptsInv'
  <2>1. /\ path' = made' /\ made' \in {made, made + 1} /\ path' \in File
        /\ Removals' = Removals
        /\ tries[p] + 1 <= path'
    <3>1. /\ tries[p] <= Removals /\ Removals \in Int
          /\ path # NoFile => path \in Nat \ {0}
      BY <1>0, <1>1, LeaseAssumption
         DEF OpenLockFile, Removals, LeaseInv, LeaseTypeOK, LocksItsFile, TriesAreFiles, File, NoFile
    <3>2. CASE path # NoFile /\ UNCHANGED <<path, made>>
      BY <1>0, <3>1, <3>2 DEF Removals, NoFile, LeaseInv, LeaseTypeOK
    <3>3. CASE path = NoFile /\ made < MaxFiles /\ made' = made + 1 /\ path' = made + 1
      BY <1>0, <3>1, <3>3, LeaseAssumption DEF Removals, NoFile, File
    <3> QED BY <1>1, <3>2, <3>3 DEF OpenLockFile
  <2>2. at' = [at EXCEPT ![p] = "opened"] /\ lock' = lock
        /\ tries' = [tries EXCEPT ![p] = @ + 1] /\ fd' = [fd EXCEPT ![p] = path']
    BY <1>1 DEF OpenLockFile
  <2>3. LocksAreOfSome'
    BY <1>0, <1>1, <2>2 DEF OpenLockFile
  <2>4. Tries'
    BY <1>0, <2>1, <2>2 DEF TriesAreFiles
  <2>5. SomeGoOn'
    BY <1>0, <2>2
  <2> QED BY <2>1, <2>3, <2>4, <2>5 DEF AttemptsInv
<1>2. ASSUME NEW p \in Opener, Flock(p) PROVE AttemptsInv'
  <2>1. UNCHANGED <<path, made, tries>> /\ Removals' = Removals /\ at[p] = "opened" /\ fd[p] \in File
    BY <1>2 DEF Flock, Removals, LeaseInv, LocksItsFile
  <2>2. CASE lock[fd[p]] = Nobody
    <3>1. /\ lock' = [lock EXCEPT ![fd[p]] = p] /\ fd' = fd
          /\ at' = [at EXCEPT ![p] = "locked"]
      BY <1>2, <2>2 DEF Flock
    <3>2. LocksAreOfSome' /\ Tries' /\ SomeGoOn'
      BY <1>0, <2>1, <3>1 DEF TriesAreFiles
    <3> QED BY <1>0, <2>1, <3>2 DEF AttemptsInv
  <2>3. CASE lock[fd[p]] # Nobody
    <3>1. Close(p) /\ at' = [at EXCEPT ![p] = "refused"]
      BY <1>2, <2>3 DEF Flock
    <3>2. LocksAreOfSome' /\ Tries'
      BY <1>0, <2>1, <3>1 DEF Close, TriesAreFiles
    <3>3. at'[lock[fd[p]]] \in {"locked", "held"} /\ lock[fd[p]] \in Opener
      BY <1>0, <2>1, <2>3, <3>1
    <3> QED BY <1>0, <2>1, <3>2, <3>3 DEF AttemptsInv
  <2> QED BY <2>2, <2>3
<1>3. ASSUME NEW p \in Opener, Compare(p) PROVE AttemptsInv'
  <2>1. UNCHANGED <<path, made, tries>> /\ Removals' = Removals /\ at[p] = "locked"
    BY <1>3 DEF Compare, Removals
  <2>2. CASE StillThere(p)
    <3>1. at' = [at EXCEPT ![p] = "held"] /\ UNCHANGED <<lock, fd>>
      BY <1>3, <2>2 DEF Compare
    <3>2. LocksAreOfSome' /\ Tries' /\ SomeGoOn'
      BY <1>0, <2>1, <3>1 DEF TriesAreFiles
    <3> QED BY <1>0, <2>1, <3>2 DEF AttemptsInv
  <2>3. CASE ~StillThere(p)
    <3>1. /\ Close(p)
          /\ at' = [at EXCEPT ![p] = IF tries[p] < LOCK_ATTEMPTS THEN "trying" ELSE "refused"]
      BY <1>3, <2>3 DEF Compare, GoesRound
    <3>2. tries[p] <= Removals
      BY <1>0, <2>1, <2>3 DEF StillThere, Removals, TriesAreFiles, NoFile
    <3>3. LocksAreOfSome' /\ Tries'
      BY <1>0, <2>1, <3>1, <3>2 DEF Close, TriesAreFiles
    <3>4. SomeGoOn'
      <4> SUFFICES ASSUME Removals < LOCK_ATTEMPTS PROVE at'[p] # "refused"
        BY <2>1
      <4>1. Removals \in Int
        BY <1>0 DEF Removals
      <4> QED BY <1>0, <3>1, <3>2, <4>1 DEF LOCK_ATTEMPTS
    <3> QED BY <1>0, <2>1, <3>3, <3>4 DEF AttemptsInv
  <2> QED BY <2>2, <2>3
<1>4. ASSUME NEW p \in Opener, Leave(p) PROVE AttemptsInv'
  <2>1. /\ Close(p) /\ at' = [at EXCEPT ![p] = "gone"]
        /\ UNCHANGED <<path, made, tries>> /\ Removals' = Removals
    BY <1>4 DEF Leave, Removals
  <2>2. LocksAreOfSome' /\ Tries' /\ SomeGoOn'
    BY <1>0, <2>1 DEF Close, TriesAreFiles
  <2> QED BY <1>0, <2>1, <2>2 DEF AttemptsInv
<1>5. ASSUME TidyUp PROVE AttemptsInv'
  <2>1. path' = NoFile /\ UNCHANGED <<made, lock, fd, at, tries>> /\ Removals' = made /\ Removals = made - 1
    BY <1>5 DEF TidyUp, Removals
  <2> QED BY <1>0, <2>1 DEF AttemptsInv, TriesAreFiles, LOCK_ATTEMPTS
<1>6. CASE UNCHANGED leaseVars
  BY <1>6 DEF leaseVars, AttemptsInv, TriesAreFiles, Removals
<1> QED BY <1>1, <1>2, <1>3, <1>4, <1>5, <1>6 DEF LeaseNext

\* When everybody is through, one owns the store, provided that the lock file
\* was removed less often than the loop goes round (LOCK_ATTEMPTS).
THEOREM AttemptsSucceed == LeaseSpec => []AttemptsLeaveAnOwner
<1>1. LeaseInit => AttemptsInv
  BY LeaseAssumption DEF LeaseInit, AttemptsInv, TriesAreFiles
<1>2. AttemptsInv => AttemptsLeaveAnOwner
  BY DEF AttemptsInv, AttemptsLeaveAnOwner
<1> QED
  BY <1>1, <1>2, LeaseInitially, LeaseStep, AttemptsStep, PTL DEF LeaseSpec

-----------------------------------------------------------------------------
(* The reverse channel                                                     *)

\* A letter carries the number of the call it is of.
Numbered(r) == r.id = r.of[2]

\* Every id stands for one call of its process, wherever it is found.
IdsAreNumbers ==
  /\ \A p \in Sidecar, i \in Id : awaited[p][i] \in {NoReverse, <<p, i>>}
  /\ \A r \in toHost : Numbered(r)
  /\ \A r \in handling : Numbered(r)
  /\ \A a \in answers : Numbered(a.letter)

ChannelInv == ChannelTypeOK /\ IdsAreNumbers /\ OwnAnswers

LEMMA ChannelInitially == ChannelInit => ChannelInv
<1> SUFFICES ASSUME ChannelInit PROVE ChannelInv
  OBVIOUS
<1>1. ChannelTypeOK
  BY ChannelAssumption DEF ChannelInit, ChannelTypeOK, Sidecar
<1>2. IdsAreNumbers /\ OwnAnswers
  BY DEF ChannelInit, IdsAreNumbers, OwnAnswers
<1> QED BY <1>1, <1>2 DEF ChannelInv

\* An answer is written as it is, or lost.
LEMMA WritesKeep ==
  ASSUME ChannelInv, NEW r \in Letter, Numbered(r), Writes(r)
  PROVE  /\ answers' \subseteq [to : Sidecar, letter : Letter]
         /\ \A a \in answers' : Numbered(a.letter)
<1>1. current \in living => current \in Sidecar
  BY ChannelAssumption DEF ChannelInv, ChannelTypeOK, Sidecar
<1> QED BY <1>1 DEF Writes, ChannelInv, ChannelTypeOK, IdsAreNumbers

LEMMA ChannelStep == ChannelInv /\ [ChannelNext]_channelVars => ChannelInv'
<1> SUFFICES ASSUME ChannelInv, [ChannelNext]_channelVars PROVE ChannelInv'
  OBVIOUS
<1> USE ChannelAssumption DEF ChannelInv
<1>1. ASSUME NEW p \in Sidecar, Calls(p) PROVE ChannelInv'
  <2> DEFINE n == issued[p] + 1
  <2>1. n \in Id /\ <<p, n>> \in ReverseCall
    BY <1>1 DEF Calls, ChannelTypeOK, Id, ReverseCall
  <2>2. /\ awaited' = [awaited EXCEPT ![p][n] = <<p, n>>]
        /\ toHost' = toHost \cup {[id |-> n, of |-> <<p, n>>]}
        /\ issued' = [issued EXCEPT ![p] = n]
        /\ UNCHANGED <<processes, answers, handling, resolved>>
    BY <1>1, <2>1 DEF Calls, ReverseId
  <2>3. [id |-> n, of |-> <<p, n>>] \in Letter
    BY <2>1 DEF Letter
  <2>4. ChannelTypeOK'
    <3>1. n \in 0..MaxReverse
      BY <2>1 DEF Id
    <3>2. issued' \in [Sidecar -> 0..MaxReverse]
      BY <2>2, <3>1 DEF ChannelTypeOK
    <3>3. awaited' \in [Sidecar -> [Id -> ReverseCall \cup {NoReverse}]]
      BY <2>1, <2>2 DEF ChannelTypeOK
    <3> QED BY <2>2, <2>3, <3>2, <3>3 DEF ChannelTypeOK, processes
  <2>5. IdsAreNumbers'
    BY <2>1, <2>2 DEF IdsAreNumbers, Numbered, ChannelTypeOK
  <2>6. OwnAnswers'
    BY <2>2 DEF OwnAnswers
  <2> QED BY <2>4, <2>5, <2>6
<1>2. ASSUME NEW p \in Sidecar, NEW i \in Id, GivesUp(p, i) PROVE ChannelInv'
  BY <1>2 DEF GivesUp, ChannelTypeOK, IdsAreNumbers, OwnAnswers, processes
<1>3. ASSUME NEW a \in answers, Resolves(a) PROVE ChannelInv'
  <2> DEFINE q == a.to
             i == a.letter.id
             c == awaited[q][i]
             o == a.letter.of
  <2>1. q \in Sidecar /\ i \in Id /\ o \in ReverseCall /\ i = o[2]
    BY DEF ChannelTypeOK, Letter, IdsAreNumbers, Numbered
  <2>2. c \in {NoReverse, <<q, i>>}
    BY <2>1 DEF IdsAreNumbers
  <2>3. o = <<o[1], i>>
    BY <2>1 DEF ReverseCall
  <2>4. /\ answers' = answers \ {a}
        /\ resolved' = IF c = NoReverse THEN resolved ELSE resolved \cup {<<c, o>>}
        /\ awaited' = [awaited EXCEPT ![q][i] = NoReverse]
        /\ UNCHANGED <<processes, issued, toHost, handling>>
    BY <1>3 DEF Resolves
  <2>5. c # NoReverse => c \in ReverseCall
    BY <2>1, <2>2 DEF ReverseCall
  <2>6. ChannelTypeOK'
    BY <2>1, <2>4, <2>5 DEF ChannelTypeOK, processes
  <2>7. IdsAreNumbers'
    BY <2>1, <2>4 DEF IdsAreNumbers, ChannelTypeOK
  <2>8. c # NoReverse => (c[1] = o[1] => c = o)
    BY <2>2, <2>3
  <2>9. OwnAnswers'
    BY <2>4, <2>8 DEF OwnAnswers
  <2> QED BY <2>6, <2>7, <2>9
<1>4. ASSUME NEW r \in toHost, Serves(r) PROVE ChannelInv'
  <2>1. r \in Letter /\ Numbered(r)
    BY DEF ChannelTypeOK, IdsAreNumbers
  <2>2. CASE Writes(r) /\ UNCHANGED handling
    BY <1>4, <2>1, <2>2, WritesKeep
    DEF Serves, ChannelTypeOK, IdsAreNumbers, OwnAnswers, processes
  <2>3. CASE handling' = handling \cup {r} /\ UNCHANGED answers
    BY <1>4, <2>1, <2>3 DEF Serves, ChannelTypeOK, IdsAreNumbers, OwnAnswers, processes
  <2> QED BY <1>4, <2>2, <2>3 DEF Serves
<1>5. ASSUME NEW r \in handling, Decides(r) PROVE ChannelInv'
  <2>1. r \in Letter /\ Numbered(r)
    BY DEF ChannelTypeOK, IdsAreNumbers
  <2> QED BY <1>5, <2>1, WritesKeep
          DEF Decides, ChannelTypeOK, IdsAreNumbers, OwnAnswers, processes
<1>6. ASSUME NEW p \in Sidecar, SidecarDies(p) PROVE ChannelInv'
  BY <1>6 DEF SidecarDies, ChannelTypeOK, IdsAreNumbers, OwnAnswers
<1>7. ASSUME GivenUp PROVE ChannelInv'
  BY <1>7 DEF GivenUp, ChannelTypeOK, IdsAreNumbers, OwnAnswers, Sidecar
<1>8. ASSUME Boots PROVE ChannelInv'
  <2>1. ChannelTypeOK'
    BY <1>8 DEF Boots, ChannelTypeOK, Sidecar
  <2> QED BY <1>8, <2>1 DEF Boots, IdsAreNumbers, OwnAnswers
<1>9. CASE UNCHANGED channelVars
  BY <1>9 DEF channelVars, ChannelTypeOK, IdsAreNumbers, OwnAnswers
<1> QED BY <1>1, <1>2, <1>3, <1>4, <1>5, <1>6, <1>7, <1>8, <1>9 DEF ChannelNext

\* Every variable keeps its type.
THEOREM ChannelTypes == ChannelSpec => []ChannelTypeOK
<1>1. ChannelInv => ChannelTypeOK
  BY DEF ChannelInv
<1> QED BY <1>1, ChannelInitially, ChannelStep, PTL DEF ChannelSpec

\* Ids grow as long as a process lives, so a late answer finds nothing, or the
\* call it is of; it can only be mistaken across processes.
THEOREM AnswersAreOwn == ChannelSpec => []OwnAnswers
<1>1. ChannelInv => OwnAnswers
  BY DEF ChannelInv
<1> QED BY <1>1, ChannelInitially, ChannelStep, PTL DEF ChannelSpec

-----------------------------------------------------------------------------
(* The scopes of approvals                                                 *)

\* Every allow that a turn may come upon was given by the user, for that chat
\* or for all: in a session, in what a turn has read, in the file, and in what
\* is being written.
AllowsAreGranted ==
  /\ \A h \in Chat, t \in Category : session[h][t] = "allow" => <<h, t>> \in granted
  /\ \A h \in Chat : \A d \in durable[h], t \in Category :
       d[t] = "allow" => <<"all", t>> \in granted
  /\ \A t \in Category : file[t] = "allow" => <<"all", t>> \in granted
  /\ \A p \in Process : \A w \in writing[p] :
       /\ w.verdict = "allow" => <<"all", call[w.call].category>> \in granted
       /\ \A t \in Category : w.loaded[t] = "allow" => <<"all", t>> \in granted

\* As long as no two processes were writing at once, a writer is alone and
\* has read the file as it is.
WriterIsAlone ==
  ~collided =>
    /\ \A p, q \in Process : Busy(p) /\ Busy(q) => p = q
    /\ \A p \in Process : \A w \in writing[p] : w.loaded = file

AskingHasChat == \A c \in Call : call[c].at = "asking" => call[c].chat \in Chat

ApprovalInv ==
  /\ ApprovalTypeOK /\ AskingHasChat
  /\ AllowsAreGranted /\ AllowedByTheUser
  /\ WriterIsAlone /\ LastWordStands

LEMMA ApprovalInitially == ApprovalInit => ApprovalInv
<1> SUFFICES ASSUME ApprovalInit PROVE ApprovalInv
  OBVIOUS
<1>1. Blank \in [Category -> Standing] /\ \A t \in Category : Blank[t] # "allow"
  BY DEF Blank, Standing, Undecided
<1>2. ApprovalTypeOK
  <2>1. call \in [Call -> [chat : Chat \cup {NoChat}, category : Category,
          at : {"unmade", "asking", "ran", "denied", "aborted", "gone"}]]
    BY DEF ApprovalInit
  <2>2. turns \in 0..MaxBegun
    BY ApprovalAssumption DEF ApprovalInit
  <2>3. \A h \in Chat : durable[h] = {}
    BY DEF ApprovalInit, Unread
  <2>4. durable \in [Chat -> SUBSET [Category -> Standing]]
    BY DEF ApprovalInit, Unread
  <2>5. session \in [Chat -> [Category -> Standing]]
    BY <1>1 DEF ApprovalInit
  <2>6. writing \in [Process -> SUBSET Put] /\ \A p \in Process : writing[p] = {}
    BY DEF ApprovalInit
  <2>7. /\ stored \in BOOLEAN /\ collided \in BOOLEAN
        /\ file \in [Category -> Standing] /\ lastWord \in [Category -> Standing]
        /\ own = {} /\ granted = {}
    BY <1>1 DEF ApprovalInit
  <2> QED BY <2>1, <2>2, <2>3, <2>4, <2>5, <2>6, <2>7 DEF ApprovalTypeOK
<1>3. AskingHasChat /\ AllowsAreGranted /\ AllowedByTheUser
  BY <1>1 DEF ApprovalInit, AskingHasChat, AllowsAreGranted, AllowedByTheUser, Unread
<1>4. WriterIsAlone /\ LastWordStands
  BY DEF ApprovalInit, WriterIsAlone, LastWordStands, Busy
<1> QED BY <1>2, <1>3, <1>4 DEF ApprovalInv

\* What a turn goes by is what it has read, or the file, or nothing.
LEMMA Reading ==
  ASSUME ApprovalInv, NEW h \in Chat
  PROVE  /\ Durable(h) \in [Category -> Standing]
         /\ \A t \in Category : Durable(h)[t] = "allow" => <<"all", t>> \in granted
         /\ durable[h] \in {Unread, {Durable(h)}} \/ ~stored
<1>1. CASE ~stored
  BY <1>1 DEF Durable, Blank, Standing, Undecided
<1>2. CASE stored /\ durable[h] = Unread
  BY <1>2 DEF Durable, ApprovalInv, ApprovalTypeOK, AllowsAreGranted
<1>3. CASE stored /\ durable[h] # Unread
  <2>1. Durable(h) = CHOOSE d \in durable[h] : TRUE
    BY <1>3 DEF Durable
  <2>2. \E d : d \in durable[h]
    BY <1>3 DEF Unread
  <2>3. Durable(h) \in durable[h]
    BY <2>1, <2>2
  <2> QED BY <2>3 DEF ApprovalInv, ApprovalTypeOK, AllowsAreGranted
<1> QED BY <1>1, <1>2, <1>3

\* What it comes to, it may.
LEMMA Deciding ==
  ASSUME ApprovalInv, NEW h \in Chat, NEW t \in Category, StoredDecision(h, t) = "allow"
  PROVE  <<h, t>> \in granted \/ <<"all", t>> \in granted
<1>1. CASE Durable(h)[t] # Undecided
  BY <1>1, Reading DEF StoredDecision
<1>2. CASE Durable(h)[t] = Undecided
  <2> DEFINE S == {g \in SessionOf(h) : session[g][t] # Undecided}
             g0 == CHOOSE g \in SessionOf(h) : session[g][t] # Undecided
  <2>1. \E g \in SessionOf(h) : session[g][t] # Undecided
    BY <1>2 DEF StoredDecision, Undecided
  <2>2. g0 \in SessionOf(h) /\ session[g0][t] = "allow"
    BY <1>2, <2>1 DEF StoredDecision
  <2>3. g0 = h
    BY <2>2 DEF SessionOf
  <2> QED BY <2>2, <2>3 DEF ApprovalInv, AllowsAreGranted
<1> QED BY <1>1, <1>2

LEMMA ApprovalStep == ApprovalInv /\ [ApprovalNext]_approvalVars => ApprovalInv'
<1> SUFFICES ASSUME ApprovalInv, [ApprovalNext]_approvalVars PROVE ApprovalInv'
  OBVIOUS
<1> USE ApprovalAssumption DEF ApprovalInv
<1>1. ASSUME NEW c \in Call, NEW h \in Chat, Execute(c, h) PROVE ApprovalInv'
  <2> DEFINE decision == StoredDecision(h, call[c].category)
             at1 == CASE decision = "allow" -> "ran"
                      [] decision = "deny"  -> "denied"
                      [] OTHER              -> "asking"
  <2>1. /\ call' = [call EXCEPT ![c].chat = h, ![c].at = at1]
        /\ durable' = [durable EXCEPT ![h] = IF stored THEN {Durable(h)} ELSE durable[h]]
        /\ UNCHANGED <<stored, file, session, writing, turns, own, granted, lastWord,
                       collided>>
    BY <1>1 DEF Execute, ApprovalTypeOK
  <2>2. at1 \in {"ran", "denied", "asking"} /\ (at1 = "ran" => decision = "allow")
    OBVIOUS
  <2>3. call[c].category \in Category
    BY DEF ApprovalTypeOK
  <2>4. Durable(h) \in [Category -> Standing]
    BY Reading
  <2>5. /\ call' \in [Call -> [chat : Chat \cup {NoChat}, category : Category,
                       at : {"unmade", "asking", "ran", "denied", "aborted", "gone"}]]
        /\ \A d \in Call : call'[d].category = call[d].category
        /\ call'[c].chat = h /\ call'[c].at = at1
        /\ \A d \in Call : d # c => call'[d] = call[d]
    <3>1. at1 \in {"unmade", "asking", "ran", "denied", "aborted", "gone"}
      BY <2>2
    <3>2. call' = [call EXCEPT ![c] = [call[c] EXCEPT !.chat = h, !.at = at1]]
      BY <2>1 DEF ApprovalTypeOK
    <3> HIDE DEF at1
    <3> QED BY <3>1, <3>2 DEF ApprovalTypeOK
  <2>6. ApprovalTypeOK'
    <3>1. durable' \in [Chat -> SUBSET [Category -> Standing]]
      BY <2>1, <2>4 DEF ApprovalTypeOK
    <3>2. \A g \in Chat : \A d, e \in durable'[g] : d = e
      BY <2>1 DEF ApprovalTypeOK
    <3> QED BY <2>1, <2>5, <3>1, <3>2 DEF ApprovalTypeOK
  <2>7. AskingHasChat'
    BY <2>5 DEF AskingHasChat
  <2>8. AllowsAreGranted'
    <3>1. UNCHANGED <<file, session, writing, granted>>
      BY <2>1
    <3>2. \A g \in Chat : \A d \in durable'[g] : d \in durable[g] \/ d = Durable(h)
      BY <2>1 DEF ApprovalTypeOK
    <3>3. \A u \in Category : Durable(h)[u] = "allow" => <<"all", u>> \in granted
      BY Reading
    <3>4. \A g \in Chat : \A d \in durable'[g], u \in Category :
            d[u] = "allow" => <<"all", u>> \in granted'
      BY <3>1, <3>2, <3>3 DEF AllowsAreGranted
    <3>5. \A p \in Process : \A w \in writing[p] : w.call \in Call
      BY DEF ApprovalTypeOK, Put
    <3>6. \A p \in Process : \A w \in writing'[p] :
            /\ w.verdict = "allow" => <<"all", call'[w.call].category>> \in granted'
            /\ \A u \in Category : w.loaded[u] = "allow" => <<"all", u>> \in granted'
      BY <2>5, <3>1, <3>5 DEF AllowsAreGranted
    <3> QED BY <3>1, <3>4, <3>6 DEF AllowsAreGranted
  <2>9. AllowedByTheUser'
    BY <2>1, <2>2, <2>3, <2>5, Deciding DEF AllowedByTheUser
  <2>10. WriterIsAlone' /\ LastWordStands'
    BY <2>1 DEF WriterIsAlone, LastWordStands, Busy
  <2> QED BY <2>6, <2>7, <2>8, <2>9, <2>10
<1>2. ASSUME NEW c \in Call, NEW kind \in Kind, Answers(c, kind) PROVE ApprovalInv'
  <2> DEFINE h == call[c].chat
             t == call[c].category
             put == [call |-> c, verdict |-> kind.verdict, loaded |-> Loaded(h)]
  <2>1. /\ h \in Chat /\ t \in Category /\ Home[h] \in Process
        /\ call[c].at = "asking" /\ ~Busy(Home[h])
    BY <1>2 DEF Answers, AskingHasChat, ApprovalTypeOK
  <2>2. /\ own' = IF kind.verdict = "allow" THEN own \cup {c} ELSE own
        /\ session' = IF ForSession(kind) THEN [session EXCEPT ![h][t] = kind.verdict]
                      ELSE session
        /\ granted' = IF kind.verdict # "allow" THEN granted
                      ELSE granted \cup (IF ForSession(kind) THEN {<<h, t>>} ELSE {})
                                   \cup (IF ForAll(kind) THEN {<<"all", t>>} ELSE {})
        /\ UNCHANGED <<stored, file, durable, turns, lastWord>>
    BY <1>2 DEF Answers
  <2>3. kind.scope \in {"session", "always"} => kind.verdict \in {"allow", "deny"}
    BY DEF Kind
  <2>4. granted \subseteq granted'
    BY <2>2
  <2>5. /\ own' \subseteq Call /\ own \subseteq own'
        /\ granted' \subseteq (Chat \cup {"all"}) \X Category
        /\ session' \in [Chat -> [Category -> Standing]]
    <3>1. granted' \subseteq (Chat \cup {"all"}) \X Category
      BY <2>1, <2>2 DEF ApprovalTypeOK
    <3>2. session' \in [Chat -> [Category -> Standing]]
      BY <2>1, <2>2, <2>3 DEF ApprovalTypeOK, ForSession, Standing
    <3> QED BY <2>2, <3>1, <3>2 DEF ApprovalTypeOK
  <2>6. \A g \in Chat, u \in Category : session'[g][u] = "allow" => <<g, u>> \in granted'
    <3>1. CASE ForSession(kind)
      BY <2>1, <2>2, <2>4, <3>1 DEF AllowsAreGranted, ApprovalTypeOK
    <3>2. CASE ~ForSession(kind)
      BY <2>2, <2>4, <3>2 DEF AllowsAreGranted
    <3> QED BY <3>1, <3>2
  <2>7. CASE ForAll(kind)
    <3>1. /\ writing' = [writing EXCEPT ![Home[h]] = {put}]
          /\ collided' = (collided \/ \E p \in Process : Busy(p))
          /\ call' = call
      BY <1>2, <2>7 DEF Answers
    <3>2. put \in Put
      BY <2>3, <2>7 DEF ForAll, Put, Loaded, ApprovalTypeOK
    <3>3. writing' \in [Process -> SUBSET Put]
      BY <2>1, <3>1, <3>2 DEF ApprovalTypeOK
    <3>4. \A p \in Process : \A v, w \in writing'[p] : v = w
      BY <2>1, <3>1 DEF ApprovalTypeOK
    <3>5. ApprovalTypeOK'
      BY <2>2, <2>5, <3>1, <3>3, <3>4 DEF ApprovalTypeOK
    <3>6. \A p \in Process : \A w \in writing'[p] : w = put \/ w \in writing[p]
      BY <2>1, <3>1 DEF ApprovalTypeOK
    <3>7. put.verdict = "allow" => <<"all", t>> \in granted'
      BY <2>2, <2>7
    <3>8. AllowsAreGranted'
      <4>1. \A g \in Chat : \A d \in durable'[g], u \in Category :
              d[u] = "allow" => <<"all", u>> \in granted'
        BY <2>2, <2>4 DEF AllowsAreGranted
      <4>2. \A u \in Category : file'[u] = "allow" => <<"all", u>> \in granted'
        BY <2>2, <2>4 DEF AllowsAreGranted
      <4>3. ASSUME NEW p \in Process, NEW w \in writing'[p]
            PROVE  /\ w.verdict = "allow" => <<"all", call'[w.call].category>> \in granted'
                   /\ \A u \in Category : w.loaded[u] = "allow" => <<"all", u>> \in granted'
        <5>1. CASE w = put
          BY <2>2, <3>1, <3>7, <4>2, <5>1 DEF Loaded
        <5>2. CASE w \in writing[p]
          BY <2>4, <3>1, <5>2 DEF AllowsAreGranted
        <5> QED BY <3>6, <5>1, <5>2
      <4> QED BY <2>6, <4>1, <4>2, <4>3 DEF AllowsAreGranted
    <3>9. AllowedByTheUser' /\ AskingHasChat'
      BY <2>4, <2>5, <3>1 DEF AllowedByTheUser, AskingHasChat
    <3>10. WriterIsAlone' /\ LastWordStands'
      <4> SUFFICES ASSUME ~collided'
                   PROVE  /\ \A p, q \in Process : Busy(p)' /\ Busy(q)' => p = q
                          /\ \A p \in Process : \A w \in writing'[p] : w.loaded = file'
                          /\ file' = lastWord'
        BY DEF WriterIsAlone, LastWordStands
      <4>1. ~collided /\ \A p \in Process : writing[p] = {}
        BY <3>1 DEF Busy
      <4>2. \A p \in Process : writing'[p] # {} => p = Home[h]
        BY <3>1, <4>1 DEF ApprovalTypeOK
      <4>3. \A p \in Process : \A w \in writing'[p] : w.loaded = file'
        BY <2>2, <3>6, <4>1 DEF Loaded
      <4>4. file' = lastWord'
        BY <2>2, <4>1 DEF LastWordStands
      <4> QED BY <4>2, <4>3, <4>4 DEF Busy
    <3> QED BY <3>5, <3>8, <3>9, <3>10
  <2>8. CASE ~ForAll(kind)
    <3>1. /\ call' = [call EXCEPT ![c].at = Outcome(kind)]
          /\ UNCHANGED <<writing, collided>>
      BY <1>2, <2>8 DEF Answers
    <3>2. /\ Outcome(kind) \in {"ran", "aborted", "denied"}
          /\ Outcome(kind) = "ran" => kind.verdict = "allow"
      BY DEF Outcome
    <3>3. /\ call' \in [Call -> [chat : Chat \cup {NoChat}, category : Category,
                       at : {"unmade", "asking", "ran", "denied", "aborted", "gone"}]]
          /\ \A d \in Call : call'[d].category = call[d].category /\ call'[d].chat = call[d].chat
          /\ call'[c].at = Outcome(kind)
          /\ \A d \in Call : d # c => call'[d].at = call[d].at
      BY <3>1, <3>2 DEF ApprovalTypeOK
    <3>4. ApprovalTypeOK'
      BY <2>2, <2>5, <3>1, <3>3 DEF ApprovalTypeOK
    <3>5. \A p \in Process : \A w \in writing[p] : w.call \in Call
      BY DEF ApprovalTypeOK, Put
    <3>6. AllowsAreGranted'
      <4>1. UNCHANGED <<file, durable, writing>>
        BY <2>2, <3>1
      <4>2. \A g \in Chat : \A d \in durable'[g], u \in Category :
              d[u] = "allow" => <<"all", u>> \in granted'
        BY <2>4, <4>1 DEF AllowsAreGranted
      <4>3. \A p \in Process : \A w \in writing'[p] :
              /\ w.verdict = "allow" => <<"all", call'[w.call].category>> \in granted'
              /\ \A u \in Category : w.loaded[u] = "allow" => <<"all", u>> \in granted'
        BY <2>4, <3>3, <3>5, <4>1 DEF AllowsAreGranted
      <4>4. \A u \in Category : file'[u] = "allow" => <<"all", u>> \in granted'
        BY <2>4, <4>1 DEF AllowsAreGranted
      <4> QED BY <2>6, <4>2, <4>3, <4>4 DEF AllowsAreGranted
    <3>7. AskingHasChat'
      BY <3>2, <3>3 DEF AskingHasChat
    <3>8. AllowedByTheUser'
      BY <2>2, <2>4, <2>5, <3>2, <3>3 DEF AllowedByTheUser
    <3>9. WriterIsAlone' /\ LastWordStands'
      BY <2>2, <3>1 DEF WriterIsAlone, LastWordStands, Busy
    <3> QED BY <3>4, <3>6, <3>7, <3>8, <3>9
  <2> QED BY <2>7, <2>8
<1>3. ASSUME NEW p \in Process, Replaced(p) PROVE ApprovalInv'
  <2>1. PICK put \in writing[p] :
          LET c == put.call
              h == call[c].chat
              t == call[c].category
          IN  /\ file' = [put.loaded EXCEPT ![t] = put.verdict]
              /\ lastWord' = [lastWord EXCEPT ![t] = put.verdict]
              /\ durable' = [durable EXCEPT ![h] = {[d EXCEPT ![t] = put.verdict] : d \in durable[h]}]
              /\ call' = [call EXCEPT ![c].at = IF put.verdict = "allow" THEN "ran" ELSE "denied"]
              /\ writing' = [writing EXCEPT ![p] = {}]
              /\ UNCHANGED <<stored, session, turns, own, granted, collided>>
    BY <1>3 DEF Replaced
  <2> DEFINE c == put.call
             h == call[c].chat
             t == call[c].category
             at1 == IF put.verdict = "allow" THEN "ran" ELSE "denied"
  <2>2. /\ put \in Put /\ c \in Call /\ t \in Category
        /\ put.loaded \in [Category -> Standing] /\ put.verdict \in Standing
    BY DEF ApprovalTypeOK, Put, Standing
  <2>3. /\ put.verdict = "allow" => <<"all", t>> \in granted
        /\ \A u \in Category : put.loaded[u] = "allow" => <<"all", u>> \in granted
    BY DEF AllowsAreGranted
  <2>4. /\ call' \in [Call -> [chat : Chat \cup {NoChat}, category : Category,
                     at : {"unmade", "asking", "ran", "denied", "aborted", "gone"}]]
        /\ \A d \in Call : call'[d].category = call[d].category /\ call'[d].chat = call[d].chat
        /\ call'[c].at = at1
        /\ \A d \in Call : d # c => call'[d].at = call[d].at
    BY <2>1, <2>2 DEF ApprovalTypeOK
  <2>5. \A g \in Chat : \A d \in durable'[g] :
          \E e \in durable[g] : d = e \/ d = [e EXCEPT ![t] = put.verdict]
    BY <2>1 DEF ApprovalTypeOK
  <2>6. /\ durable' \in [Chat -> SUBSET [Category -> Standing]]
        /\ \A g \in Chat : \A d, e \in durable'[g] : d = e
    <3>1. \A e \in [Category -> Standing] : [e EXCEPT ![t] = put.verdict] \in [Category -> Standing]
      BY <2>2
    <3>2. durable' = [durable EXCEPT ![h] = {[d EXCEPT ![t] = put.verdict] : d \in durable[h]}]
      BY <2>1
    <3>3. /\ durable \in [Chat -> SUBSET [Category -> Standing]]
          /\ \A g \in Chat : \A d, e \in durable[g] : d = e
      BY DEF ApprovalTypeOK
    <3> HIDE DEF h, t
    <3>4. ASSUME NEW g \in Chat
          PROVE  /\ durable'[g] \in SUBSET [Category -> Standing]
                 /\ \A d, e \in durable'[g] : d = e
      <4>1. CASE g = h
        <5>1. durable'[g] = {[d EXCEPT ![t] = put.verdict] : d \in durable[g]}
          BY <3>2, <3>3, <4>1
        <5> QED BY <3>1, <3>3, <5>1
      <4>2. CASE g # h
        BY <3>2, <3>3, <4>2
      <4> QED BY <4>1, <4>2
    <3>5. durable' = [g \in Chat |-> durable'[g]]
      BY <3>2, <3>3
    <3> QED BY <3>4, <3>5
  <2>7. /\ writing' \in [Process -> SUBSET Put]
        /\ \A q \in Process : writing'[q] \subseteq writing[q]
        /\ writing'[p] = {}
    BY <2>1 DEF ApprovalTypeOK
  <2>8. ApprovalTypeOK'
    <3>1. file' \in [Category -> Standing] /\ lastWord' \in [Category -> Standing]
      BY <2>1, <2>2 DEF ApprovalTypeOK
    <3>2. UNCHANGED <<stored, session, turns, own, granted, collided>>
      BY <2>1
    <3>3. \A q \in Process : \A v, w \in writing'[q] : v = w
      BY <2>7 DEF ApprovalTypeOK
    <3>4. call' \in [Call -> [chat : Chat \cup {NoChat}, category : Category,
                     at : {"unmade", "asking", "ran", "denied", "aborted", "gone"}]]
      BY <2>4
    <3> QED BY <2>6, <2>7, <3>1, <3>2, <3>3, <3>4 DEF ApprovalTypeOK
  <2>9. AskingHasChat'
    BY <2>4 DEF AskingHasChat
  <2>10. AllowsAreGranted'
    <3>1. \A g \in Chat, u \in Category : session'[g][u] = "allow" => <<g, u>> \in granted'
      BY <2>1 DEF AllowsAreGranted
    <3>2. \A u \in Category : file'[u] = "allow" => <<"all", u>> \in granted'
      BY <2>1, <2>2, <2>3
    <3>3. ASSUME NEW g \in Chat, NEW d \in durable'[g], NEW u \in Category, d[u] = "allow"
          PROVE <<"all", u>> \in granted'
      <4>1. PICK e \in durable[g] : d = e \/ d = [e EXCEPT ![t] = put.verdict]
        BY <2>5
      <4>2. e \in [Category -> Standing]
        BY DEF ApprovalTypeOK
      <4>3. e[u] = "allow" \/ (u = t /\ put.verdict = "allow")
        BY <3>3, <4>1, <4>2
      <4> QED BY <2>1, <2>3, <4>3 DEF AllowsAreGranted
    <3>4. \A q \in Process : \A w \in writing'[q] :
            /\ w.verdict = "allow" => <<"all", call'[w.call].category>> \in granted'
            /\ \A u \in Category : w.loaded[u] = "allow" => <<"all", u>> \in granted'
      <4>1. \A q \in Process : \A w \in writing[q] : w.call \in Call
        BY DEF ApprovalTypeOK, Put
      <4>2. granted' = granted
        BY <2>1
      <4> QED BY <2>4, <2>7, <4>1, <4>2 DEF AllowsAreGranted
    <3> QED BY <3>1, <3>2, <3>3, <3>4 DEF AllowsAreGranted
  <2>11. AllowedByTheUser'
    BY <2>1, <2>3, <2>4 DEF AllowedByTheUser
  <2>12. WriterIsAlone' /\ LastWordStands'
    <3> SUFFICES ASSUME ~collided'
                 PROVE  /\ \A q \in Process : writing'[q] = {}
                        /\ file' = lastWord'
      BY DEF WriterIsAlone, LastWordStands, Busy
    <3>1. ~collided /\ Busy(p)
      BY <2>1 DEF Busy
    <3>2. \A q \in Process : q # p => writing[q] = {}
      BY <3>1 DEF WriterIsAlone, Busy
    <3>3. put.loaded = lastWord
      BY <3>1 DEF WriterIsAlone, LastWordStands
    <3> QED BY <2>1, <2>7, <3>2, <3>3
  <2> QED BY <2>8, <2>9, <2>10, <2>11, <2>12
<1>4. ASSUME NEW h \in Chat, NextTurn(h) PROVE ApprovalInv'
  <2>1. /\ turns < MaxBegun /\ turns' = turns + 1
        /\ durable' = [durable EXCEPT ![h] = Unread]
        /\ call' = [c \in Call |-> IF c \in CallsOf(h) /\ call[c].at = "asking"
                                   THEN [call[c] EXCEPT !.at = "gone"] ELSE call[c]]
        /\ UNCHANGED <<stored, file, session, writing, own, granted, lastWord, collided>>
    BY <1>4 DEF NextTurn
  <2>2. /\ call' \in [Call -> [chat : Chat \cup {NoChat}, category : Category,
                     at : {"unmade", "asking", "ran", "denied", "aborted", "gone"}]]
        /\ \A d \in Call : call'[d].category = call[d].category /\ call'[d].chat = call[d].chat
        /\ \A d \in Call : call'[d].at \in {call[d].at, "gone"}
    BY <2>1 DEF ApprovalTypeOK
  <2>3. ApprovalTypeOK'
    <3>1. turns' \in 0..MaxBegun
      BY <2>1 DEF ApprovalTypeOK
    <3>2. /\ durable' \in [Chat -> SUBSET [Category -> Standing]]
          /\ \A g \in Chat : \A d, e \in durable'[g] : d = e
      BY <2>1 DEF ApprovalTypeOK, Unread
    <3> QED BY <2>1, <2>2, <3>1, <3>2 DEF ApprovalTypeOK
  <2>4. AskingHasChat' /\ AllowedByTheUser'
    BY <2>1, <2>2 DEF AskingHasChat, AllowedByTheUser
  <2>5. AllowsAreGranted'
    <3>1. \A p \in Process : \A w \in writing[p] : w.call \in Call
      BY DEF ApprovalTypeOK, Put
    <3>2. \A g \in Chat : durable'[g] \subseteq durable[g]
      BY <2>1 DEF ApprovalTypeOK, Unread
    <3>3. /\ \A g \in Chat, t \in Category : session'[g][t] = "allow" => <<g, t>> \in granted'
          /\ \A t \in Category : file'[t] = "allow" => <<"all", t>> \in granted'
      BY <2>1 DEF AllowsAreGranted
    <3>4. \A g \in Chat : \A d \in durable'[g], t \in Category :
            d[t] = "allow" => <<"all", t>> \in granted'
      BY <2>1, <3>2 DEF AllowsAreGranted
    <3>5. \A p \in Process : \A w \in writing'[p] :
            /\ w.verdict = "allow" => <<"all", call'[w.call].category>> \in granted'
            /\ \A t \in Category : w.loaded[t] = "allow" => <<"all", t>> \in granted'
      BY <2>1, <2>2, <3>1 DEF AllowsAreGranted
    <3> QED BY <3>3, <3>4, <3>5 DEF AllowsAreGranted
  <2>6. WriterIsAlone' /\ LastWordStands'
    BY <2>1 DEF WriterIsAlone, LastWordStands, Busy
  <2> QED BY <2>3, <2>4, <2>5, <2>6
<1>5. ASSUME NEW p \in Process, Dies(p) PROVE ApprovalInv'
  <2> DEFINE lost == {h \in Chat : Home[h] = p}
  <2>1. /\ turns < MaxBegun /\ turns' = turns + 1
        /\ session' = [h \in Chat |-> IF h \in lost THEN Blank ELSE session[h]]
        /\ durable' = [h \in Chat |-> IF h \in lost THEN Unread ELSE durable[h]]
        /\ writing' = [writing EXCEPT ![p] = {}]
        /\ call' = [c \in Call |-> IF call[c].chat \in lost THEN [call[c] EXCEPT !.at = "gone"]
                                   ELSE call[c]]
        /\ granted' = {g \in granted : g[1] \notin lost}
        /\ UNCHANGED <<stored, file, own, lastWord, collided>>
    BY <1>5 DEF Dies
  <2>2. /\ call' \in [Call -> [chat : Chat \cup {NoChat}, category : Category,
                     at : {"unmade", "asking", "ran", "denied", "aborted", "gone"}]]
        /\ \A d \in Call : call'[d].category = call[d].category /\ call'[d].chat = call[d].chat
        /\ \A d \in Call : call'[d].at = IF call[d].chat \in lost THEN "gone" ELSE call[d].at
    <3>1. /\ call \in [Call -> [chat : Chat \cup {NoChat}, category : Category,
                     at : {"unmade", "asking", "ran", "denied", "aborted", "gone"}]]
          /\ call' = [d \in Call |-> IF call[d].chat \in lost THEN [call[d] EXCEPT !.at = "gone"]
                                    ELSE call[d]]
      BY <2>1 DEF ApprovalTypeOK
    <3> HIDE DEF lost
    <3> QED BY <3>1
  <2>3. /\ \A u \in Category : <<"all", u>> \in granted => <<"all", u>> \in granted'
        /\ \A g, u : <<g, u>> \in granted /\ g \notin lost => <<g, u>> \in granted'
    BY <2>1
  <2>4. Blank \in [Category -> Standing] /\ \A u \in Category : Blank[u] # "allow"
    BY DEF Blank, Standing, Undecided
  <2>5. /\ writing' \in [Process -> SUBSET Put]
        /\ \A q \in Process : writing'[q] \subseteq writing[q]
    <3>1. writing \in [Process -> SUBSET Put] /\ writing' = [writing EXCEPT ![p] = {}]
      BY <2>1 DEF ApprovalTypeOK
    <3> HIDE DEF lost
    <3> QED BY <3>1
  <2>6. ApprovalTypeOK'
    <3>1. turns' \in 0..MaxBegun /\ granted' \subseteq (Chat \cup {"all"}) \X Category
      BY <2>1 DEF ApprovalTypeOK
    <3>2. /\ durable' \in [Chat -> SUBSET [Category -> Standing]]
          /\ \A g \in Chat : \A d, e \in durable'[g] : d = e
          /\ session' \in [Chat -> [Category -> Standing]]
      BY <2>1, <2>4 DEF ApprovalTypeOK, Unread
    <3> QED BY <2>1, <2>2, <2>5, <3>1, <3>2 DEF ApprovalTypeOK
  <2>7. AskingHasChat'
    BY <2>2 DEF AskingHasChat
  <2>8. AllowedByTheUser'
    BY <2>1, <2>2, <2>3 DEF AllowedByTheUser, ApprovalTypeOK
  <2>9. AllowsAreGranted'
    <3>1. \A q \in Process : \A w \in writing[q] : w.call \in Call
      BY DEF ApprovalTypeOK, Put
    <3>2. \A q \in Process : \A w \in writing[q] : call[w.call].category \in Category
      BY <3>1 DEF ApprovalTypeOK
    <3>3. \A g \in Chat, u \in Category : session'[g][u] = "allow" => <<g, u>> \in granted'
      BY <2>1, <2>3, <2>4 DEF AllowsAreGranted
    <3>4. \A g \in Chat : durable'[g] \subseteq durable[g]
      BY <2>1 DEF Unread
    <3>5. \A g \in Chat : \A d \in durable'[g], u \in Category :
            d[u] = "allow" => <<"all", u>> \in granted'
      BY <2>3, <3>4 DEF AllowsAreGranted
    <3>6. \A u \in Category : file'[u] = "allow" => <<"all", u>> \in granted'
      BY <2>1, <2>3 DEF AllowsAreGranted
    <3>7. \A q \in Process : \A w \in writing'[q] :
            /\ w.verdict = "allow" => <<"all", call'[w.call].category>> \in granted'
            /\ \A u \in Category : w.loaded[u] = "allow" => <<"all", u>> \in granted'
      BY <2>2, <2>3, <2>5, <3>1, <3>2 DEF AllowsAreGranted
    <3> QED BY <3>3, <3>5, <3>6, <3>7 DEF AllowsAreGranted
  <2>10. WriterIsAlone' /\ LastWordStands'
    BY <2>1, <2>5 DEF WriterIsAlone, LastWordStands, Busy
  <2> QED BY <2>6, <2>7, <2>8, <2>9, <2>10
<1>6. CASE UNCHANGED approvalVars
  <2>1. ApprovalTypeOK'
    BY <1>6 DEF approvalVars, ApprovalTypeOK
  <2>2. AllowsAreGranted'
    BY <1>6 DEF approvalVars, AllowsAreGranted
  <2>3. AskingHasChat' /\ AllowedByTheUser'
    BY <1>6 DEF approvalVars, AskingHasChat, AllowedByTheUser
  <2>4. WriterIsAlone' /\ LastWordStands'
    BY <1>6 DEF approvalVars, WriterIsAlone, LastWordStands, Busy
  <2> QED BY <2>1, <2>2, <2>3, <2>4
<1> QED BY <1>1, <1>2, <1>3, <1>4, <1>5, <1>6 DEF ApprovalNext

\* Every variable keeps its type.
THEOREM ApprovalTypes == ApprovalSpec => []ApprovalTypeOK
<1>1. ApprovalInv => ApprovalTypeOK
  BY DEF ApprovalInv
<1> QED BY <1>1, ApprovalInitially, ApprovalStep, PTL DEF ApprovalSpec

\* A call that runs was allowed by the user, for itself or by an allow that
\* stands: whatever the turn had read and whenever, whichever processes died.
THEOREM RunsAreAllowed == ApprovalSpec => []AllowedByTheUser
<1>1. ApprovalInv => AllowedByTheUser
  BY DEF ApprovalInv
<1> QED BY <1>1, ApprovalInitially, ApprovalStep, PTL DEF ApprovalSpec

\* The file has the last word of the user's on every category, as long as no
\* two processes wrote it at once.
THEOREM FileHasTheLastWord == ApprovalSpec => []LastWordStands
<1>1. ApprovalInv => LastWordStands
  BY DEF ApprovalInv
<1> QED BY <1>1, ApprovalInitially, ApprovalStep, PTL DEF ApprovalSpec
-----------------------------------------------------------------------------
Alive(r) == worker[r] \notin {"none", "gone"}

\* What the end of a run knows: the worker is gone when `out` ends, it is the
\* last to schedule, and nothing it scheduled is left when the tasks are wound
\* down.
WoundDown(r) ==
  /\ worker[r] = "none" => /\ \A k \in ToolSlot : toolTask[r][k] = "none"
                           /\ \A s \in StreamId : collector[r][s] = "none"
  /\ taking[r] = "end" => worker[r] = "gone"
  /\ run[r] \in {"none", "due"} => worker[r] = "none"
  /\ run[r] \in {"leaving", "ended", "failed"} => ~Alive(r)
  /\ run[r] = "leaving" =>
       /\ \A k \in ToolSlot : toolTask[r][k] \in {"none", "cancelling"}
       /\ \A s \in StreamId : collector[r][s] \in {"none", "cancelling", "over"}
  /\ run[r] \in {"ended", "failed"} =>
       /\ \A k \in ToolSlot : toolTask[r][k] = "none"
       /\ \A s \in StreamId : collector[r][s] \in {"none", "over"}

BridgeInv == BridgeTypeOK /\ \A r \in LoopRun : WoundDown(r)

LEMMA BridgeInitially == BridgeInit => BridgeInv
<1> SUFFICES ASSUME BridgeInit PROVE BridgeInv
  OBVIOUS
<1>1. BridgeTypeOK
  <2>1. /\ interrupts \in BOOLEAN /\ sticky \in BOOLEAN /\ missed \subseteq LoopRun
    BY DEF BridgeInit
  <2>8. installed \in Seq(LoopRun)
    BY DEF BridgeInit
  <2>2. steered \in [Message -> [at : {"unsent", "inbox", "queue", "read"},
                       queue : LoopRun \cup {NoRun}, meant : LoopRun \cup {NoRun}]]
    BY DEF BridgeInit
  <2>3. /\ run \in [LoopRun -> {"none", "due", "open", "leaving", "ended", "failed", "killed"}]
        /\ taking \in [LoopRun -> {"empty", "event", "held", "end"}]
    BY DEF BridgeInit
  <2>4. toolTask \in [LoopRun -> [ToolSlot -> TaskState]]
    BY DEF BridgeInit, TaskState
  <2>5. collector \in [LoopRun -> [StreamId -> TaskState \cup {"over"}]]
    BY DEF BridgeInit, TaskState
  <2>6. frames \in [LoopRun -> [StreamId -> Seq({"chunk", "done", "error"})]]
    BY DEF BridgeInit
  <2>7. /\ worker \in [LoopRun -> {"none", "polling", "clear", "stopping", "opening", "reading",
              "calling", "emitting", "closing", "finishing", "gone"}]
        /\ reading \in [LoopRun -> StreamId \cup {NoStream}]
        /\ flag \in [LoopRun -> BOOLEAN] /\ raised \in [LoopRun -> BOOLEAN]
    BY DEF BridgeInit
  <2> QED BY <2>1, <2>2, <2>3, <2>4, <2>5, <2>6, <2>7, <2>8 DEF BridgeTypeOK
<1>2. \A r \in LoopRun : WoundDown(r)
  BY DEF BridgeInit, WoundDown, Alive
<1> QED BY <1>1, <1>2 DEF BridgeInv

\* A cancel turns running tasks into tasks that wind down, and starts none.
LEMMA Cancelling ==
  ASSUME BridgeInv, NEW reached, CancelTasks(reached)
  PROVE  /\ toolTask' \in [LoopRun -> [ToolSlot -> TaskState]]
         /\ collector' \in [LoopRun -> [StreamId -> TaskState \cup {"over"}]]
         /\ \A r \in LoopRun, k \in ToolSlot :
              \/ toolTask'[r][k] = toolTask[r][k]
              \/ toolTask'[r][k] = "cancelling" /\ <<"tool", k>> \in reached[r]
         /\ \A r \in LoopRun, s \in StreamId :
              \/ collector'[r][s] = collector[r][s]
              \/ collector'[r][s] = "cancelling" /\ <<"stream", s>> \in reached[r]
BY DEF BridgeInv, BridgeTypeOK, CancelTasks, TaskState

\* cancel_now, from whichever run, reaches running tasks only.
LEMMA CancellingRunning ==
  ASSUME BridgeInv, NEW reached, CancelTasks(reached), NEW r \in LoopRun,
         reached[r] \subseteq Reached(r)
  PROVE  /\ \A k \in ToolSlot : \/ toolTask'[r][k] = toolTask[r][k]
                                \/ toolTask[r][k] = "running" /\ toolTask'[r][k] = "cancelling"
         /\ \A s \in StreamId : \/ collector'[r][s] = collector[r][s]
                                \/ collector[r][s] = "running" /\ collector'[r][s] = "cancelling"
<1>1. \A k \in ToolSlot : <<"tool", k>> \in Reached(r) => toolTask[r][k] = "running"
  BY DEF Reached
<1>2. \A s \in StreamId : <<"stream", s>> \in Reached(r) => collector[r][s] = "running"
  BY DEF Reached
<1> QED BY <1>1, <1>2, Cancelling

LEMMA OfInstalledRunning == \A r \in LoopRun : OfInstalled[r] \subseteq Reached(r)
BY DEF OfInstalled

\* What is put into a stream's queue.
Frame == {"chunk", "done", "error"}

\* One queue of one run is replaced.
LEMMA Refilling ==
  ASSUME BridgeInv, NEW r \in LoopRun, NEW s \in StreamId, NEW queue \in Seq(Frame)
  PROVE  [frames EXCEPT ![r][s] = queue] \in [LoopRun -> [StreamId -> Seq(Frame)]]
BY DEF BridgeInv, BridgeTypeOK, Frame

LEMMA BridgeStep == BridgeInv /\ [BridgeNext]_bridgeVars => BridgeInv'
<1> SUFFICES ASSUME BridgeInv, [BridgeNext]_bridgeVars PROVE BridgeInv'
  OBVIOUS
<1> USE BridgeAssumption DEF BridgeInv, loopVars, asyncVars, workerVars
<1>1. ASSUME CancelLoop PROVE BridgeInv'
  <2>1. BridgeTypeOK'
    <3>2. /\ flag' = [r \in LoopRun |-> flag[r] \/ r \in Installed] /\ sticky' = TRUE
          /\ CancelTasks(OfInstalled) /\ missed' \subseteq LoopRun
          /\ UNCHANGED <<interrupts, installed, steered, run, taking, frames, worker, reading, raised>>
      BY <1>1 DEF CancelLoop, Installed, BridgeTypeOK
    <3>3. flag' \in [LoopRun -> BOOLEAN]
      BY <3>2
    <3> QED BY <3>2, <3>3, Cancelling DEF BridgeTypeOK
  <2>2. ASSUME NEW q \in LoopRun PROVE WoundDown(q)'
    <3>1. CancelTasks(OfInstalled) /\ UNCHANGED <<run, taking, worker>>
      BY <1>1 DEF CancelLoop
    <3> QED BY <3>1, CancellingRunning, OfInstalledRunning DEF WoundDown, Alive
  <2> QED BY <2>1, <2>2
<1>2. ASSUME NEW i \in Message, Steer(i) PROVE BridgeInv'
  <2>1. BridgeTypeOK'
    BY <1>2, Cancelling DEF Steer, BridgeTypeOK, TaskState, OfInstalled, Reached
  <2>2. ASSUME NEW q \in LoopRun PROVE WoundDown(q)'
    <3>1. UNCHANGED <<run, taking, worker>>
      BY <1>2 DEF Steer
    <3>2. CASE CancelTasks(OfInstalled)
      BY <3>1, <3>2, CancellingRunning, OfInstalledRunning DEF WoundDown, Alive
    <3>3. CASE UNCHANGED <<toolTask, collector>>
      BY <3>1, <3>3 DEF WoundDown, Alive
    <3> QED BY <1>2, <3>2, <3>3 DEF Steer
  <2> QED BY <2>1, <2>2
<1>3. ASSUME NEW r \in LoopRun, Resume(r) PROVE BridgeInv'
  <2>1. BridgeTypeOK'
    BY <1>3 DEF Resume, BridgeTypeOK, TaskState
  <2>2. ASSUME NEW q \in LoopRun PROVE WoundDown(q)'
    BY <1>3 DEF Resume, BridgeTypeOK, TaskState, WoundDown, Alive
  <2> QED BY <2>1, <2>2
<1>4. ASSUME NEW r \in LoopRun, BeginRun(r) PROVE BridgeInv'
  <2>1. BridgeTypeOK'
    <3>1. /\ run' \in [LoopRun -> {"none", "due", "open", "leaving", "ended", "failed", "killed"}]
          /\ worker' \in [LoopRun -> {"none", "polling", "clear", "stopping", "opening", "reading",
                "calling", "emitting", "closing", "finishing", "gone"}]
      BY <1>4 DEF BeginRun, BridgeTypeOK
    <3>3. flag' \in [LoopRun -> BOOLEAN]
      BY <1>4 DEF BeginRun, BridgeTypeOK
    <3>4. installed' \in Seq(LoopRun)
      <4>1. installed \in Seq(LoopRun) /\ installed' = Append(installed, r)
        BY <1>4 DEF BeginRun, BridgeTypeOK
      <4> QED BY <4>1
    <3>2. steered' \in [Message -> [at : {"unsent", "inbox", "queue", "read"},
                         queue : LoopRun \cup {NoRun}, meant : LoopRun \cup {NoRun}]]
      <4>1. ASSUME NEW i \in Message
            PROVE  [steered[i] EXCEPT !.at = "queue", !.queue = r]
                     \in [at : {"unsent", "inbox", "queue", "read"},
                          queue : LoopRun \cup {NoRun}, meant : LoopRun \cup {NoRun}]
        <5>1. steered[i] \in [at : {"unsent", "inbox", "queue", "read"},
                              queue : LoopRun \cup {NoRun}, meant : LoopRun \cup {NoRun}]
          BY DEF BridgeTypeOK
        <5> QED BY <5>1
      <4>2. steered' = [i \in Message |-> IF steered[i].at = "inbox"
              THEN [steered[i] EXCEPT !.at = "queue", !.queue = r] ELSE steered[i]]
        BY <1>4 DEF BeginRun
      <4> QED BY <4>1, <4>2 DEF BridgeTypeOK
    <3> QED BY <1>4, <3>1, <3>2, <3>3, <3>4 DEF BeginRun, BridgeTypeOK
  <2>2. ASSUME NEW q \in LoopRun PROVE WoundDown(q)'
    <3>1. /\ run[r] = "due" /\ run' = [run EXCEPT ![r] = "open"]
          /\ worker' = [worker EXCEPT ![r] = "polling"]
          /\ UNCHANGED <<taking, toolTask, collector>>
      BY <1>4 DEF BeginRun
    <3> QED BY <3>1 DEF BridgeTypeOK, WoundDown, Alive
  <2> QED BY <2>1, <2>2
<1>5. ASSUME NEW r \in LoopRun, PlanFails(r) PROVE BridgeInv'
  <2>1. BridgeTypeOK'
    BY <1>5 DEF PlanFails, BridgeTypeOK, TaskState
  <2>2. ASSUME NEW q \in LoopRun PROVE WoundDown(q)'
    BY <1>5 DEF PlanFails, BridgeTypeOK, TaskState, WoundDown, Alive
  <2> QED BY <2>1, <2>2
<1>6. ASSUME NEW r \in LoopRun, NEW s \in StreamId, OpenStream(r, s) PROVE BridgeInv'
  <2>1. BridgeTypeOK'
    BY <1>6 DEF OpenStream, BridgeTypeOK, TaskState, Becomes
  <2>2. ASSUME NEW q \in LoopRun PROVE WoundDown(q)'
    BY <1>6 DEF OpenStream, BridgeTypeOK, TaskState, WoundDown, Alive, Becomes
  <2> QED BY <2>1, <2>2
<1>7. ASSUME NEW r \in LoopRun, NextStreamChunk(r) PROVE BridgeInv'
  <2>1. BridgeTypeOK'
    BY <1>7 DEF NextStreamChunk, BridgeTypeOK, TaskState, Becomes
  <2>2. ASSUME NEW q \in LoopRun PROVE WoundDown(q)'
    BY <1>7 DEF NextStreamChunk, BridgeTypeOK, TaskState, WoundDown, Alive, Becomes
  <2> QED BY <2>1, <2>2
<1>8. ASSUME NEW r \in LoopRun, NEW batch \in SUBSET ToolSlot, ExecTools(r, batch) PROVE BridgeInv'
  <2>1. BridgeTypeOK'
    BY <1>8 DEF ExecTools, BridgeTypeOK, TaskState, Becomes
  <2>2. ASSUME NEW q \in LoopRun PROVE WoundDown(q)'
    BY <1>8 DEF ExecTools, BridgeTypeOK, TaskState, WoundDown, Alive, Becomes
  <2> QED BY <2>1, <2>2
<1>9. ASSUME NEW r \in LoopRun, Emit(r) PROVE BridgeInv'
  <2>1. BridgeTypeOK'
    BY <1>9 DEF Emit, BridgeTypeOK, TaskState, Becomes
  <2>2. ASSUME NEW q \in LoopRun PROVE WoundDown(q)'
    BY <1>9 DEF Emit, BridgeTypeOK, TaskState, WoundDown, Alive, Becomes
  <2> QED BY <2>1, <2>2
<1>10. ASSUME NEW r \in LoopRun, WorkerRaises(r) PROVE BridgeInv'
  <2>1. BridgeTypeOK'
    BY <1>10 DEF WorkerRaises, BridgeTypeOK, TaskState, Becomes
  <2>2. ASSUME NEW q \in LoopRun PROVE WoundDown(q)'
    BY <1>10 DEF WorkerRaises, BridgeTypeOK, TaskState, WoundDown, Alive, Becomes
  <2> QED BY <2>1, <2>2
<1>11. ASSUME NEW r \in LoopRun, PollControl(r) PROVE BridgeInv'
  <2>1. BridgeTypeOK'
    <3>1. steered' \in [Message -> [at : {"unsent", "inbox", "queue", "read"},
                         queue : LoopRun \cup {NoRun}, meant : LoopRun \cup {NoRun}]]
      <4>1. ASSUME NEW i \in Message
            PROVE  [steered[i] EXCEPT !.at = "read"]
                     \in [at : {"unsent", "inbox", "queue", "read"},
                          queue : LoopRun \cup {NoRun}, meant : LoopRun \cup {NoRun}]
        <5>1. steered[i] \in [at : {"unsent", "inbox", "queue", "read"},
                              queue : LoopRun \cup {NoRun}, meant : LoopRun \cup {NoRun}]
          BY DEF BridgeTypeOK
        <5> QED BY <5>1
      <4>2. steered' = [i \in Message |-> IF steered[i].at = "queue" /\ steered[i].queue = r
                          THEN [steered[i] EXCEPT !.at = "read"] ELSE steered[i]]
        BY <1>11 DEF PollControl
      <4> QED BY <4>1, <4>2 DEF BridgeTypeOK
    <3>2. worker' \in [LoopRun -> {"none", "polling", "clear", "stopping", "opening", "reading",
                "calling", "emitting", "closing", "finishing", "gone"}]
      BY <1>11 DEF PollControl, BridgeTypeOK, Becomes
    <3> QED BY <1>11, <3>1, <3>2 DEF PollControl, BridgeTypeOK
  <2>2. ASSUME NEW q \in LoopRun PROVE WoundDown(q)'
    BY <1>11 DEF PollControl, BridgeTypeOK, TaskState, WoundDown, Alive, Becomes
  <2> QED BY <2>1, <2>2
<1>12. ASSUME NEW r \in LoopRun, FirstFrame(r) PROVE BridgeInv'
  <2>1. BridgeTypeOK'
    BY <1>12 DEF FirstFrame, BridgeTypeOK, TaskState, Becomes
  <2>2. ASSUME NEW q \in LoopRun PROVE WoundDown(q)'
    BY <1>12 DEF FirstFrame, BridgeTypeOK, TaskState, WoundDown, Alive, Becomes
  <2> QED BY <2>1, <2>2
<1>13. ASSUME NEW r \in LoopRun, ChunkRead(r) PROVE BridgeInv'
  <2>1. BridgeTypeOK'
    <3>1. /\ reading' \in [LoopRun -> StreamId \cup {NoStream}]
          /\ worker' \in [LoopRun -> {"none", "polling", "clear", "stopping", "opening", "reading",
                "calling", "emitting", "closing", "finishing", "gone"}]
      BY <1>13 DEF ChunkRead, BridgeTypeOK, Becomes
    <3>2. CASE reading[r] \in StreamId
      <4>1. Tail(frames[r][reading[r]]) \in Seq(Frame)
        BY <1>13, <3>2 DEF ChunkRead, BridgeTypeOK, Frame
      <4>2. frames' = [frames EXCEPT ![r][reading[r]] = Tail(frames[r][reading[r]])]
        BY <1>13 DEF ChunkRead
      <4>3. frames' \in [LoopRun -> [StreamId -> Seq(Frame)]]
        BY <3>2, <4>1, <4>2, Refilling
      <4> QED BY <1>13, <3>1, <4>3 DEF ChunkRead, BridgeTypeOK, Frame
    <3>3. CASE reading[r] \notin StreamId
      <4>1. frames' = frames
        BY <1>13, <3>3 DEF ChunkRead, BridgeTypeOK
      <4> QED BY <1>13, <3>1, <4>1 DEF ChunkRead, BridgeTypeOK
    <3> QED BY <3>2, <3>3
  <2>2. ASSUME NEW q \in LoopRun PROVE WoundDown(q)'
    BY <1>13 DEF ChunkRead, BridgeTypeOK, TaskState, WoundDown, Alive, Becomes
  <2> QED BY <2>1, <2>2
<1>14. ASSUME NEW r \in LoopRun, ToolsAnswered(r) PROVE BridgeInv'
  <2>1. BridgeTypeOK'
    BY <1>14 DEF ToolsAnswered, BridgeTypeOK, TaskState, Becomes
  <2>2. ASSUME NEW q \in LoopRun PROVE WoundDown(q)'
    BY <1>14 DEF ToolsAnswered, BridgeTypeOK, TaskState, WoundDown, Alive, Becomes
  <2> QED BY <2>1, <2>2
<1>15. ASSUME NEW r \in LoopRun, WorkerEnds(r) PROVE BridgeInv'
  <2>1. BridgeTypeOK'
    BY <1>15 DEF WorkerEnds, BridgeTypeOK, TaskState, Becomes
  <2>2. ASSUME NEW q \in LoopRun PROVE WoundDown(q)'
    BY <1>15 DEF WorkerEnds, BridgeTypeOK, TaskState, WoundDown, Alive, Becomes
  <2> QED BY <2>1, <2>2
<1>16. ASSUME NEW r \in LoopRun, LeavesOff(r) PROVE BridgeInv'
  <2>1. BridgeTypeOK'
    BY <1>16 DEF LeavesOff, BridgeTypeOK, TaskState, Becomes
  <2>2. ASSUME NEW q \in LoopRun PROVE WoundDown(q)'
    BY <1>16 DEF LeavesOff, BridgeTypeOK, TaskState, WoundDown, Alive, Becomes
  <2> QED BY <2>1, <2>2
<1>17. ASSUME NEW r \in LoopRun, Take(r) PROVE BridgeInv'
  <2>1. BridgeTypeOK'
    BY <1>17 DEF Take, BridgeTypeOK, TaskState
  <2>2. ASSUME NEW q \in LoopRun PROVE WoundDown(q)'
    BY <1>17 DEF Take, BridgeTypeOK, TaskState, WoundDown, Alive
  <2> QED BY <2>1, <2>2
<1>18. ASSUME NEW r \in LoopRun, Release(r) PROVE BridgeInv'
  <2>1. BridgeTypeOK'
    BY <1>18 DEF Release, BridgeTypeOK, TaskState, Consumed
  <2>2. ASSUME NEW q \in LoopRun PROVE WoundDown(q)'
    BY <1>18 DEF Release, BridgeTypeOK, TaskState, WoundDown, Alive, Consumed
  <2> QED BY <2>1, <2>2
<1>19. ASSUME NEW r \in LoopRun, WindDown(r) PROVE BridgeInv'
  <2>1. BridgeTypeOK'
    BY <1>19, Cancelling DEF WindDown, BridgeTypeOK, TaskState, Remaining, Reached
  <2>2. ASSUME NEW q \in LoopRun PROVE WoundDown(q)'
    <3>1. /\ run[r] = "open" /\ taking[r] = "end" /\ worker[r] = "gone"
          /\ run' = [run EXCEPT ![r] = "leaving"] /\ taking' = [taking EXCEPT ![r] = "empty"]
          /\ worker' = worker /\ CancelTasks(Remaining(r))
          /\ Remaining(r)[q] \subseteq Reached(q)
      BY <1>19 DEF WindDown, WoundDown, Remaining
    <3>2. CASE q = r
      <4>1. \A k \in ToolSlot : toolTask'[r][k] \in {"none", "cancelling"}
        <5> SUFFICES ASSUME NEW k \in ToolSlot PROVE toolTask'[r][k] \in {"none", "cancelling"}
          OBVIOUS
        <5>1. toolTask[r][k] = "running" => <<"tool", k>> \in Remaining(r)[r]
          BY DEF Remaining, Reached
        <5>2. toolTask[r][k] \in TaskState /\ toolTask[r][k] # "scheduled"
          BY <1>19 DEF WindDown, BridgeTypeOK
        <5>3. toolTask'[r][k] = IF <<"tool", k>> \in Remaining(r)[r] THEN "cancelling"
                                ELSE toolTask[r][k]
          BY <3>1 DEF CancelTasks
        <5> QED BY <5>1, <5>2, <5>3 DEF TaskState
      <4>2. \A s \in StreamId : collector'[r][s] \in {"none", "cancelling", "over"}
        <5> SUFFICES ASSUME NEW s \in StreamId
                     PROVE  collector'[r][s] \in {"none", "cancelling", "over"}
          OBVIOUS
        <5>1. collector[r][s] = "running" => <<"stream", s>> \in Remaining(r)[r]
          BY DEF Remaining, Reached
        <5>2. collector[r][s] \in TaskState \cup {"over"} /\ collector[r][s] # "scheduled"
          BY <1>19 DEF WindDown, BridgeTypeOK
        <5>3. collector'[r][s] = IF <<"stream", s>> \in Remaining(r)[r] THEN "cancelling"
                                 ELSE collector[r][s]
          BY <3>1 DEF CancelTasks
        <5> QED BY <5>1, <5>2, <5>3 DEF TaskState
      <4> QED BY <3>1, <3>2, <4>1, <4>2 DEF BridgeTypeOK, WoundDown, Alive
    <3>3. CASE q # r
      <4>1. /\ \A k \in ToolSlot : \/ toolTask'[q][k] = toolTask[q][k]
                                   \/ toolTask[q][k] = "running" /\ toolTask'[q][k] = "cancelling"
            /\ \A s \in StreamId : \/ collector'[q][s] = collector[q][s]
                                   \/ collector[q][s] = "running" /\ collector'[q][s] = "cancelling"
        BY <3>1, CancellingRunning
      <4>2. run'[q] = run[q] /\ taking'[q] = taking[q] /\ worker'[q] = worker[q]
        BY <3>1, <3>3 DEF BridgeTypeOK
      <4> QED BY <4>1, <4>2 DEF WoundDown, Alive
    <3> QED BY <3>2, <3>3
  <2> QED BY <2>1, <2>2
<1>20. ASSUME NEW r \in LoopRun, Return(r) PROVE BridgeInv'
  <2>1. BridgeTypeOK'
    <3>1. installed' \in Seq(LoopRun)
      <4>1. SubSeq(installed, 1, Len(installed) - 1) \in Seq(LoopRun)
        <5>1. CASE Len(installed) = 0
          <6>1. SubSeq(installed, 1, Len(installed) - 1) = <<>>
            BY <5>1 DEF BridgeTypeOK
          <6>2. <<>> \in Seq(LoopRun)
            OBVIOUS
          <6> QED BY <6>1, <6>2
        <5>2. CASE Len(installed) # 0
          BY <5>2 DEF BridgeTypeOK
        <5> QED BY <5>1, <5>2
      <4>2. installed' = installed \/ installed' = SubSeq(installed, 1, Len(installed) - 1)
        BY <1>20 DEF Return
      <4> QED BY <4>1, <4>2 DEF BridgeTypeOK
    <3>2. run' \in [LoopRun -> {"none", "due", "open", "leaving", "ended", "failed", "killed"}]
      <4>1. run' = [run EXCEPT ![r] = "failed"] \/ run' = [run EXCEPT ![r] = "ended"]
        BY <1>20 DEF Return
      <4> QED BY <4>1 DEF BridgeTypeOK
    <3>3. frames' \in [LoopRun -> [StreamId -> Seq({"chunk", "done", "error"})]]
      <4>1. [s \in StreamId |-> <<>>] \in [StreamId -> Seq({"chunk", "done", "error"})]
        OBVIOUS
      <4> QED BY <1>20, <4>1 DEF Return, BridgeTypeOK
    <3>4. reading' \in [LoopRun -> StreamId \cup {NoStream}]
      BY <1>20 DEF Return, BridgeTypeOK
    <3> QED BY <1>20, <3>1, <3>2, <3>3, <3>4 DEF Return, BridgeTypeOK
  <2>2. ASSUME NEW q \in LoopRun PROVE WoundDown(q)'
    BY <1>20 DEF Return, BridgeTypeOK, TaskState, WoundDown, Alive, Gathered
  <2> QED BY <2>1, <2>2
<1>21. ASSUME NEW r \in LoopRun, Kill(r) PROVE BridgeInv'
  <2>1. BridgeTypeOK'
    BY <1>21 DEF Kill, BridgeTypeOK, TaskState, Consumed
  <2>2. ASSUME NEW q \in LoopRun PROVE WoundDown(q)'
    BY <1>21 DEF Kill, BridgeTypeOK, TaskState, WoundDown, Alive, Consumed
  <2> QED BY <2>1, <2>2
<1>22. ASSUME NEW r \in LoopRun, NEW k \in ToolSlot, StartTool(r, k) PROVE BridgeInv'
  <2>1. BridgeTypeOK'
    BY <1>22 DEF StartTool, BridgeTypeOK, TaskState
  <2>2. ASSUME NEW q \in LoopRun PROVE WoundDown(q)'
    BY <1>22 DEF StartTool, BridgeTypeOK, TaskState, WoundDown, Alive
  <2> QED BY <2>1, <2>2
<1>23. ASSUME NEW r \in LoopRun, NEW k \in ToolSlot, ToolEnds(r, k) PROVE BridgeInv'
  <2>1. BridgeTypeOK'
    BY <1>23 DEF ToolEnds, BridgeTypeOK, TaskState
  <2>2. ASSUME NEW q \in LoopRun PROVE WoundDown(q)'
    BY <1>23 DEF ToolEnds, BridgeTypeOK, TaskState, WoundDown, Alive
  <2> QED BY <2>1, <2>2
<1>24. ASSUME NEW r \in LoopRun, NEW s \in StreamId, StartCollector(r, s) PROVE BridgeInv'
  <2>1. BridgeTypeOK'
    BY <1>24 DEF StartCollector, BridgeTypeOK, TaskState
  <2>2. ASSUME NEW q \in LoopRun PROVE WoundDown(q)'
    BY <1>24 DEF StartCollector, BridgeTypeOK, TaskState, WoundDown, Alive
  <2> QED BY <2>1, <2>2
<1>25. ASSUME NEW r \in LoopRun, NEW s \in StreamId, CollectsChunk(r, s) PROVE BridgeInv'
  <2>1. BridgeTypeOK'
    <3>1. /\ frames[r][s] \o <<"chunk", "done">> \in Seq(Frame)
          /\ Append(frames[r][s], "chunk") \in Seq(Frame)
      BY DEF BridgeTypeOK, Frame
    <3>2. frames' \in [LoopRun -> [StreamId -> Seq(Frame)]]
      <4>1. \/ frames' = [frames EXCEPT ![r][s] = frames[r][s] \o <<"chunk", "done">>]
            \/ frames' = [frames EXCEPT ![r][s] = Append(frames[r][s], "chunk")]
        BY <1>25 DEF CollectsChunk, Send
      <4>2. [frames EXCEPT ![r][s] = frames[r][s] \o <<"chunk", "done">>]
              \in [LoopRun -> [StreamId -> Seq(Frame)]]
        BY <3>1, Refilling
      <4>3. [frames EXCEPT ![r][s] = Append(frames[r][s], "chunk")]
              \in [LoopRun -> [StreamId -> Seq(Frame)]]
        BY <3>1, Refilling
      <4> QED BY <4>1, <4>2, <4>3
    <3>3. collector' \in [LoopRun -> [StreamId -> TaskState \cup {"over"}]]
      <4>1. collector' = collector \/ collector' = [collector EXCEPT ![r][s] = "over"]
        BY <1>25 DEF CollectsChunk
      <4>2. [collector EXCEPT ![r][s] = "over"] \in [LoopRun -> [StreamId -> TaskState \cup {"over"}]]
        BY DEF BridgeTypeOK
      <4> QED BY <4>1, <4>2 DEF BridgeTypeOK
    <3> QED BY <1>25, <3>2, <3>3 DEF CollectsChunk, BridgeTypeOK, Frame
  <2>2. ASSUME NEW q \in LoopRun PROVE WoundDown(q)'
    <3>1. /\ collector[r][s] = "running" /\ UNCHANGED <<run, taking, worker, toolTask>>
          /\ collector' = [collector EXCEPT ![r][s] = "over"] \/ UNCHANGED collector
      BY <1>25 DEF CollectsChunk
    <3>2. \A t \in StreamId : \/ collector'[q][t] = collector[q][t]
                              \/ collector[q][t] = "running" /\ collector'[q][t] = "over"
      <4>1. collector \in [LoopRun -> [StreamId -> TaskState \cup {"over"}]]
        BY DEF BridgeTypeOK
      <4> QED BY <3>1, <4>1
    <3>3. \A k \in ToolSlot : toolTask'[q][k] = toolTask[q][k]
      BY <3>1
    <3> QED BY <3>1, <3>2, <3>3 DEF WoundDown, Alive
  <2> QED BY <2>1, <2>2
<1>26. ASSUME NEW r \in LoopRun, NEW s \in StreamId, CollectorEnds(r, s) PROVE BridgeInv'
  <2>1. BridgeTypeOK'
    <3>1. \A frame \in {"done", "error"} : Append(frames[r][s], frame) \in Seq(Frame)
      BY DEF BridgeTypeOK, Frame
    <3>2. \/ frames' = [frames EXCEPT ![r][s] = Append(frames[r][s], "done")]
          \/ frames' = [frames EXCEPT ![r][s] = Append(frames[r][s], "error")]
      BY <1>26 DEF CollectorEnds, Send
    <3>3. frames' \in [LoopRun -> [StreamId -> Seq(Frame)]]
      <4>1. ASSUME NEW frame \in {"done", "error"}
            PROVE  [frames EXCEPT ![r][s] = Append(frames[r][s], frame)]
                     \in [LoopRun -> [StreamId -> Seq(Frame)]]
        BY <3>1, Refilling
      <4> QED BY <3>2, <4>1
    <3>4. collector' \in [LoopRun -> [StreamId -> TaskState \cup {"over"}]]
      BY <1>26 DEF CollectorEnds, BridgeTypeOK
    <3> QED BY <1>26, <3>3, <3>4 DEF CollectorEnds, BridgeTypeOK, Frame
  <2>2. ASSUME NEW q \in LoopRun PROVE WoundDown(q)'
    BY <1>26 DEF CollectorEnds, BridgeTypeOK, TaskState, WoundDown, Alive, Send
  <2> QED BY <2>1, <2>2
<1>27. ASSUME UNCHANGED bridgeVars PROVE BridgeInv'
  BY <1>27 DEF bridgeVars, BridgeTypeOK, WoundDown, Alive
<1> QED
  BY <1>1, <1>2, <1>3, <1>4, <1>5, <1>6, <1>7, <1>8, <1>9, <1>10, <1>11, <1>12, <1>13, <1>14, <1>15, <1>16, <1>17, <1>18, <1>19, <1>20, <1>21, <1>22, <1>23, <1>24, <1>25, <1>26, <1>27 DEF BridgeNext, WorkerActs, WorkerGoesOn, ConsumerGoesOn

\* The types of the bridge, whatever the native loop does with its callbacks.
THEOREM BridgeTypes == BridgeSpec => []BridgeTypeOK
<1>1. BridgeInv => BridgeTypeOK
  BY DEF BridgeInv
<1> QED BY <1>1, BridgeInitially, BridgeStep, PTL DEF BridgeSpec

\* No tool and no stream of a run that returned is left, for any number of runs,
\* calls and streams, whatever the native loop left off and whoever cancelled.
THEOREM NothingOutlives == BridgeSpec => []NoTaskOutlivesTheRun
<1>1. BridgeInv => NoTaskOutlivesTheRun
  BY DEF BridgeInv, WoundDown, NoTaskOutlivesTheRun
<1> QED BY <1>1, BridgeInitially, BridgeStep, PTL DEF BridgeSpec
=============================================================================
