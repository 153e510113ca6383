-------------------------- MODULE SupervisorProofs --------------------------
(***************************************************************************)
(* Type correctness of module Supervisor, and that a supervisor whose      *)
(* processes only fail by exiting or booting too slowly keeps a single     *)
(* lineage of them and forgets none, for any number of processes and       *)
(* crashes.                                                                *)
(*                                                                         *)
(* All follow from one inductive invariant.  SingleLineage counts tokens:  *)
(* a live process, a boot being planned, a restart scheduled.  A step      *)
(* moves a token (Spawn, Exits, Restart) or drops one; only the health     *)
(* check makes one.  TypeOK needs HeldFires: the counter of intervals is   *)
(* decremented when the supervisor holds one.  NoOrphan needs              *)
(* WaitedIsAlive: the process a boot gives up on is the one that lives.    *)
(***************************************************************************)
EXTENDS Supervisor, FiniteSetTheorems, TLAPS

HeldFires == held => intervals > 0

WaitedIsAlive == gaveUp = 0 => waits \subseteq Alive

CountInv == TypeOK /\ HeldFires /\ SingleLineage

OrphanInv == WaitedIsAlive /\ NoOrphan

IInv == CountInv /\ OrphanInv

\* Alive, as a function of the processes' states.
Living(p) == {i \in Proc : p[i] \in {"booting", "ready"}}
-----------------------------------------------------------------------------
\* There are finitely many processes.
LEMMA FiniteProc ==
  /\ IsFiniteSet(Proc)
  /\ \A S \in SUBSET Proc : IsFiniteSet(S) /\ Cardinality(S) \in Nat
<1>1. IsFiniteSet(Proc)
  BY FS_Interval, BoundAssumption DEF Proc
<1>2. ASSUME NEW S \in SUBSET Proc PROVE IsFiniteSet(S) /\ Cardinality(S) \in Nat
  BY <1>1, FS_Subset, FS_CardinalityType
<1> QED BY <1>1, <1>2

\* A process more, a process less.
LEMMA LivingCount ==
  ASSUME NEW p \in [Proc -> {"unborn", "booting", "ready", "exited"}],
         NEW i \in Proc, NEW s \in {"unborn", "booting", "ready", "exited"}
  PROVE  /\ Cardinality(Living(p)) \in Nat
         /\ p[i] \in {"booting", "ready"} /\ s \in {"booting", "ready"} =>
              Living([p EXCEPT ![i] = s]) = Living(p)
         /\ p[i] \notin {"booting", "ready"} /\ s \in {"booting", "ready"} =>
              Cardinality(Living([p EXCEPT ![i] = s])) = Cardinality(Living(p)) + 1
         /\ p[i] \in {"booting", "ready"} /\ s \notin {"booting", "ready"} =>
              Cardinality(Living([p EXCEPT ![i] = s])) = Cardinality(Living(p)) - 1
<1> DEFINE q == [p EXCEPT ![i] = s]
<1>1. IsFiniteSet(Living(p)) /\ Cardinality(Living(p)) \in Nat
  BY FiniteProc DEF Living
<1>2. ASSUME p[i] \in {"booting", "ready"}, s \in {"booting", "ready"}
      PROVE  Living(q) = Living(p)
  BY <1>2 DEF Living
<1>3. ASSUME p[i] \notin {"booting", "ready"}, s \in {"booting", "ready"}
      PROVE  Cardinality(Living(q)) = Cardinality(Living(p)) + 1
  <2>1. Living(q) = Living(p) \cup {i} /\ i \notin Living(p)
    BY <1>3 DEF Living
  <2> QED BY <2>1, <1>1, FS_AddElement
<1>4. ASSUME p[i] \in {"booting", "ready"}, s \notin {"booting", "ready"}
      PROVE  Cardinality(Living(q)) = Cardinality(Living(p)) - 1
  <2>1. Living(q) = Living(p) \ {i} /\ i \in Living(p)
    BY <1>4 DEF Living
  <2> QED BY <2>1, <1>1, FS_RemoveElement
<1> QED BY <1>1, <1>2, <1>3, <1>4

\* With a token elsewhere no process lives, and one that lives is alone.
LEMMA OneAlive ==
  ASSUME TypeOK, SingleLineage, gaveUp = 0
  PROVE  /\ planning > 0 \/ timers > 0 => Alive = {}
         /\ \A i, j \in Alive : i = j
<1>1. /\ IsFiniteSet(Alive) /\ Cardinality(Alive) \in Nat
      /\ planning \in Nat /\ timers \in Nat
  BY FiniteProc DEF Alive, TypeOK
<1>2. Cardinality(Alive) + planning + timers <= 1
  BY DEF SingleLineage
<1>3. ASSUME planning > 0 \/ timers > 0 PROVE Alive = {}
  <2>1. Cardinality(Alive) = 0
    BY <1>1, <1>2, <1>3
  <2> QED BY <1>1, <2>1, FS_EmptySet
<1>4. ASSUME NEW i \in Alive, NEW j \in Alive, i # j PROVE FALSE
  <2>1. /\ IsFiniteSet(Alive \ {i})
        /\ Cardinality(Alive \ {i}) = Cardinality(Alive) - 1
    BY <1>1, <1>4, FS_RemoveElement
  <2>4. Cardinality(Alive \ {i}) \in Nat
    BY <2>1, FS_CardinalityType
  <2>2. Alive \ {i} # {}
    BY <1>4
  <2>3. Cardinality(Alive \ {i}) # 0
    BY <2>1, <2>2, FS_EmptySet
  <2> QED BY <1>1, <1>2, <2>1, <2>3, <2>4
<1> QED BY <1>3, <1>4
-----------------------------------------------------------------------------
LEMMA Initially == Init => IInv
<1> SUFFICES ASSUME Init PROVE IInv
  OBVIOUS
<1>0. MaxSpawns \in Nat /\ MaxCrashes \in Nat /\ MaxPingFailures \in Nat
  BY BoundAssumption
<1>1. TypeOK /\ HeldFires
  <2>1. /\ proc \in [Proc -> {"unborn", "booting", "ready", "exited"}]
        /\ asked \subseteq Proc /\ waits \subseteq Proc
        /\ late \subseteq Proc
    BY DEF Init
  <2>2. /\ child \in 0..MaxSpawns /\ crashes \in 0..MaxCrashes
        /\ gaveUp \in 0..MaxPingFailures
    BY <1>0 DEF Init
  <2>3. /\ planning \in Nat /\ timers \in Nat /\ intervals \in Nat
        /\ shut \in {"no", "asking", "waiting", "done"}
    BY DEF Init
  <2>4. held \in BOOLEAN /\ refused \in BOOLEAN /\ HeldFires
    BY DEF Init, HeldFires
  <2> QED BY <2>1, <2>2, <2>3, <2>4 DEF TypeOK
<1>2. Alive = {}
  BY DEF Init, Alive
<1>3. Cardinality({}) = 0
  BY FS_EmptySet
<1>4. SingleLineage
  BY <1>2, <1>3 DEF SingleLineage, Init
<1>5. WaitedIsAlive /\ NoOrphan
  BY <1>2 DEF WaitedIsAlive, NoOrphan, Init
<1> QED BY <1>1, <1>4, <1>5 DEF IInv, CountInv, OrphanInv

\* scheduleRestart adds at most one token, and keeps its counters natural.
LEMMA ScheduleRestartAdds ==
  ASSUME timers \in Nat, intervals \in Nat, held \in BOOLEAN, HeldFires, ScheduleRestart
  PROVE  /\ timers' \in {timers, timers + 1}
         /\ timers' \in Nat /\ intervals' \in Nat /\ held' \in BOOLEAN
         /\ HeldFires'
<1>1. CASE shuttingDown
  BY <1>1 DEF ScheduleRestart, HeldFires
<1>2. CASE ~ shuttingDown
  <2>1. timers' = timers + 1 /\ held' = FALSE
    BY <1>2 DEF ScheduleRestart, StopHealthTimer
  <2>2. intervals' = IF held THEN intervals - 1 ELSE intervals
    BY <1>2 DEF ScheduleRestart, StopHealthTimer
  <2>3. intervals' \in Nat
    BY <2>2 DEF HeldFires
  <2>4. held' \in BOOLEAN /\ HeldFires'
    BY <2>1, Zenon DEF HeldFires
  <2> QED BY <2>1, <2>3, <2>4
<1> QED BY <1>1, <1>2

\* Every step keeps the types and moves at most one token.
LEMMA CountStep == CountInv /\ [Next]_vars => CountInv'
<1> SUFFICES ASSUME CountInv, [Next]_vars PROVE CountInv'
  OBVIOUS
<1> USE DEF CountInv, HeldFires, history
<1>0. Cardinality(Alive) \in Nat /\ planning \in Nat /\ timers \in Nat
  BY FiniteProc DEF Alive, TypeOK
<1>a. Alive = Living(proc) /\ Alive' = Living(proc')
  BY DEF Alive, Living
<1>1. ASSUME NEW i \in Proc, Spawn(i) PROVE CountInv'
  <2>1. TypeOK' /\ HeldFires'
    BY <1>1 DEF Spawn, TypeOK, Proc
  <2>2. Cardinality(Alive') = Cardinality(Alive) + 1
    BY <1>1, <1>a, LivingCount DEF Spawn, TypeOK
  <2>3. SingleLineage'
    BY <1>0, <1>1, <2>2 DEF SingleLineage, Spawn
  <2> QED BY <2>1, <2>3
<1>2. ASSUME NEW i \in Proc, Marker(i) PROVE CountInv'
  <2>1. Cardinality(waits) \in Nat /\ (waits # {} => Cardinality(waits) > 0)
    BY FiniteProc, FS_EmptySet DEF TypeOK
  <2>2. TypeOK' /\ HeldFires'
    BY <1>2, <2>1 DEF Marker, TypeOK
  <2>3. Alive' = Alive
    BY <1>2, <1>a, LivingCount DEF Marker, TypeOK
  <2>4. SingleLineage'
    BY <1>2, <2>3 DEF SingleLineage, Marker
  <2> QED BY <2>2, <2>4
<1>3. ASSUME NEW i \in Proc, BootTimesOut(i) PROVE CountInv'
  <2>1. child' \in 0..MaxSpawns
    BY <1>3, BoundAssumption DEF BootTimesOut
  <2>2. TypeOK' /\ HeldFires'
    BY <1>3, <2>1 DEF BootTimesOut, TypeOK
  <2>3. SingleLineage'
    BY <1>3 DEF BootTimesOut, SingleLineage, Alive
  <2> QED BY <2>2, <2>3
<1>4. ASSUME NEW i \in Proc, Exits(i) PROVE CountInv'
  <2>1. /\ timers' \in {timers, timers + 1}
        /\ timers' \in Nat /\ intervals' \in Nat /\ held' \in BOOLEAN
        /\ HeldFires'
    BY <1>4, ScheduleRestartAdds DEF Exits, TypeOK
  <2>2. crashes' \in 0..MaxCrashes
    BY <1>4, BoundAssumption DEF Exits, TypeOK
  <2>3. TypeOK'
    <3>1. child' \in 0..MaxSpawns
      BY <1>4, BoundAssumption DEF Exits, TypeOK
    <3>2. asked' \subseteq Proc /\ waits' \subseteq Proc
      BY <1>4 DEF Exits, TypeOK
    <3>3. proc' \in [Proc -> {"unborn", "booting", "ready", "exited"}]
      BY <1>4 DEF Exits, TypeOK
    <3> QED BY <1>4, <2>1, <2>2, <3>1, <3>2, <3>3 DEF Exits, TypeOK
  <2>4. Cardinality(Alive') = Cardinality(Alive) - 1
    <3>1. Alive = Living(proc) /\ i \in Proc /\ proc[i] \in {"booting", "ready"}
      BY <1>4, <1>a DEF Exits, Alive
    <3>2. Alive' = Living([proc EXCEPT ![i] = "exited"])
      BY <1>4 DEF Exits, Alive, Living
    <3>3. proc \in [Proc -> {"unborn", "booting", "ready", "exited"}]
      BY DEF TypeOK
    <3> QED BY <3>1, <3>2, <3>3, LivingCount
  <2>5. SingleLineage'
    BY <1>0, <1>4, <2>1, <2>4 DEF SingleLineage, Exits
  <2> QED BY <2>1, <2>3, <2>5
<1>5. ASSUME PlanRefused PROVE CountInv'
  <2>1. TypeOK' /\ HeldFires'
    BY <1>5 DEF PlanRefused, TypeOK
  <2>2. SingleLineage'
    BY <1>0, <1>5 DEF PlanRefused, SingleLineage, Alive
  <2> QED BY <2>1, <2>2
<1>6. ASSUME Restart PROVE CountInv'
  <2>1. child' \in 0..MaxSpawns /\ asked' \subseteq Proc
    <3>1. CASE shuttingDown
      BY <1>6, <3>1 DEF Restart, TypeOK
    <3>2. CASE ~ shuttingDown
      <4>1. child' = 0 /\ asked' = IF child = 0 THEN asked ELSE asked \cup {child}
        BY <1>6, <3>2 DEF Restart
      <4> QED BY <4>1, BoundAssumption DEF TypeOK, Proc
    <3> QED BY <3>1, <3>2
  <2>3. planning' \in Nat /\ timers' \in Nat
    BY <1>6 DEF Restart, TypeOK
  <2>4. TypeOK' /\ HeldFires'
    BY <1>6, <2>1, <2>3 DEF Restart, TypeOK
  <2>2. SingleLineage'
    BY <1>0, <1>6 DEF Restart, SingleLineage, Alive
  <2> QED BY <2>2, <2>4
<1>7. ASSUME PingsFail PROVE CountInv'
  <2>1. /\ timers' \in Nat /\ intervals' \in Nat /\ held' \in BOOLEAN
        /\ HeldFires'
    BY <1>7, ScheduleRestartAdds DEF PingsFail, TypeOK
  <2>2. gaveUp' \in 0..MaxPingFailures /\ gaveUp' # 0
    BY <1>7, BoundAssumption DEF PingsFail, TypeOK
  <2>3. TypeOK'
    BY <1>7, <2>1, <2>2 DEF PingsFail, TypeOK
  <2> QED BY <2>1, <2>2, <2>3 DEF SingleLineage
<1>8. ASSUME Shutdown PROVE CountInv'
  <2>1. asked' \subseteq Proc
    BY <1>8 DEF Shutdown, TypeOK, Proc
  <2>2. intervals' \in Nat /\ held' = FALSE
    <3>1. CASE held
      BY <1>8, <3>1 DEF Shutdown, StopHealthTimer, TypeOK
    <3>2. CASE ~ held
      BY <1>8, <3>2 DEF Shutdown, StopHealthTimer, TypeOK
    <3> QED BY <3>1, <3>2
  <2>3. TypeOK' /\ HeldFires'
    BY <1>8, <2>1, <2>2 DEF Shutdown, TypeOK
  <2>4. SingleLineage'
    BY <1>8 DEF Shutdown, SingleLineage, Alive
  <2> QED BY <2>3, <2>4
<1>9. ASSUME ShutdownWaits PROVE CountInv'
  BY <1>9 DEF ShutdownWaits, TypeOK, SingleLineage, Alive
<1>10. ASSUME ShutdownReturns PROVE CountInv'
  BY <1>10, BoundAssumption DEF ShutdownReturns, TypeOK, SingleLineage, Alive
<1>11. ASSUME UNCHANGED vars PROVE CountInv'
  BY <1>11 DEF vars, TypeOK, SingleLineage, Alive
<1> QED
  BY <1>1, <1>2, <1>3, <1>4, <1>5, <1>6, <1>7, <1>8, <1>9, <1>10, <1>11
  DEF Next, ProcStep

\* Every step leaves every live process with the supervisor, told to go, or
\* spawned too late.
LEMMA OrphanStep ==
  ASSUME CountInv, OrphanInv, [Next]_vars, gaveUp' = 0
  PROVE  /\ waits' \subseteq Alive'
         /\ Alive' \subseteq asked' \cup late' \cup (IF shuttingDown' THEN {} ELSE {child'})
<1> DEFINE Known  == asked \cup late \cup (IF shuttingDown THEN {} ELSE {child})
           Goal == waits' \subseteq Alive' /\ Alive' \subseteq Known'
<1> SUFFICES Goal
  OBVIOUS
<1> USE DEF history, shuttingDown
<1>0. gaveUp = 0
  BY DEF CountInv, TypeOK, Next, ProcStep, vars, Spawn, Marker, BootTimesOut, Exits,
     PlanRefused, Restart, PingsFail, Shutdown, ShutdownWaits, ShutdownReturns
<1>1. waits \subseteq Alive /\ Alive \subseteq Known
  BY <1>0 DEF OrphanInv, WaitedIsAlive, NoOrphan
<1>2. /\ planning > 0 \/ timers > 0 => Alive = {}
      /\ \A i, j \in Alive : i = j
  BY <1>0, OneAlive DEF CountInv
<1>3. ASSUME NEW i \in Proc, Spawn(i) PROVE Goal
  <2>1. Alive = {} /\ waits = {}
    BY <1>1, <1>2, <1>3 DEF Spawn
  <2>2. Alive' = {i}
    BY <1>3, <2>1 DEF Spawn, Alive, CountInv, TypeOK
  <2> QED BY <1>3, <2>1, <2>2 DEF Spawn
<1>4. ASSUME NEW i \in Proc, Marker(i) PROVE Goal
  <2>1. Alive' = Alive
    BY <1>4 DEF Marker, Alive, CountInv, TypeOK
  <2> QED BY <1>1, <1>4, <2>1 DEF Marker
<1>5. ASSUME NEW i \in Proc, BootTimesOut(i) PROVE Goal
  <2>1. Alive = {i}
    BY <1>1, <1>2, <1>5 DEF BootTimesOut
  <2>2. Alive' = Alive
    BY <1>5 DEF BootTimesOut, Alive
  <2> QED BY <1>1, <1>5, <2>1, <2>2 DEF BootTimesOut
<1>6. ASSUME NEW i \in Proc, Exits(i) PROVE Goal
  <2>1. Alive = {i}
    BY <1>2, <1>6 DEF Exits
  <2>2. Alive' = {}
    BY <1>6, <2>1 DEF Exits, Alive, CountInv, TypeOK
  <2> QED BY <1>6, <2>2 DEF Exits
<1>7. ASSUME PlanRefused PROVE Goal
  BY <1>1, <1>7 DEF PlanRefused, Alive
<1>8. ASSUME Restart PROVE Goal
  <2>1. Alive = {} /\ waits = {}
    BY <1>1, <1>2, <1>8 DEF Restart
  <2>2. Alive' = {}
    BY <1>8, <2>1 DEF Restart, Alive
  <2> QED BY <1>8, <2>1, <2>2 DEF Restart
<1>9. ASSUME PingsFail PROVE Goal
  BY <1>9, <1>0 DEF PingsFail
<1>10. ASSUME Shutdown PROVE Goal
  <2>1. Alive' = Alive /\ shuttingDown' /\ ~ shuttingDown
    BY <1>10 DEF Shutdown, Alive
  <2>2. child \in asked' \/ child = 0
    BY <1>10 DEF Shutdown
  <2>3. 0 \notin Alive
    BY BoundAssumption DEF Alive, Proc
  <2> QED BY <1>1, <1>10, <2>1, <2>2, <2>3 DEF Shutdown
<1>11. ASSUME ShutdownWaits PROVE Goal
  BY <1>1, <1>11 DEF ShutdownWaits, Alive
<1>12. ASSUME ShutdownReturns PROVE Goal
  BY <1>1, <1>12 DEF ShutdownReturns, Alive
<1>13. ASSUME UNCHANGED vars PROVE Goal
  BY <1>1, <1>13 DEF vars, Alive
<1> QED
  BY <1>3, <1>4, <1>5, <1>6, <1>7, <1>8, <1>9, <1>10, <1>11, <1>12, <1>13
  DEF Next, ProcStep

LEMMA Step == IInv /\ [Next]_vars => IInv'
<1> SUFFICES ASSUME IInv, [Next]_vars PROVE IInv'
  OBVIOUS
<1>1. CountInv'
  BY CountStep DEF IInv
<1>2. OrphanInv'
  BY OrphanStep DEF IInv, OrphanInv, WaitedIsAlive, NoOrphan
<1> QED BY <1>1, <1>2 DEF IInv
-----------------------------------------------------------------------------
\* Every variable of the supervisor keeps its type; the number of health
\* intervals, which stopHealthTimer decrements, never goes below zero.
THEOREM TypeCorrect == Spec => []TypeOK
<1>1. IInv => TypeOK
  BY DEF IInv, CountInv
<1> QED BY Initially, Step, <1>1, PTL DEF Spec

\* However processes exit, boot too slowly or are refused, and whenever the
\* supervisor is shut down, there are never two of a live process, a boot being
\* planned and a scheduled restart, unless the health check gave up on one.
THEOREM OneLineage == Spec => []SingleLineage
<1>1. IInv => SingleLineage
  BY DEF IInv, CountInv
<1> QED BY Initially, Step, <1>1, PTL DEF Spec
\* A live process is never lost: short of the health check's second lineage, it
\* is the child, it was told to go, or a boot that shutdown overtook spawned it.
THEOREM NobodyForgotten == Spec => []NoOrphan
<1>1. IInv => NoOrphan
  BY DEF IInv, OrphanInv
<1> QED BY Initially, Step, <1>1, PTL DEF Spec
=============================================================================
