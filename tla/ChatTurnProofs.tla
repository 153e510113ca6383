--------------------------- MODULE ChatTurnProofs ---------------------------
(***************************************************************************)
(* What a turn of a chat rests on.                                         *)
(*                                                                         *)
(* The chat's registration for steering, for any number of turns and of    *)
(* deaths of the sidecar.  A turn given up on may still be answered, so    *)
(* the argument is about order: the pipes keep it and the sidecar answers  *)
(* a start as soon as it reads it, hence the start of the turn in progress *)
(* or its answer is the last one under way, and the answer of an earlier   *)
(* turn is never behind it (LastRequest).                                  *)
(*                                                                         *)
(* The end of a loop, which is said before it is over; that a stream has    *)
(* one task takes that it is started once (StartedOnce).                   *)
(*                                                                         *)
(* The breakers of compaction, for any window, growth and limits: the      *)
(* counts are those of the runs they are named after (CompactionInv).      *)
(***************************************************************************)
EXTENDS ChatTurn, Compaction, SequenceTheorems, TLAPS

\* A frame that is, or answers, an agent.chat.stream call.
Request(f) == f.kind \in {"start", "answer", "refusal"}

NoRequest(q)      == \A i \in 1..Len(q) : ~ Request(q[i])
NoRequestOf(q, t) == \A i \in 1..Len(q) : Request(q[i]) => q[i].turn # t
LastOfItsKind(q, i) == \A j \in 1..Len(q) : j > i => ~ Request(q[j])

\* Nothing about another turn follows what is under way about t's start.
LastRequest(t) ==
  /\ \A i \in 1..Len(toHost) :
       Request(toHost[i]) /\ toHost[i].turn = t
         => LastOfItsKind(toHost, i) /\ NoRequest(toSidecar)
  /\ \A i \in 1..Len(toSidecar) :
       Request(toSidecar[i]) /\ toSidecar[i].turn = t => LastOfItsKind(toSidecar, i)

TurnInv ==
  /\ TurnTypeOK
  /\ OpenTurnIsRegistered
  /\ \A t, u \in Turn : Under(t) /\ Under(u) => t = u
  /\ \A t \in Turn : turn[t] = "idle" => NoRequestOf(toSidecar, t) /\ NoRequestOf(toHost, t)
  /\ \A t \in Turn : Under(t) => LastRequest(t)
  /\ \A t \in Turn : turn[t] = "open" => NoRequest(toSidecar) /\ NoRequest(toHost)
-----------------------------------------------------------------------------
(* The pipes.                                                              *)

LEMMA Appending ==
  ASSUME NEW q \in Seq(Frame), NEW f \in Frame
  PROVE  /\ Append(q, f) \in Seq(Frame)
         /\ Len(Append(q, f)) = Len(q) + 1
         /\ \A i \in 1..Len(q) : Append(q, f)[i] = q[i]
         /\ Append(q, f)[Len(q) + 1] = f
         /\ Len(q) \in Nat
OBVIOUS

LEMMA Dropping ==
  ASSUME NEW q \in Seq(Frame), q # <<>>
  PROVE  /\ Tail(q) \in Seq(Frame)
         /\ Len(Tail(q)) = Len(q) - 1
         /\ \A i \in 1..Len(q) - 1 : Tail(q)[i] = q[i + 1]
         /\ Head(q) = q[1]
         /\ Len(q) \in Nat /\ Len(q) > 0
OBVIOUS

LEMMA Cutting ==
  ASSUME NEW q \in Seq(Frame), NEW n \in 1..Len(q)
  PROVE  /\ SubSeq(q, 1, n) \in Seq(Frame)
         /\ Len(SubSeq(q, 1, n)) = n
         /\ \A i \in 1..n : SubSeq(q, 1, n)[i] = q[i]
         /\ SubSeq(q, n + 1, Len(q)) \in Seq(Frame)
         /\ Len(SubSeq(q, n + 1, Len(q))) = Len(q) - n
         /\ \A i \in 1..Len(q) - n : SubSeq(q, n + 1, Len(q))[i] = q[n + i]
<1>1. Len(q) \in Nat /\ \A i \in 1..Len(q) : q[i] \in Frame
  OBVIOUS
<1>2. \A i \in 1..n : q[i] \in Frame
  BY <1>1
<1>3. \A i \in n + 1..Len(q) : q[i] \in Frame
  BY <1>1
<1>4. n \in Int /\ n + 1 \in Int /\ Len(q) \in Int /\ 1 \in Int
  BY <1>1
<1>5. /\ SubSeq(q, 1, n) \in Seq(Frame)
      /\ Len(SubSeq(q, 1, n)) = IF 1 <= n THEN n - 1 + 1 ELSE 0
      /\ \A i \in 1..n - 1 + 1 : SubSeq(q, 1, n)[i] = q[1 + i - 1]
  BY <1>2, <1>4, SubSeqProperties
<1>6. /\ SubSeq(q, n + 1, Len(q)) \in Seq(Frame)
      /\ Len(SubSeq(q, n + 1, Len(q))) = IF n + 1 <= Len(q) THEN Len(q) - (n + 1) + 1 ELSE 0
      /\ \A i \in 1..Len(q) - (n + 1) + 1 : SubSeq(q, n + 1, Len(q))[i] = q[n + 1 + i - 1]
  BY <1>3, <1>4, SubSeqProperties
<1>7. \A i \in 1..n : SubSeq(q, 1, n)[i] = q[i]
  BY <1>4, <1>5
<1>8. \A i \in 1..Len(q) - n : SubSeq(q, n + 1, Len(q))[i] = q[n + i]
  <2> SUFFICES ASSUME NEW i \in 1..Len(q) - n
               PROVE  SubSeq(q, n + 1, Len(q))[i] = q[n + i]
    OBVIOUS
  <2>1. i \in 1..Len(q) - (n + 1) + 1 /\ n + 1 + i - 1 = n + i
    BY <1>1
  <2> QED BY <1>6, <2>1
<1> QED BY <1>1, <1>5, <1>6, <1>7, <1>8

\* What a frame of another kind at the end, or the loss of one at the head,
\* does to the requests of a pipe: nothing.
LEMMA AppendingOther ==
  ASSUME NEW q \in Seq(Frame), NEW f \in Frame, ~ Request(f), NEW r, r = Append(q, f)
  PROVE  /\ NoRequest(q) => NoRequest(r)
         /\ \A t \in Turn : NoRequestOf(q, t) => NoRequestOf(r, t)
         /\ \A i \in 1..Len(r) : Request(r[i]) =>
              i \in 1..Len(q) /\ r[i] = q[i] /\ (LastOfItsKind(q, i) => LastOfItsKind(r, i))
<1>1. \A i \in 1..Len(r) : Request(r[i]) => i \in 1..Len(q) /\ r[i] = q[i]
  BY Appending
<1> QED BY <1>1 DEF NoRequest, NoRequestOf, LastOfItsKind

\* The head of a pipe is lost.
LEMMA DroppingOne ==
  ASSUME NEW q \in Seq(Frame), q # <<>>, NEW r, r = Tail(q)
  PROVE  /\ NoRequest(q) => NoRequest(r)
         /\ \A t \in Turn : NoRequestOf(q, t) => NoRequestOf(r, t)
         /\ \A i \in 1..Len(r) :
              /\ i + 1 \in 1..Len(q) /\ r[i] = q[i + 1]
              /\ LastOfItsKind(q, i + 1) => LastOfItsKind(r, i)
<1>1. \A i \in 1..Len(r) : i + 1 \in 1..Len(q) /\ r[i] = q[i + 1]
  BY Dropping
<1> QED BY <1>1 DEF NoRequest, NoRequestOf, LastOfItsKind
-----------------------------------------------------------------------------
LEMMA TurnInitially == TurnInit => TurnInv
<1> SUFFICES ASSUME TurnInit PROVE TurnInv
  OBVIOUS
<1>1. TurnTypeOK
  BY CrashAssumption DEF TurnInit, TurnTypeOK
<1> QED BY <1>1 DEF TurnInit, TurnInv, OpenTurnIsRegistered, Under, LastRequest,
                    NoRequest, NoRequestOf

\* A step that settles no turn and sends or reads no request.
LEMMA QuietStep ==
  ASSUME TurnInv, TurnTypeOK', UNCHANGED <<turn, active>>,
         \/ toSidecar' = toSidecar
         \/ \E f \in Frame : ~ Request(f) /\ toSidecar' = Append(toSidecar, f)
         \/ toSidecar # <<>> /\ toSidecar' = Tail(toSidecar),
         \/ toHost' = toHost
         \/ \E f \in Frame : ~ Request(f) /\ toHost' = Append(toHost, f)
  PROVE  TurnInv'
<1> USE DEF TurnInv
<1>1. toSidecar \in Seq(Frame) /\ toHost \in Seq(Frame)
  BY DEF TurnTypeOK
<1>2. /\ NoRequest(toSidecar) => NoRequest(toSidecar')
      /\ \A t \in Turn : NoRequestOf(toSidecar, t) => NoRequestOf(toSidecar', t)
      /\ \A i \in 1..Len(toSidecar') : Request(toSidecar'[i]) =>
           \E k \in 1..Len(toSidecar) :
             /\ toSidecar'[i] = toSidecar[k]
             /\ LastOfItsKind(toSidecar, k) => LastOfItsKind(toSidecar', i)
  <2>1. CASE toSidecar' = toSidecar
    BY <2>1
  <2>2. CASE \E f \in Frame : ~ Request(f) /\ toSidecar' = Append(toSidecar, f)
    BY <1>1, <2>2, AppendingOther
  <2>3. CASE toSidecar # <<>> /\ toSidecar' = Tail(toSidecar)
    BY <1>1, <2>3, DroppingOne
  <2> QED BY <2>1, <2>2, <2>3
<1>3. /\ NoRequest(toHost) => NoRequest(toHost')
      /\ \A t \in Turn : NoRequestOf(toHost, t) => NoRequestOf(toHost', t)
      /\ \A i \in 1..Len(toHost') : Request(toHost'[i]) =>
           \E k \in 1..Len(toHost) :
             /\ toHost'[i] = toHost[k]
             /\ LastOfItsKind(toHost, k) => LastOfItsKind(toHost', i)
  BY <1>1, AppendingOther
<1>4. ASSUME NEW t \in Turn, Under(t)' PROVE LastRequest(t)'
  <2>1. Under(t) /\ LastRequest(t)
    BY <1>4 DEF Under
  <2> QED BY <1>2, <1>3, <2>1 DEF LastRequest
<1>5. OpenTurnIsRegistered' /\ \A t, u \in Turn : Under(t)' /\ Under(u)' => t = u
  BY DEF OpenTurnIsRegistered, Under
<1> QED BY <1>2, <1>3, <1>4, <1>5

\* A step in which a turn is given up on; another one keeps its registration.
LEMMA GivenUp ==
  ASSUME TurnInv, TurnTypeOK', UNCHANGED pipes, NEW t \in Turn,
         \A u \in Turn : u # t => turn'[u] = turn[u],
         turn'[t] = turn[t] \/ turn'[t] \in Settled,
         active' = IF Under(t) THEN NoTurn ELSE active,
         Under(t) => turn'[t] \in Settled
  PROVE  TurnInv'
<1> USE DEF TurnInv, pipes
<1>1. \A u \in Turn : Under(u)' => Under(u) /\ turn'[u] = turn[u]
  BY DEF Under, Settled
<1>2. ASSUME NEW u \in Turn, turn'[u] = "open" PROVE active' = u
  <2>1. Under(u) /\ turn[u] = "open"
    BY <1>1, <1>2 DEF Under
  <2>2. ~ Under(t)
    BY <1>2, <2>1 DEF Settled
  <2> QED BY <2>1, <2>2 DEF OpenTurnIsRegistered
<1>3. \A u \in Turn : Under(u)' => LastRequest(u)'
  BY <1>1 DEF LastRequest
<1>4. \A u \in Turn : turn'[u] = "idle" => turn[u] = "idle"
  BY DEF Settled
<1>5. \A u \in Turn : turn'[u] = "open" => turn[u] = "open"
  BY DEF Settled
<1> QED BY <1>1, <1>2, <1>3, <1>4, <1>5 DEF OpenTurnIsRegistered

\* The sidecar reads a start and answers it: the request moves from the one
\* pipe to the other.
LEMMA AnsweringStep ==
  ASSUME TurnInv, TurnTypeOK', UNCHANGED <<turn, active>>, NEW t \in Turn,
         Receives("start", t), NEW k \in {"answer", "refusal"}, Emit(k, t)
  PROVE  TurnInv'
<1> USE DEF TurnInv
<1>1. toSidecar \in Seq(Frame) /\ toHost \in Seq(Frame) /\ toSidecar # <<>>
  BY DEF TurnTypeOK, Receives
<1> DEFINE f == [kind |-> k, turn |-> t]
<1>2. toSidecar' = Tail(toSidecar) /\ toHost' = Append(toHost, f) /\ f \in Frame
  BY DEF Receives, Emit, Frame
<1>3. Len(toSidecar) > 0 /\ Request(toSidecar[1]) /\ toSidecar[1].turn = t
  BY <1>1, Dropping DEF Receives, Request
<1>4. /\ \A i \in 1..Len(toHost) : toHost'[i] = toHost[i]
      /\ Len(toHost') = Len(toHost) + 1 /\ toHost'[Len(toHost) + 1] = f
      /\ Len(toHost) \in Nat /\ Len(toSidecar) \in Nat
  BY <1>1, <1>2, Appending
<1>5. \A u \in Turn : turn[u] # "open"
  BY <1>3, <1>4 DEF NoRequest
<1>6. turn[t] # "idle"
  BY <1>3, <1>4 DEF NoRequestOf
<1>7. ASSUME NEW u \in Turn, turn[u] = "idle"
      PROVE  NoRequestOf(toSidecar', u) /\ NoRequestOf(toHost', u)
  <2>1. NoRequestOf(toSidecar', u)
    BY <1>1, <1>2, <1>7, DroppingOne
  <2>2. NoRequestOf(toHost', u)
    BY <1>4, <1>6, <1>7 DEF NoRequestOf
  <2> QED BY <2>1, <2>2
<1>8. ASSUME NEW u \in Turn, Under(u) PROVE LastRequest(u)'
  <2>1. \A i \in 1..Len(toHost) : ~ (Request(toHost[i]) /\ toHost[i].turn = u)
    BY <1>3, <1>4, <1>8 DEF LastRequest, NoRequest
  <2>2. ASSUME NEW i \in 1..Len(toHost'), Request(toHost'[i]), toHost'[i].turn = u
        PROVE  LastOfItsKind(toHost', i) /\ NoRequest(toSidecar')
    <3>1. i = Len(toHost) + 1
      BY <1>4, <2>1, <2>2
    <3>2. u = t
      BY <1>4, <2>2, <3>1
    <3>3. LastOfItsKind(toHost', i)
      BY <1>4, <3>1 DEF LastOfItsKind
    <3>4. LastOfItsKind(toSidecar, 1)
      BY <1>3, <1>4, <1>8, <3>2 DEF LastRequest
    <3>5. NoRequest(toSidecar')
      BY <1>1, <1>2, <1>4, <3>4, DroppingOne DEF LastOfItsKind, NoRequest
    <3> QED BY <3>3, <3>5
  <2>3. ASSUME NEW i \in 1..Len(toSidecar'), Request(toSidecar'[i]), toSidecar'[i].turn = u
        PROVE  LastOfItsKind(toSidecar', i)
    BY <1>1, <1>2, <1>8, <2>3, DroppingOne DEF LastRequest
  <2> QED BY <2>2, <2>3 DEF LastRequest
<1>9. OpenTurnIsRegistered' /\ \A u, v \in Turn : Under(u)' /\ Under(v)' => u = v
  BY DEF OpenTurnIsRegistered, Under
<1>10. \A u \in Turn : Under(u)' => LastRequest(u)'
  BY <1>8 DEF Under
<1> QED BY <1>5, <1>7, <1>9, <1>10

LEMMA StartStep ==
  ASSUME TurnInv, NEW t \in Turn, Start(t)
  PROVE  TurnInv'
<1> USE DEF TurnInv
<1> DEFINE f == [kind |-> "start", turn |-> t]
<1>1. /\ toSidecar \in Seq(Frame) /\ toHost \in Seq(Frame) /\ f \in Frame
      /\ toSidecar' = Append(toSidecar, f) /\ toHost' = toHost
  BY DEF TurnTypeOK, Start, Frame
<1>2. /\ turn'[t] = "starting" /\ turn[t] = "idle"
      /\ \A u \in Turn : u # t => turn'[u] = turn[u]
      /\ \A u \in Turn : turn[u] # "open"
      /\ \A u \in Turn : Under(u)' => u = t
  BY DEF Start, TurnTypeOK, Under
<1>3. TurnTypeOK'
  BY <1>1 DEF Start, TurnTypeOK, sidecarVars
<1>4. /\ \A i \in 1..Len(toSidecar) : toSidecar'[i] = toSidecar[i]
      /\ Len(toSidecar') = Len(toSidecar) + 1 /\ toSidecar'[Len(toSidecar) + 1] = f
      /\ Len(toSidecar) \in Nat
  BY <1>1, Appending
<1>5. NoRequestOf(toSidecar, t) /\ NoRequestOf(toHost, t)
  BY <1>2
<1>6. LastRequest(t)'
  BY <1>1, <1>4, <1>5 DEF LastRequest, LastOfItsKind, NoRequestOf
<1>7. \A u \in Turn : turn'[u] = "idle" => NoRequestOf(toSidecar', u) /\ NoRequestOf(toHost', u)
  BY <1>1, <1>2, <1>4 DEF NoRequestOf
<1>8. \A u \in Turn : turn'[u] # "open"
  BY <1>2
<1> QED BY <1>2, <1>3, <1>6, <1>7, <1>8 DEF OpenTurnIsRegistered

\* The host reads a chunk.  If it holds the answer of the turn in progress, that
\* is its last one and leaves no request behind; if that turn is open already,
\* there is no answer in it at all.
LEMMA ReadingStep ==
  ASSUME TurnInv, NEW n \in 1..Len(toHost), HostReads(n)
  PROVE  TurnInv'
<1> USE DEF TurnInv
<1> DEFINE chunk == SubSeq(toHost, 1, n)
           rest  == SubSeq(toHost, n + 1, Len(toHost))
<1>1. /\ toSidecar \in Seq(Frame) /\ toHost \in Seq(Frame) /\ Len(toHost) \in Nat
      /\ toHost' = rest /\ toSidecar' = toSidecar /\ n \in Nat
  BY DEF TurnTypeOK, HostReads
<1>2. /\ chunk \in Seq(Frame) /\ Len(chunk) = n /\ \A i \in 1..n : chunk[i] = toHost[i]
      /\ rest \in Seq(Frame) /\ Len(rest) = Len(toHost) - n
      /\ \A i \in 1..Len(toHost) - n : rest[i] = toHost[n + i]
  BY <1>1, Cutting
<1>3. /\ DOMAIN chunk = 1..n
      /\ \A i \in 1..n : i \in 1..Len(toHost) /\ i \in Int
      /\ \A i \in 1..Len(toHost') : n + i \in 1..Len(toHost) /\ toHost'[i] = toHost[n + i]
  BY <1>1, <1>2
<1> HIDE DEF chunk, rest
<1>4. /\ call' = [t \in Turn |-> IF t \in Answered(chunk) \cup Refused(chunk) THEN "over" ELSE call[t]]
      /\ listening' = (listening \ Told(chunk)) \cup Answered(chunk)
      /\ turn' = [t \in Turn |->
                    CASE Under(t) /\ t \in Told(chunk) ->
                           IF ToldDone(chunk, t) THEN "done" ELSE "error"
                      [] Under(t) /\ t \in Refused(chunk) -> "start_failed"
                      [] turn[t] = "starting" /\ t \in Answered(chunk) -> "open"
                      [] OTHER -> turn[t]]
      /\ \/ \E t \in Answered(chunk) : AnsweredLast(chunk, t) /\ active' = t
         \/ /\ Answered(chunk) = {}
            /\ active' = IF CleanedUp(chunk) # {} THEN NoTurn ELSE active
      /\ UNCHANGED <<cancelling, sidecarVars, deaths>>
  BY DEF HostReads, chunk
<1>5. ASSUME NEW t \in Turn
      PROVE  /\ turn'[t] \in {turn[t], "open"} \cup Settled
             /\ turn'[t] = "open" =>
                  \/ turn[t] = "open" /\ t \notin Told(chunk) \cup Refused(chunk)
                  \/ turn[t] = "starting" /\ t \in Answered(chunk)
             /\ turn'[t] = "starting" => turn[t] = "starting"
             /\ turn'[t] = "idle" => turn[t] = "idle"
             /\ turn'[t] \in {"idle", "starting", "open"} \cup Settled
  <2>1. turn[t] \in {"idle", "starting", "open"} \cup Settled
    BY DEF TurnTypeOK
  <2>2. CASE Under(t) /\ t \in Told(chunk)
    BY <1>4, <2>2 DEF Settled
  <2>3. CASE ~ (Under(t) /\ t \in Told(chunk)) /\ Under(t) /\ t \in Refused(chunk)
    BY <1>4, <2>3 DEF Settled
  <2>4. CASE /\ ~ (Under(t) /\ t \in Told(chunk)) /\ ~ (Under(t) /\ t \in Refused(chunk))
             /\ turn[t] = "starting" /\ t \in Answered(chunk)
    BY <1>4, <2>4 DEF Settled
  <2>5. CASE /\ ~ (Under(t) /\ t \in Told(chunk)) /\ ~ (Under(t) /\ t \in Refused(chunk))
             /\ ~ (turn[t] = "starting" /\ t \in Answered(chunk))
    <3>1. turn'[t] = turn[t]
      BY <1>4, <2>5
    <3> QED BY <2>1, <2>5, <3>1 DEF Under
  <2> QED BY <2>2, <2>3, <2>4, <2>5
<1>6. TurnTypeOK'
  <2>1. Answered(chunk) \subseteq Turn /\ active' \in Turn \cup {NoTurn}
    BY <1>4 DEF Answered, TurnTypeOK
  <2>2. turn' \in [Turn -> {"idle", "starting", "open"} \cup Settled]
    BY <1>4, <1>5
  <2>3. call' \in [Turn -> {"none", "pending", "over"}]
    BY <1>4 DEF TurnTypeOK
  <2>4. listening' \subseteq Turn
    BY <1>4, <2>1 DEF TurnTypeOK
  <2> QED BY <1>1, <1>2, <1>4, <2>1, <2>2, <2>3, <2>4 DEF TurnTypeOK, sidecarVars
<1>7. \A t \in Turn : Under(t)' => Under(t)
  BY <1>5 DEF Under, Settled
<1>8. ASSUME NEW t \in Turn, t \in Answered(chunk), Under(t)
      PROVE  /\ \E i \in 1..n : /\ toHost[i] = [kind |-> "answer", turn |-> t]
                                /\ LastOfItsKind(toHost, i)
             /\ NoRequest(toSidecar)
  <2>1. PICK i \in 1..n : chunk[i] = [kind |-> "answer", turn |-> t]
    BY <1>3, <1>8 DEF Answered
  <2>2. i \in 1..Len(toHost) /\ toHost[i] = [kind |-> "answer", turn |-> t]
    BY <1>1, <1>2, <2>1
  <2> QED BY <1>8, <2>2 DEF LastRequest, Request
<1>9. ASSUME NEW t \in Turn, turn'[t] = "open"
      PROVE  NoRequest(toSidecar') /\ NoRequest(toHost')
  <2>1. CASE turn[t] = "open"
    BY <1>1, <1>3, <2>1 DEF NoRequest
  <2>2. CASE turn[t] = "starting" /\ t \in Answered(chunk)
    <3>1. PICK i \in 1..n : LastOfItsKind(toHost, i)
      BY <1>8, <2>2 DEF Under
    <3>2. \A j \in 1..Len(toHost') : n + j > i
      BY <1>1, <1>2
    <3> QED BY <1>1, <1>3, <1>8, <2>2, <3>1, <3>2 DEF NoRequest, LastOfItsKind, Under
  <2> QED BY <1>5, <1>9, <2>1, <2>2
<1>10. ASSUME NEW t \in Turn, turn'[t] = "open" PROVE active' = t
  <2>1. CASE turn[t] = "open"
    <3>1. Under(t) /\ \A i \in 1..n : ~ Request(chunk[i])
      BY <1>2, <1>3, <2>1 DEF NoRequest, Under
    <3>2. Answered(chunk) = {} /\ Refused(chunk) = {}
      BY <1>3, <3>1 DEF Answered, Refused, Request
    <3>3. t \notin Told(chunk)
      BY <1>5, <1>10, <2>1, <3>2
    <3>4. CleanedUp(chunk) = {}
      <4>1. ASSUME NEW u \in CleanedUp(chunk) PROVE FALSE
        <5>1. Under(u) /\ u \in Told(chunk) /\ u \in Turn
          BY <3>2, <4>1 DEF CleanedUp, Told, TurnTypeOK
        <5>2. u = t
          BY <3>1, <5>1
        <5> QED BY <3>3, <5>1, <5>2
      <4> QED BY <4>1
    <3> QED BY <1>4, <2>1, <3>2, <3>4 DEF OpenTurnIsRegistered
  <2>2. CASE turn[t] = "starting" /\ t \in Answered(chunk)
    <3>1. PICK u \in Answered(chunk) : AnsweredLast(chunk, u) /\ active' = u
      BY <1>4, <2>2
    <3>2. PICK k \in 1..n : /\ toHost[k] = [kind |-> "answer", turn |-> t]
                            /\ LastOfItsKind(toHost, k)
      BY <1>8, <2>2 DEF Under
    <3>3. PICK i \in 1..n :
            /\ chunk[i] = [kind |-> "answer", turn |-> u]
            /\ \A j \in 1..n : j > i /\ chunk[j].kind = "answer"
                              => chunk[j].turn \notin Answered(chunk)
      BY <1>3, <3>1 DEF AnsweredLast
    <3>4. ~ (k > i)
      BY <1>2, <2>2, <3>2, <3>3
    <3>5. ~ (i > k)
      <4>1. Request(toHost[i])
        BY <1>2, <3>3 DEF Request
      <4> QED BY <1>3, <3>2, <4>1 DEF LastOfItsKind
    <3>6. i = k
      BY <3>4, <3>5
    <3> QED BY <1>2, <3>1, <3>2, <3>3, <3>6
  <2> QED BY <1>5, <1>10, <2>1, <2>2
<1>11. ASSUME NEW t \in Turn, Under(t)' PROVE LastRequest(t)'
  <2>1. LastRequest(t)
    BY <1>7, <1>11
  <2>2. ASSUME NEW i \in 1..Len(toHost'), Request(toHost'[i]), toHost'[i].turn = t
        PROVE  LastOfItsKind(toHost', i) /\ NoRequest(toSidecar')
    <3>1. n + i \in 1..Len(toHost) /\ toHost[n + i] = toHost'[i]
      BY <1>1, <1>2
    <3>2. LastOfItsKind(toHost, n + i) /\ NoRequest(toSidecar)
      BY <2>1, <2>2, <3>1 DEF LastRequest
    <3>3. LastOfItsKind(toHost', i)
      <4> SUFFICES ASSUME NEW j \in 1..Len(toHost'), j > i PROVE ~ Request(toHost'[j])
        BY DEF LastOfItsKind
      <4>1. n + j \in 1..Len(toHost) /\ toHost'[j] = toHost[n + j] /\ n + j > n + i
        BY <1>1, <1>2
      <4> QED BY <3>2, <4>1 DEF LastOfItsKind
    <3> QED BY <1>1, <3>2, <3>3
  <2>3. \A i \in 1..Len(toSidecar') :
          Request(toSidecar'[i]) /\ toSidecar'[i].turn = t => LastOfItsKind(toSidecar', i)
    BY <1>1, <2>1 DEF LastRequest
  <2> QED BY <2>2, <2>3 DEF LastRequest
<1>12. ASSUME NEW t \in Turn, turn'[t] = "idle"
       PROVE  NoRequestOf(toSidecar', t) /\ NoRequestOf(toHost', t)
  BY <1>1, <1>3, <1>5, <1>12 DEF NoRequestOf
<1> QED BY <1>6, <1>7, <1>9, <1>10, <1>11, <1>12 DEF OpenTurnIsRegistered

\* The death of the sidecar empties the pipes.
LEMMA CrashStep ==
  ASSUME TurnInv, Crash
  PROVE  TurnInv'
<1> USE DEF TurnInv
<1>1. TurnTypeOK'
  <2>1. deaths' \in 0..MaxDeaths
    BY CrashAssumption DEF Crash, TurnTypeOK
  <2>2. /\ turn' \in [Turn -> {"idle", "starting", "open"} \cup Settled]
        /\ call' \in [Turn -> {"none", "pending", "over"}]
        /\ task' \in [Turn -> {"none", "setup", "running", "said", "raised", "closing",
                              "ended"}]
    BY DEF Crash, TurnTypeOK, Settled
  <2> QED BY <2>1, <2>2 DEF Crash, TurnTypeOK
<1>2. \A t \in Turn : turn'[t] = turn[t] \/ (turn[t] = "starting" /\ turn'[t] = "start_failed")
  BY DEF Crash, TurnTypeOK
<1>3. toSidecar' = <<>> /\ toHost' = <<>>
  BY DEF Crash
<1>4. ASSUME NEW t \in Turn, turn'[t] = "open" PROVE active' = t
  <2>1. turn[t] = "open"
    BY <1>2, <1>4
  <2>2. \A u \in Turn : turn[u] # "starting"
    BY <2>1 DEF Under
  <2> QED BY <2>1, <2>2 DEF Crash, OpenTurnIsRegistered
<1>5. \A t, u \in Turn : Under(t)' /\ Under(u)' => t = u
  BY <1>2 DEF Under
<1> QED BY <1>1, <1>3, <1>4, <1>5 DEF OpenTurnIsRegistered, LastRequest, NoRequest, NoRequestOf

LEMMA TurnStep == TurnInv /\ [TurnNext]_turnVars => TurnInv'
<1> SUFFICES ASSUME TurnInv, [TurnNext]_turnVars PROVE TurnInv'
  OBVIOUS
<1> USE DEF TurnInv, hostVars, sidecarVars
<1>1. ASSUME NEW t \in Turn, Start(t) PROVE TurnInv'
  BY <1>1, StartStep
<1>2. ASSUME NEW t \in Turn, Abort(t) PROVE TurnInv'
  <2> DEFINE f == [kind |-> "cancel", turn |-> t]
  <2>1. f \in Frame /\ ~ Request(f) /\ toSidecar \in Seq(Frame)
    BY DEF Frame, Request, TurnTypeOK
  <2>2. toSidecar' = toSidecar \/ toSidecar' = Append(toSidecar, f)
    BY <1>2 DEF Abort
  <2>3. TurnTypeOK'
    BY <1>2, <2>1, <2>2 DEF Abort, TurnTypeOK
  <2> QED BY <1>2, <2>1, <2>2, <2>3, QuietStep DEF Abort
<1>3. ASSUME NEW t \in Turn, GraceExpires(t) PROVE TurnInv'
  <2>1. TurnTypeOK'
    BY <1>3 DEF GraceExpires, TurnTypeOK, Settled, pipes
  <2> QED BY <1>3, <2>1, GivenUp DEF GraceExpires, TurnTypeOK, Settled
<1>4. ASSUME NEW t \in Turn, StartTimesOut(t) PROVE TurnInv'
  <2>1. TurnTypeOK'
    BY <1>4 DEF StartTimesOut, TurnTypeOK, Settled, pipes
  <2> QED BY <1>4, <2>1, GivenUp DEF StartTimesOut, TurnTypeOK, Settled
<1>5. ASSUME NEW t \in Turn, Refuse(t) PROVE TurnInv'
  <2>1. TurnTypeOK'
    BY <1>5 DEF Refuse, Receives, Emit, TurnTypeOK, Frame
  <2> QED BY <1>5, <2>1, AnsweringStep DEF Refuse
<1>6. ASSUME NEW t \in Turn, Accept(t) PROVE TurnInv'
  <2>1. TurnTypeOK'
    BY <1>6 DEF Accept, Receives, Emit, TurnTypeOK, Frame
  <2> QED BY <1>6, <2>1, AnsweringStep DEF Accept
<1>7. ASSUME NEW t \in Turn, HandleCancel(t) PROVE TurnInv'
  <2>1. TurnTypeOK'
    BY <1>7 DEF HandleCancel, Receives, TurnTypeOK
  <2> QED BY <1>7, <2>1, QuietStep DEF HandleCancel, Receives
<1>8. ASSUME NEW t \in Turn, DogFires(t) PROVE TurnInv'
  <2>1. TurnTypeOK'
    BY <1>8 DEF DogFires, TurnTypeOK, pipes
  <2> QED BY <1>8, <2>1, QuietStep DEF DogFires, pipes
<1>9. ASSUME NEW t \in Turn, TaskStep(t) PROVE TurnInv'
  <2>1. UNCHANGED <<hostVars, toSidecar, deaths>>
    BY <1>9 DEF TaskStep, SetupDone, SetupFails, SetupKilled, Completes, Raises, Killed,
                Closes, Closed, pipes
  <2>2. toHost' = toHost \/ \E k \in {"done", "error"} : Emit(k, t)
    BY <1>9 DEF TaskStep, SetupDone, SetupFails, SetupKilled, Completes, Raises, Killed,
                Closes, Closed, pipes
  <2>3. toHost' = toHost \/ \E f \in Frame : ~ Request(f) /\ toHost' = Append(toHost, f)
    BY <2>2 DEF Emit, Frame, Request
  <2>4. task' \in [Turn -> {"none", "setup", "running", "said", "raised", "closing", "ended"}]
    BY <1>9 DEF TaskStep, SetupDone, SetupFails, SetupKilled, Completes, Raises, Killed,
                Closes, Closed, TurnTypeOK
  <2>5. /\ loops' \subseteq Turn /\ streams' \subseteq Turn /\ stop' \subseteq Turn
        /\ hard' \subseteq Turn /\ dogs' \subseteq Turn
    BY <1>9 DEF TaskStep, SetupDone, SetupFails, SetupKilled, Completes, Raises, Killed,
                Closes, Closed, TurnTypeOK
  <2>6. TurnTypeOK'
    BY <2>1, <2>3, <2>4, <2>5 DEF TurnTypeOK
  <2> QED BY <2>1, <2>3, <2>6, QuietStep
<1>10. ASSUME NEW n \in 1..Len(toHost), HostReads(n) PROVE TurnInv'
  BY <1>10, ReadingStep
<1>11. ASSUME Crash PROVE TurnInv'
  BY <1>11, CrashStep
<1>12. CASE UNCHANGED turnVars
  <2>1. TurnTypeOK'
    BY <1>12 DEF turnVars, TurnTypeOK, pipes
  <2> QED BY <1>12, <2>1, QuietStep DEF turnVars, pipes
<1> QED
  BY <1>1, <1>2, <1>3, <1>4, <1>5, <1>6, <1>7, <1>8, <1>9, <1>10, <1>11, <1>12
  DEF TurnNext, HostStep, SidecarReads

LEMMA TurnInvariant == TurnSpec => []TurnInv
BY TurnInitially, TurnStep, PTL DEF TurnSpec

\* Every variable keeps its type; in particular nothing but an answer, a
\* refusal, a stream.done or a stream.error is ever sent to the host.
THEOREM TurnsTyped == TurnSpec => []TurnTypeOK
<1>1. TurnInv => TurnTypeOK
  BY DEF TurnInv
<1> QED BY TurnInvariant, <1>1, PTL

\* The turn whose stream is open is the one registered for the chat, so a steer
\* reaches it: the late answer or the late end of a turn given up on never
\* takes its place.
THEOREM SteersReachTheTurn == TurnSpec => []OpenTurnIsRegistered
<1>1. TurnInv => OpenTurnIsRegistered
  BY DEF TurnInv
<1> QED BY TurnInvariant, <1>1, PTL

-----------------------------------------------------------------------------
(* The end of a loop.                                                      *)

\* A turn is started once: its request is under way once at most, and only
\* while it has no task.
StartedOnce ==
  /\ \A t \in Turn : turn[t] = "idle" => task[t] = "none"
  /\ \A i \in 1..Len(toSidecar) :
       toSidecar[i].kind = "start" =>
         /\ task[toSidecar[i].turn] = "none"
         /\ \A j \in 1..Len(toSidecar) : toSidecar[j] = toSidecar[i] => i = j

\* What a step that starts no turn and gives none a task keeps.
LEMMA NoNewStart ==
  ASSUME TurnTypeOK, TurnTypeOK', StartedOnce,
         \A t \in Turn : turn'[t] = "idle" => turn[t] = "idle",
         \A t \in Turn : task[t] = "none" => task'[t] = "none",
         \/ toSidecar' = toSidecar
         \/ \E t \in Turn : toSidecar' = Append(toSidecar, [kind |-> "cancel", turn |-> t])
         \/ toSidecar # <<>> /\ toSidecar' = Tail(toSidecar)
         \/ toSidecar' = <<>>
  PROVE  StartedOnce'
<1>0. toSidecar \in Seq(Frame)
  BY DEF TurnTypeOK
<1>s. /\ \A t \in Turn : turn'[t] = "idle" => task'[t] = "none"
      /\ \A i \in 1..Len(toSidecar) :
           toSidecar[i].kind = "start" => task'[toSidecar[i].turn] = "none"
  <2>1. \A i \in 1..Len(toSidecar) : toSidecar[i] \in Frame
    BY <1>0
  <2>2. \A i \in 1..Len(toSidecar) : toSidecar[i].turn \in Turn
    BY <2>1 DEF Frame
  <2> QED BY <2>2 DEF StartedOnce
<1>1. CASE toSidecar' = toSidecar
  BY <1>s, <1>1 DEF StartedOnce
<1>2. ASSUME NEW t \in Turn, toSidecar' = Append(toSidecar, [kind |-> "cancel", turn |-> t])
      PROVE  StartedOnce'
  <2>1. /\ Len(toSidecar') = Len(toSidecar) + 1 /\ Len(toSidecar) \in Nat
        /\ \A i \in 1..Len(toSidecar) : toSidecar'[i] = toSidecar[i]
        /\ toSidecar'[Len(toSidecar) + 1] = [kind |-> "cancel", turn |-> t]
    BY <1>0, <1>2, Appending DEF Frame
  <2>2. ASSUME NEW i \in 1..Len(toSidecar'), toSidecar'[i].kind = "start"
        PROVE  i \in 1..Len(toSidecar) /\ toSidecar[i] = toSidecar'[i]
    BY <2>1, <2>2
  <2> QED BY <1>s, <2>2 DEF StartedOnce
<1>3. CASE toSidecar # <<>> /\ toSidecar' = Tail(toSidecar)
  <2>1. /\ Len(toSidecar') = Len(toSidecar) - 1 /\ Len(toSidecar) \in Nat
        /\ \A i \in 1..Len(toSidecar) - 1 : toSidecar'[i] = toSidecar[i + 1]
    BY <1>0, <1>3, Dropping
  <2>2. ASSUME NEW i \in 1..Len(toSidecar')
        PROVE  i + 1 \in 1..Len(toSidecar) /\ toSidecar'[i] = toSidecar[i + 1]
    BY <2>1
  <2>3. ASSUME NEW i \in 1..Len(toSidecar'), toSidecar'[i].kind = "start"
        PROVE  /\ task'[toSidecar'[i].turn] = "none"
               /\ \A j \in 1..Len(toSidecar') : toSidecar'[j] = toSidecar'[i] => i = j
    <3>1. task'[toSidecar[i + 1].turn] = "none"
      BY <1>s, <2>2, <2>3
    <3>2. ASSUME NEW j \in 1..Len(toSidecar'), toSidecar'[j] = toSidecar'[i] PROVE i + 1 = j + 1
      <4>1. /\ i + 1 \in 1..Len(toSidecar) /\ toSidecar[i + 1].kind = "start"
            /\ j + 1 \in 1..Len(toSidecar) /\ toSidecar[j + 1] = toSidecar[i + 1]
        BY <2>2, <2>3, <3>2
      <4> QED BY <4>1 DEF StartedOnce
    <3>3. task'[toSidecar'[i].turn] = "none"
      BY <2>2, <3>1
    <3>4. ASSUME NEW j \in 1..Len(toSidecar'), toSidecar'[j] = toSidecar'[i] PROVE i = j
      BY <3>2, <3>4
    <3> QED BY <3>3, <3>4
  <2> QED BY <1>s, <2>3 DEF StartedOnce
<1>4. CASE toSidecar' = <<>>
  BY <1>s, <1>4 DEF StartedOnce
<1> QED BY <1>1, <1>2, <1>3, <1>4

LEMMA StartedOnceStep == TurnInv /\ TurnInv' /\ StartedOnce /\ [TurnNext]_turnVars => StartedOnce'
<1> SUFFICES ASSUME TurnInv, TurnInv', StartedOnce, [TurnNext]_turnVars PROVE StartedOnce'
  OBVIOUS
<1>0. TurnTypeOK /\ TurnTypeOK'
  BY DEF TurnInv
<1>1. ASSUME NEW t \in Turn, Start(t) PROVE StartedOnce'
  <2> DEFINE f == [kind |-> "start", turn |-> t]
  <2>1. /\ f \in Frame /\ toSidecar' = Append(toSidecar, f) /\ task' = task
        /\ turn' = [turn EXCEPT ![t] = "starting"] /\ turn[t] = "idle"
        /\ toSidecar \in Seq(Frame)
    BY <1>0, <1>1 DEF Start, Frame, sidecarVars, TurnTypeOK
  <2>2. /\ Len(toSidecar') = Len(toSidecar) + 1 /\ Len(toSidecar) \in Nat
        /\ \A i \in 1..Len(toSidecar) : toSidecar'[i] = toSidecar[i]
        /\ toSidecar'[Len(toSidecar) + 1] = f
    BY <2>1, Appending
  <2>3. task[t] = "none" /\ \A i \in 1..Len(toSidecar) : toSidecar[i] # f
    BY <2>1 DEF StartedOnce, TurnInv, NoRequestOf, Request
  <2>4. \A u \in Turn : turn'[u] = "idle" => task'[u] = "none"
    BY <1>0, <2>1 DEF StartedOnce, TurnTypeOK
  <2>5. ASSUME NEW i \in 1..Len(toSidecar'), toSidecar'[i].kind = "start"
        PROVE  /\ task'[toSidecar'[i].turn] = "none"
               /\ \A j \in 1..Len(toSidecar') : toSidecar'[j] = toSidecar'[i] => i = j
    <3>1. CASE i = Len(toSidecar) + 1
      BY <2>1, <2>2, <2>3, <3>1
    <3>2. CASE i \in 1..Len(toSidecar)
      BY <2>1, <2>2, <2>3, <2>5, <3>2 DEF StartedOnce
    <3> QED BY <2>2, <3>1, <3>2
  <2> QED BY <2>4, <2>5 DEF StartedOnce
<1>2. ASSUME NEW t \in Turn, Accept(t) PROVE StartedOnce'
  <2>1. /\ toSidecar # <<>> /\ Head(toSidecar) = [kind |-> "start", turn |-> t]
        /\ toSidecar' = Tail(toSidecar) /\ toSidecar \in Seq(Frame)
        /\ task' = [task EXCEPT ![t] = "setup"] /\ turn' = turn
    BY <1>0, <1>2 DEF Accept, Receives, hostVars, TurnTypeOK
  <2>2. /\ Len(toSidecar') = Len(toSidecar) - 1 /\ Len(toSidecar) \in Nat /\ Len(toSidecar) > 0
        /\ \A i \in 1..Len(toSidecar) - 1 : toSidecar'[i] = toSidecar[i + 1]
        /\ toSidecar[1] = [kind |-> "start", turn |-> t]
    BY <2>1, Dropping
  <2>3. turn[t] # "idle"
    BY <2>2 DEF TurnInv, NoRequestOf, Request
  <2>4. \A u \in Turn : turn'[u] = "idle" => task'[u] = "none"
    BY <1>0, <2>1, <2>3 DEF StartedOnce, TurnTypeOK
  <2>5. ASSUME NEW i \in 1..Len(toSidecar')
        PROVE  i + 1 \in 1..Len(toSidecar) /\ toSidecar'[i] = toSidecar[i + 1] /\ i + 1 # 1
               /\ toSidecar[i + 1] \in Frame
    BY <2>1, <2>2
  <2>6. ASSUME NEW i \in 1..Len(toSidecar'), toSidecar'[i].kind = "start"
        PROVE  /\ task'[toSidecar'[i].turn] = "none"
               /\ \A j \in 1..Len(toSidecar') : toSidecar'[j] = toSidecar'[i] => i = j
    <3>1. toSidecar[i + 1] # toSidecar[1]
      BY <2>2, <2>5, <2>6 DEF StartedOnce
    <3>2. toSidecar'[i].turn # t
      BY <2>2, <2>5, <2>6, <3>1 DEF Frame
    <3>3. task[toSidecar'[i].turn] = "none"
      BY <2>5, <2>6 DEF StartedOnce
    <3>4. ASSUME NEW j \in 1..Len(toSidecar'), toSidecar'[j] = toSidecar'[i] PROVE i + 1 = j + 1
      BY <2>5, <2>6, <3>4 DEF StartedOnce
    <3> QED BY <1>0, <2>1, <3>2, <3>3, <3>4 DEF TurnTypeOK
  <2> QED BY <2>4, <2>6 DEF StartedOnce
<1>3. ASSUME NEW t \in Turn, Abort(t) PROVE StartedOnce'
  BY <1>0, <1>3, NoNewStart DEF Abort, sidecarVars
<1>4. ASSUME NEW t \in Turn, GraceExpires(t) \/ StartTimesOut(t) PROVE StartedOnce'
  <2>1. \A u \in Turn : turn'[u] = "idle" => turn[u] = "idle"
    BY <1>0, <1>4 DEF GraceExpires, StartTimesOut, TurnTypeOK
  <2> QED BY <1>0, <1>4, <2>1, NoNewStart DEF GraceExpires, StartTimesOut, pipes, sidecarVars
<1>5. ASSUME NEW t \in Turn, Refuse(t) \/ HandleCancel(t) PROVE StartedOnce'
  BY <1>0, <1>5, NoNewStart DEF Refuse, HandleCancel, Receives, hostVars, sidecarVars
<1>6. ASSUME NEW t \in Turn, DogFires(t) PROVE StartedOnce'
  BY <1>0, <1>6, NoNewStart DEF DogFires, hostVars, pipes
<1>7. ASSUME NEW t \in Turn, TaskStep(t) PROVE StartedOnce'
  <2>1. toSidecar' = toSidecar /\ turn' = turn
    BY <1>7 DEF TaskStep, SetupDone, SetupFails, SetupKilled, Completes, Raises, Killed, Closes,
                Closed, hostVars, pipes
  <2>2. \A u \in Turn : task[u] = "none" => task'[u] = "none"
    BY <1>0, <1>7 DEF TaskStep, SetupDone, SetupFails, SetupKilled, Completes, Raises, Killed,
                      Closes, Closed, TurnTypeOK
  <2> QED BY <1>0, <2>1, <2>2, NoNewStart
<1>8. ASSUME NEW n \in 1..Len(toHost), HostReads(n) PROVE StartedOnce'
  <2>1. \A u \in Turn : turn'[u] = "idle" => turn[u] = "idle"
    BY <1>0, <1>8 DEF HostReads, TurnTypeOK, Under
  <2> QED BY <1>0, <1>8, <2>1, NoNewStart DEF HostReads, sidecarVars
<1>9. ASSUME Crash PROVE StartedOnce'
  <2>1. /\ \A u \in Turn : turn'[u] = "idle" => turn[u] = "idle"
        /\ \A u \in Turn : task[u] = "none" => task'[u] = "none"
    BY <1>0, <1>9 DEF Crash, TurnTypeOK
  <2> QED BY <1>0, <1>9, <2>1, NoNewStart DEF Crash
<1>10. CASE UNCHANGED turnVars
  BY <1>0, <1>10, NoNewStart DEF turnVars, hostVars, pipes, sidecarVars
<1> QED
  BY <1>1, <1>2, <1>3, <1>4, <1>5, <1>6, <1>7, <1>8, <1>9, <1>10
  DEF TurnNext, HostStep, SidecarReads

\* The steps that end a running loop say so.
LEMMA EndIsSaid ==
  ASSUME TurnInv, StartedOnce, [TurnNext]_turnVars, NEW t \in Turn,
         task[t] = "running", task'[t] \notin {"running", "ended"}
  PROVE  Heard(t)'
<1>0. TurnTypeOK /\ toHost \in Seq(Frame)
  BY DEF TurnInv, TurnTypeOK
<1>1. \E kind \in {"done", "error"} : Emit(kind, t)
  <2>1. ASSUME NEW u \in Turn, Accept(u) PROVE FALSE
    <3>1. toSidecar # <<>> /\ toSidecar \in Seq(Frame) /\ task' = [task EXCEPT ![u] = "setup"]
          /\ Head(toSidecar) = [kind |-> "start", turn |-> u]
      BY <1>0, <2>1 DEF Accept, Receives, TurnTypeOK
    <3>2. toSidecar[1] = [kind |-> "start", turn |-> u] /\ 1 \in 1..Len(toSidecar)
      BY <3>1, Dropping
    <3> QED BY <1>0, <3>1, <3>2 DEF StartedOnce, TurnTypeOK
  <2>2. ASSUME NEW u \in Turn, TaskStep(u) PROVE \E kind \in {"done", "error"} : Emit(kind, t)
    BY <1>0, <2>2 DEF TaskStep, SetupDone, SetupFails, SetupKilled, Completes, Raises, Killed,
                      Closes, Closed, TurnTypeOK
  <2>3. ASSUME Crash PROVE FALSE
    BY <1>0, <2>3 DEF Crash, TurnTypeOK
  <2>4. ASSUME task' = task PROVE FALSE
    BY <2>4
  <2>5. ASSUME NEW u \in Turn, HostStep(u) \/ DogFires(u) \/ Refuse(u) \/ HandleCancel(u)
        PROVE  task' = task
    BY <2>5 DEF HostStep, Start, Abort, GraceExpires, StartTimesOut, DogFires, Refuse,
                HandleCancel, sidecarVars
  <2>6. ASSUME NEW n \in 1..Len(toHost), HostReads(n) PROVE task' = task
    BY <2>6 DEF HostReads, sidecarVars
  <2>7. CASE UNCHANGED turnVars
    BY <2>4, <2>7 DEF turnVars, sidecarVars
  <2> QED BY <2>1, <2>2, <2>3, <2>4, <2>5, <2>6, <2>7 DEF TurnNext, SidecarReads
<1>2. PICK kind \in {"done", "error"} : toHost' = Append(toHost, [kind |-> kind, turn |-> t])
  BY <1>1 DEF Emit
<1>3. [kind |-> kind, turn |-> t] \in Frame
  BY DEF Frame
<1>4. /\ Len(toHost) + 1 \in DOMAIN toHost'
      /\ toHost'[Len(toHost) + 1] = [kind |-> kind, turn |-> t]
  BY <1>0, <1>2, <1>3
<1> QED BY <1>4 DEF Heard

\* Every loop that ends otherwise than by the death of the sidecar is heard:
\* also one that is cancelled emits a terminal notification first.
THEOREM LoopsEndAloud == TurnSpec => EndOfALoopIsSaid
<1>1. TurnInit => StartedOnce
  BY DEF TurnInit, StartedOnce
<1>2. TurnInv /\ StartedOnce /\ [TurnNext]_turnVars =>
        [\A t \in Turn : task[t] = "running" /\ task'[t] \notin {"running", "ended"}
           => Heard(t)']_turnVars
  BY EndIsSaid
<1> QED BY <1>1, <1>2, TurnInvariant, StartedOnceStep, PTL DEF TurnSpec, EndOfALoopIsSaid

-----------------------------------------------------------------------------
(* The compaction of a transcript                                          *)

\* The counts are the lengths of the runs they count: the last passes of the
\* story failed, the last ones that worked each came within the window of the
\* one before.
FailuresAreCounted ==
  /\ failures <= Len(story)
  /\ \A i \in DOMAIN story : i > Len(story) - failures => story[i] = "failed"

RefillsAreCounted ==
  /\ refills < Len(worked)
  /\ worked[Len(worked)] = lastRound
  /\ \A i \in DOMAIN worked : i > Len(worked) - refills =>
       worked[i - 1] # Never /\ worked[i] - worked[i - 1] <= RefillWindow

\* The attempts of a round are counted from one in each round.
RetriesAreBounded ==
  /\ retryRound <= round
  /\ stage = "pre" => retryRound < round
  /\ stage # "failed" /\ retryRound = round => retries <= MaxRetries

CompactionInv ==
  CompactionTypeOK /\ FailuresAreCounted /\ RefillsAreCounted /\ RetriesAreBounded

LEMMA CompactionConstants ==
  /\ Threshold \in Nat /\ Kept \in Nat /\ RefillWindow \in Nat /\ Growth \subseteq Nat
  /\ MaxRefills \in Nat \ {0} /\ MaxFailures \in Nat \ {0} /\ MaxRetries \in Nat \ {0}
  /\ MaxRounds \in Nat \ {0}
BY CompactionAssumption

LEMMA CompactionInitially == CompactionInit => CompactionInv
<1> SUFFICES ASSUME CompactionInit PROVE CompactionInv
  OBVIOUS
<1>1. CompactionTypeOK
  BY CompactionConstants DEF CompactionInit, CompactionTypeOK, Never
<1>2. FailuresAreCounted /\ RefillsAreCounted /\ RetriesAreBounded
  BY CompactionConstants
     DEF CompactionInit, FailuresAreCounted, RefillsAreCounted, RetriesAreBounded, Never
<1> QED BY <1>1, <1>2 DEF CompactionInv

\* A step that leaves the counts and what they count alone.
LEMMA CountsUntouched ==
  ASSUME CompactionInv, UNCHANGED <<failures, refills, lastRound, story, worked>>
  PROVE  FailuresAreCounted' /\ RefillsAreCounted'
BY DEF CompactionInv, FailuresAreCounted, RefillsAreCounted

LEMMA PressurePassStep == CompactionInv /\ PressurePass => CompactionInv'
<1> SUFFICES ASSUME CompactionInv, PressurePass PROVE CompactionInv'
  OBVIOUS
<1> USE CompactionConstants
<1>1. PICK after \in {tokens} \cup Kept..(tokens + 1) :
        /\ tokens' = after
        /\ IF after < Threshold THEN NoteSuccess ELSE NoteFailure
        /\ story' = Append(story, IF after < Threshold THEN "worked" ELSE "failed")
        /\ worked' = IF after < Threshold THEN Append(worked, round) ELSE worked
  BY DEF PressurePass
<1>2. /\ round \in 1..MaxRounds /\ tokens \in Nat /\ after \in Nat
      /\ failures \in Nat /\ refills \in Nat /\ lastRound \in 0..MaxRounds
      /\ story \in Seq({"worked", "failed"}) /\ worked \in Seq(0..MaxRounds)
  BY DEF CompactionInv, CompactionTypeOK
<1>3. /\ lastPressure' = tokens /\ stage = "pre" /\ stage' = "request"
      /\ UNCHANGED <<round, retryRound, retries>>
  BY DEF PressurePass
<1>4. RetriesAreBounded'
  BY <1>3 DEF CompactionInv, CompactionTypeOK, RetriesAreBounded
<1>5. CASE after < Threshold
  <2>1. /\ failures' = 0 /\ lastRound' = round
        /\ refills' = IF Refilled THEN refills + 1 ELSE 0
        /\ circuit' \in {circuit, "rapid_refill"}
        /\ story' = Append(story, "worked") /\ worked' = Append(worked, round)
    BY <1>1, <1>5 DEF NoteSuccess
  <2>2. CompactionTypeOK'
    <3>1. story' \in Seq({"worked", "failed"}) /\ worked' \in Seq(0..MaxRounds)
      BY <1>2, <2>1
    <3>2. circuit' \in {"closed", "consecutive_failures", "rapid_refill"}
      BY <2>1 DEF CompactionInv, CompactionTypeOK
    <3> QED BY <1>1, <1>2, <1>3, <2>1, <3>1, <3>2 DEF CompactionInv, CompactionTypeOK
  <2>3. FailuresAreCounted'
    BY <1>2, <2>1 DEF FailuresAreCounted
  <2>4. RefillsAreCounted'
    <3>1. /\ Len(worked') = Len(worked) + 1 /\ DOMAIN worked' = 1..(Len(worked) + 1)
          /\ worked'[Len(worked) + 1] = round
          /\ \A i \in 1..Len(worked) : worked'[i] = worked[i]
      BY <1>2, <2>1
    <3>2. /\ refills < Len(worked) /\ Len(worked) \in Nat /\ worked[Len(worked)] = lastRound
          /\ \A i \in 1..Len(worked) : i > Len(worked) - refills =>
               worked[i - 1] # Never /\ worked[i] - worked[i - 1] <= RefillWindow
      BY <1>2 DEF CompactionInv, RefillsAreCounted
    <3>3. CASE Refilled
      <4>1. refills' = refills + 1 /\ lastRound # Never /\ round - lastRound <= RefillWindow
        BY <2>1, <3>3 DEF Refilled
      <4>2. ASSUME NEW i \in 1..(Len(worked) + 1), i > Len(worked) - refills
            PROVE  worked'[i - 1] # Never /\ worked'[i] - worked'[i - 1] <= RefillWindow
        <5>1. CASE i = Len(worked) + 1
          BY <1>2, <3>1, <3>2, <4>1, <5>1
        <5>2. CASE i \in 1..Len(worked)
          <6>1. i - 1 \in 1..Len(worked)
            BY <1>2, <3>2, <4>2, <5>2
          <6> QED BY <3>1, <3>2, <4>2, <5>2, <6>1
        <5> QED BY <1>2, <3>2, <5>1, <5>2
      <4>3. Len(worked') - refills' = Len(worked) - refills /\ refills' < Len(worked')
        BY <1>2, <3>1, <3>2, <4>1
      <4> QED BY <2>1, <3>1, <4>2, <4>3 DEF RefillsAreCounted
    <3>4. CASE ~Refilled
      BY <1>2, <2>1, <3>1, <3>2, <3>4 DEF RefillsAreCounted
    <3> QED BY <3>3, <3>4
  <2> QED BY <1>4, <2>2, <2>3, <2>4 DEF CompactionInv
<1>6. CASE ~(after < Threshold)
  <2>1. /\ failures' = failures + 1 /\ UNCHANGED <<refills, lastRound, worked>>
        /\ circuit' \in {circuit, "consecutive_failures"}
        /\ story' = Append(story, "failed")
    BY <1>1, <1>6 DEF NoteFailure
  <2>2. CompactionTypeOK'
    BY <1>1, <1>2, <1>3, <2>1 DEF CompactionInv, CompactionTypeOK
  <2>3. FailuresAreCounted'
    <3>1. /\ Len(story') = Len(story) + 1 /\ DOMAIN story' = 1..(Len(story) + 1)
          /\ story'[Len(story) + 1] = "failed"
          /\ \A i \in 1..Len(story) : story'[i] = story[i]
      BY <1>2, <2>1
    <3>2. /\ failures <= Len(story) /\ Len(story) \in Nat
          /\ \A i \in 1..Len(story) : i > Len(story) - failures => story[i] = "failed"
      BY <1>2 DEF CompactionInv, FailuresAreCounted
    <3>3. Len(story') - failures' = Len(story) - failures /\ failures' <= Len(story')
      BY <1>2, <2>1, <3>1, <3>2
    <3>4. ASSUME NEW i \in 1..(Len(story) + 1), i > Len(story) - failures PROVE story'[i] = "failed"
      BY <3>1, <3>2, <3>4
    <3> QED BY <3>1, <3>3, <3>4 DEF FailuresAreCounted
  <2>4. RefillsAreCounted'
    BY <2>1 DEF CompactionInv, RefillsAreCounted
  <2> QED BY <1>4, <2>2, <2>3, <2>4 DEF CompactionInv
<1> QED BY <1>5, <1>6

LEMMA CompactionStep == CompactionInv /\ [CompactionNext]_compactionVars => CompactionInv'
<1> SUFFICES ASSUME CompactionInv, [CompactionNext]_compactionVars PROVE CompactionInv'
  OBVIOUS
<1> USE CompactionConstants
<1>1. CompactionTypeOK /\ RetriesAreBounded /\ RefillsAreCounted
  BY DEF CompactionInv
<1>2. CASE MicroCompact
  <2>1. CompactionTypeOK' /\ RetriesAreBounded'
    BY <1>1, <1>2 DEF MicroCompact, CompactionTypeOK, RetriesAreBounded
  <2> QED BY <1>2, <2>1, CountsUntouched DEF MicroCompact, CompactionInv
<1>3. CASE Healthy
  <2>1. worked' = <<lastRound>> /\ story' = <<>> /\ failures' = 0 /\ refills' = 0
    BY <1>1, <1>3 DEF Healthy, RefillsAreCounted
  <2>2. CompactionTypeOK' /\ RetriesAreBounded'
    BY <1>1, <1>3, <2>1 DEF Healthy, CompactionTypeOK, RetriesAreBounded
  <2>3. FailuresAreCounted' /\ RefillsAreCounted'
    BY <1>3, <2>1 DEF Healthy, FailuresAreCounted, RefillsAreCounted
  <2> QED BY <2>2, <2>3 DEF CompactionInv
<1>4. CASE Held
  <2>1. CompactionTypeOK' /\ RetriesAreBounded'
    BY <1>1, <1>4 DEF Held, CompactionTypeOK, RetriesAreBounded
  <2> QED BY <1>4, <2>1, CountsUntouched DEF Held, CompactionInv
<1>5. CASE PressurePass
  BY <1>5, PressurePassStep
<1>6. CASE ManualPass
  <2>1. CompactionTypeOK' /\ RetriesAreBounded'
    BY <1>1, <1>6 DEF ManualPass, CompactionTypeOK, RetriesAreBounded, Never
  <2>2. FailuresAreCounted' /\ RefillsAreCounted'
    BY <1>6 DEF ManualPass, FailuresAreCounted, RefillsAreCounted
  <2> QED BY <2>1, <2>2 DEF CompactionInv
<1>7. CASE Fits
  <2>1. CompactionTypeOK' /\ RetriesAreBounded'
    BY <1>1, <1>7 DEF Fits, CompactionTypeOK, RetriesAreBounded
  <2> QED BY <1>7, <2>1, CountsUntouched DEF Fits, CompactionInv
<1>8. CASE Overflows
  <2>1. CompactionTypeOK' /\ RetriesAreBounded'
    BY <1>1, <1>8 DEF Overflows, Attempt, CompactionTypeOK, RetriesAreBounded
  <2> QED BY <1>8, <2>1, CountsUntouched DEF Overflows, CompactionInv
<1>9. CASE NextRound
  <2>1. CompactionTypeOK' /\ RetriesAreBounded'
    BY <1>1, <1>9 DEF NextRound, CompactionTypeOK, RetriesAreBounded
  <2> QED BY <1>9, <2>1, CountsUntouched DEF NextRound, CompactionInv
<1>10. CASE UNCHANGED compactionVars
  <2>1. CompactionTypeOK' /\ RetriesAreBounded'
    BY <1>1, <1>10 DEF compactionVars, CompactionTypeOK, RetriesAreBounded
  <2> QED BY <1>10, <2>1, CountsUntouched DEF compactionVars, CompactionInv
<1> QED BY <1>2, <1>3, <1>4, <1>5, <1>6, <1>7, <1>8, <1>9, <1>10 DEF CompactionNext, PreStep

LEMMA CompactionAlways == CompactionSpec => []CompactionInv
BY CompactionInitially, CompactionStep, PTL DEF CompactionSpec

\* A breaker that opens was earned, as the counts that hold in the new state say.
LEMMA BreakerStep ==
  ASSUME CompactionInv, CompactionInv', [CompactionNext]_compactionVars, circuit' # circuit
  PROVE  \/ circuit' = "consecutive_failures" /\ FailedInARow
         \/ circuit' = "rapid_refill" /\ RefilledInARow
<1> USE CompactionConstants
<1>1. PressurePass
  BY DEF CompactionNext, PreStep, compactionVars, MicroCompact, Healthy, Held, ManualPass, Fits,
         Overflows, NextRound
<1>2. circuit = "closed"
  BY <1>1 DEF PressurePass
<1>3. /\ failures' \in Nat /\ refills' \in Nat
      /\ story' \in Seq({"worked", "failed"}) /\ worked' \in Seq(0..MaxRounds)
  BY DEF CompactionInv, CompactionTypeOK
<1>4. CASE circuit' = "consecutive_failures" /\ failures' >= MaxFailures
  BY <1>3, <1>4 DEF CompactionInv, FailuresAreCounted, FailedInARow
<1>5. CASE circuit' = "rapid_refill" /\ refills' >= MaxRefills
  <2>1. /\ Len(worked') \in Nat /\ DOMAIN worked' = 1..Len(worked')
        /\ MaxRefills < Len(worked')
    BY <1>3, <1>5 DEF CompactionInv, RefillsAreCounted
  <2>2. ASSUME NEW i \in (Len(worked') - MaxRefills + 1)..Len(worked')
        PROVE  worked'[i - 1] # Never /\ worked'[i] - worked'[i - 1] <= RefillWindow
    <3>1. i \in DOMAIN worked' /\ i > Len(worked') - refills'
      BY <1>3, <1>5, <2>1
    <3> QED BY <3>1 DEF CompactionInv, RefillsAreCounted
  <2> QED BY <1>5, <2>1, <2>2 DEF RefilledInARow
<1>6. PICK after \in {tokens} \cup Kept..(tokens + 1) :
        IF after < Threshold THEN NoteSuccess ELSE NoteFailure
  BY <1>1 DEF PressurePass
<1>7. CASE NoteSuccess
  BY <1>2, <1>5, <1>7 DEF NoteSuccess
<1>8. CASE NoteFailure
  BY <1>2, <1>4, <1>8 DEF NoteFailure
<1> QED BY <1>6, <1>7, <1>8

\* Types of the hook's fields.
THEOREM CompactionTyped == CompactionSpec => []CompactionTypeOK
<1>1. CompactionInv => CompactionTypeOK
  BY DEF CompactionInv
<1> QED BY <1>1, CompactionAlways, PTL

\* A breaker opens only on so many passes in vain, or so many refills, in a row
\* (compaction.py, _note_successful_compaction and pre_step).
THEOREM BreakersAreEarned == CompactionSpec => BreakerIsEarned
<1>1. CompactionInv /\ CompactionInv' /\ [CompactionNext]_compactionVars =>
        [circuit' # circuit =>
           \/ circuit' = "consecutive_failures" /\ FailedInARow
           \/ circuit' = "rapid_refill" /\ RefilledInARow]_compactionVars
  BY BreakerStep
<1> QED BY <1>1, CompactionAlways, PTL DEF CompactionSpec, BreakerIsEarned
=============================================================================
