---------------------------- MODULE ChatHistory -----------------------------
(***************************************************************************)
(* One chat, kept twice: the host's table of messages, which the user sees *)
(* (router.ts, regenerate-helper.ts, interrupted-helper.ts), and the       *)
(* sidecar's durable record, which the model is shown (HistoryRecord).     *)
(* Every turn the host sends what its table says and the loop decides how  *)
(* that joins the record; both processes may die between any two steps.    *)
(*                                                                         *)
(* A run is a CoreLoop turn driven by the bridge (native_bridge.py).  The  *)
(* store's calls do not suspend (an uncontended lock around synchronous    *)
(* sqlite), so planning, the boundary and the new ContextManager are one   *)
(* step, and so are draining the manager and storing the batch.            *)
(***************************************************************************)
EXTENDS HistoryRecord

CONSTANTS
  MaxTurns,       (* bound: turns of the chat, resumed and rerun ones too   *)
  MaxRounds,      (* bound: tool rounds of a turn                           *)
  MaxCompactions, (* bound: compactions of the chat                         *)
  MaxMishaps,     (* bound: events that are not part of a plain turn        *)
  Mishaps,        (* the kinds of them that happen                          *)
  RecentReplies   (* replies whose tool calls the host spells out; 2        *)

ASSUME BoundsAssumption ==
  {MaxTurns, MaxRounds, MaxCompactions, MaxMishaps, RecentReplies} \subseteq Nat

Turn == 1..MaxTurns

VARIABLES
  host,        (* the chat's rows: [turn, role, text, acted]                *)
  active,      (* the durable turn_active marker                            *)
  record,      (* the entries of the record the chat points to              *)
  turn,        (* each turn's request handler: mode, phase, said, acted     *)
  run,         (* the loop of the turn the sidecar works on, or NoWork      *)
  unwound,     (* a batch that a cancelled loop's worker thread still holds *)
  inbox,       (* steers the loop accepted and has not polled               *)
  system,      (* version of the host's system prompt                       *)
  compactions, (* counts compactions                                        *)
  mishaps,     (* counts the events of Mishaps                              *)
  plain,       (* history: nothing yet made the host's texts differ from    *)
               (* those of the record                                       *)
  truncated,   (* history: rows were deleted and the record not forked      *)
  overlapped   (* history: a cancelled loop's worker lived on               *)

historyVars == <<host, active, record, turn, run, unwound, inbox, system,
                 compactions, mishaps, plain, truncated, overlapped>>

NoWork == [turn |-> 0, step |-> "idle", items |-> <<>>, pending |-> <<>>,
           next |-> 0, rounds |-> 0, sent |-> <<>>]

\* Pieces of text.  A summary is the list of what it stands for.
Piece(by, n)   == [by |-> by, n |-> n, of |-> <<>>]
Summary(items) == [by |-> "summary", n |-> 0, of |-> items]

Row(t, role, text, acted) == [turn |-> t, role |-> role, text |-> text, acted |-> acted]

HistoryTypeOK ==
  /\ \A i \in DOMAIN host : host[i].turn \in Turn /\ host[i].role \in {"user", "assistant"}
  /\ active \in BOOLEAN
  /\ \A i \in DOMAIN record : record[i].type \in {"item", "boundary", "seed"}
  /\ \A i, j \in DOMAIN record : i < j => record[i].seq < record[j].seq
  /\ turn \in [Turn -> [mode : {"none", "send", "early", "resume", "regenerate"},
                        phase : {"unsent", "said", "open", "ended", "stored", "done", "dead"},
                        said : Seq([by : {"says", "reply", "part"}, n : Nat, of : {<<>>}]),
                        acted : BOOLEAN]]
  /\ run.step \in {"idle", "gather", "asked"}
  /\ (run.step # "idle") <=> (run # NoWork)
  /\ mishaps \in 0..MaxMishaps /\ compactions \in 0..MaxCompactions
  /\ plain \in BOOLEAN /\ truncated \in BOOLEAN /\ overlapped \in BOOLEAN

HistoryInit ==
  /\ host = <<>> /\ active = FALSE /\ record = <<>>
  /\ turn = [t \in Turn |-> [mode |-> "none", phase |-> "unsent", said |-> <<>>, acted |-> FALSE]]
  /\ run = NoWork /\ unwound = <<>> /\ inbox = <<>> /\ system = 1
  /\ compactions = 0 /\ mishaps = 0
  /\ plain = TRUE /\ truncated = FALSE /\ overlapped = FALSE

\* One of the events that a plain turn does not have.
Mishap(kind) == kind \in Mishaps /\ mishaps < MaxMishaps /\ mishaps' = mishaps + 1

\* Over: nothing of the turn is still to run.
Over(t) == turn[t].phase \in {"done", "dead"}

\* t is the next turn of the chat.
Fresh(t) == turn[t].phase = "unsent" /\ \A s \in 1..(t - 1) : turn[s].phase # "unsent"

Begin(t, mode) == turn' = [turn EXCEPT ![t].mode = mode, ![t].phase = "said"]

-----------------------------------------------------------------------------
(* The host.                                                               *)

\* The message route up to the stored user message.  A message sent early
\* finds the reply of the turn before it streamed and not yet stored.
Say(t) ==
  /\ Fresh(t)
  /\ run = NoWork
  /\ \A s \in 1..(t - 1) : turn[s].phase \in {"ended", "stored", "done", "dead"}
  /\ IF \A s \in 1..(t - 1) : Over(s) THEN Begin(t, "send") /\ UNCHANGED <<mishaps, plain>>
     ELSE Begin(t, "early") /\ Mishap("early") /\ plain' = FALSE
  /\ host' = Append(host, Row(t, "user", <<Piece("user", t)>>, FALSE))
  /\ UNCHANGED <<active, record, run, unwound, inbox, system, compactions, truncated,
                 overlapped>>

\* buildConversationMessages leaves out the row just stored (by its id when
\* sending, by its place when rerunning)
Earlier(t, i) ==
  IF turn[t].mode \in {"send", "early"} THEN ~(host[i].turn = t /\ host[i].role = "user")
  ELSE ~(i = Len(host) /\ host[i].role = "user")

\* and spells the tool calls of the newest replies out behind them; a text
\* that is still empty is left out.
HostSeed(t) ==
  LET replies == {j \in DOMAIN host : Earlier(t, j) /\ host[j].role = "assistant"}
      recent(i) == Cardinality({j \in replies : i <= j}) <= RecentReplies
      text(i) == IF i \in replies /\ host[i].acted /\ recent(i)
                 THEN Append(host[i].text, Piece("acts", host[i].turn)) ELSE host[i].text
  IN  FlattenSeq([i \in DOMAIN host |->
        IF Earlier(t, i) /\ text(i) # <<>> THEN <<Item(host[i].role, text(i))>> ELSE <<>>])

\* The text of the last user row: the prompt of the turn about to run.
Prompt == host[Max({i \in DOMAIN host : host[i].role = "user"})].text

SystemItem(v) == Item("system", <<Piece("system", v)>>)

\* What the loop is given: the host's messages, or the replayed projection
\* without its leading system message; the system prompt comes first.
SeedMessages(t, v, extra) ==
  IF turn[t].mode = "resume"
  THEN LET replayed == Bares(LoadItems(record))
           body == IF replayed # <<>> /\ replayed[1].kind = "system" THEN Tail(replayed) ELSE replayed
       IN  <<SystemItem(v)>> \o body
  ELSE <<SystemItem(v)>> \o HostSeed(t) \o <<Item("user", Prompt \o extra)>>

\* Variant: the durable part is flushed once more.
StartedRunUnmarked(t, messages, plan) ==
  [turn |-> t, step |-> "gather", items |-> plan.items,
   pending |-> Numbered(plan.first, plan.items),
   next |-> plan.first + Len(plan.items), rounds |-> 0, sent |-> messages]

\* A run that starts from these messages: the boundary is stored at once, and
\* the messages that are not durable yet wait for the first flush.
StartedRun(t, messages, plan) ==
  LET entries == Numbered(plan.first, plan.items)
  IN  [turn |-> t, step |-> "gather", items |-> plan.items,
       pending |-> SubSeq(entries, plan.durable + 1, Len(entries)),
       next |-> plan.first + Len(plan.items), rounds |-> 0, sent |-> messages]

\* handleCoreLoopTurn up to the stream: the marker is set, the loop is
\* planned and started.  The current message may be sent dressed up (a forced
\* skill, attachments, a delegation), and the system prompt may have changed.
Open(t) ==
  /\ turn[t].phase = "said"
  /\ run = NoWork
  /\ \E v \in {system, system + 1}, extra \in {<<>>, <<Piece("extra", t)>>} :
       LET messages == SeedMessages(t, v, extra)
           plan == PlanSeeding(record, messages)
       IN  /\ \/ v = system /\ extra = <<>> /\ UNCHANGED <<mishaps, plain>>
              \/ /\ v # system /\ extra = <<>> /\ Mishap("system") /\ plain' = FALSE
              \/ /\ v = system /\ extra # <<>> /\ turn[t].mode # "resume"
                 /\ Mishap("dressed") /\ plain' = FALSE
           /\ system' = v
           /\ active' = TRUE
           /\ IF turn[t].mode = "resume" /\ record = <<>>
              THEN /\ turn' = [turn EXCEPT ![t].phase = "ended"]   \* refused
                   /\ UNCHANGED <<record, run>>
              ELSE /\ turn' = [turn EXCEPT ![t].phase = "open"]
                   /\ record' = record \o plan.boundary
                   /\ run' = StartedRun(t, messages, plan)
  /\ UNCHANGED <<host, unwound, inbox, compactions, truncated, overlapped>>

\* The reply is stored when the stream has ended, whatever there is of it;
StoreReply(t) ==
  /\ turn[t].phase = "ended"
  /\ host' = Append(host, Row(t, "assistant", turn[t].said, turn[t].acted))
  /\ turn' = [turn EXCEPT ![t].phase = "stored"]
  /\ UNCHANGED <<active, record, run, unwound, inbox, system, compactions, mishaps,
                 plain, truncated, overlapped>>

\* Variant: the marker is taken away before the reply is stored.
ClearTurnActiveFirst(t) ==
  /\ turn[t].phase = "ended" /\ active
  /\ active' = FALSE
  /\ UNCHANGED <<host, turn, record, run, unwound, inbox, system, compactions, mishaps,
                 plain, truncated, overlapped>>

\* then the marker, which is the chat's and not the turn's, is taken away.
ClearTurnActive(t) ==
  /\ turn[t].phase = "stored"
  /\ active' = FALSE
  /\ turn' = [turn EXCEPT ![t].phase = "done"]
  /\ UNCHANGED <<host, record, run, unwound, inbox, system, compactions, mishaps,
                 plain, truncated, overlapped>>

\* A message sent into the running turn: the loop takes it, the host stores it.
Steer ==
  /\ run # NoWork
  /\ Mishap("steer")
  /\ inbox' = Append(inbox, Item("steer", <<Piece("steer", mishaps)>>))
  /\ host' = Append(host, Row(run.turn, "user", <<Piece("steer", mishaps)>>, FALSE))
  /\ plain' = FALSE
  /\ UNCHANGED <<active, record, turn, run, unwound, system, compactions, truncated, overlapped>>

\* detectInterruptedTurn: the marker, no stream, and no reply at the end.
Interrupted ==
  /\ active /\ run = NoWork
  /\ host # <<>> /\ Last(host).role # "assistant"

Texts(entries) == LET items == Items(entries) IN {items[i].text : i \in DOMAIN items}

\* The resume route: nothing is stored, the record is replayed.
Resume(t) ==
  /\ Fresh(t)
  /\ \A s \in 1..(t - 1) : Over(s)
  /\ Interrupted
  /\ Begin(t, "resume")
  /\ plain' = (plain /\ Prompt \in Texts(record))
  /\ UNCHANGED <<host, active, record, run, unwound, inbox, system, compactions,
                 mishaps, truncated, overlapped>>

\* resolveRegenerateForkOrdinal: which user row prompted the reply in row i.
ForkOrdinal(i) == Cardinality({j \in 1..(i - 1) : host[j].role = "user"}) - 1

\* The regenerate route: the record is forked at the prompt of the reply and
\* the chat points to the fork, or the address is declined and the record
\* stays; the reply and what follows it are deleted.
Regenerate(t, i) ==
  /\ Fresh(t)
  /\ \A s \in 1..(t - 1) : Over(s)
  /\ run = NoWork
  /\ i \in DOMAIN host /\ host[i].role = "assistant" /\ ForkOrdinal(i) >= 0
  /\ Mishap("regenerate")
  /\ LET points == ForkPoints(record, ForkOrdinal(i))
     IN  IF points = {} THEN truncated' = TRUE /\ UNCHANGED <<record, unwound>>
         ELSE /\ \E point \in points : record' = Fork(record, point)
              /\ unwound' = <<>>   \* it would go to the record left behind
              /\ UNCHANGED truncated
  /\ host' = SubSeq(host, 1, i - 1)
  /\ Begin(t, "regenerate")
  /\ plain' = FALSE
  /\ UNCHANGED <<active, run, inbox, system, compactions, overlapped>>

-----------------------------------------------------------------------------
(* The loop.                                                               *)

\* The stream of the run's turn ends with this text and these tool calls
\* received; a steer that was not polled goes with the loop.
EndRun(said, acted) ==
  /\ run' = NoWork
  /\ inbox' = <<>>
  /\ turn' = [turn EXCEPT ![run.turn].phase = "ended", ![run.turn].said = said,
                          ![run.turn].acted = acted]

Said == turn[run.turn].said
Acted == turn[run.turn].acted

\* _flush_history: what was appended is drained and stored.  A batch that is
\* refused is gone, and the loop fails.
Flush(batch, after) ==
  /\ record' = Appended(record, batch)
  /\ IF Refused(record, batch) THEN EndRun(Said, Acted) ELSE after

\* compaction.py: the head is the system prompt and the first user message;
\* the messages up to the cut become one summary, in a user message.
HeadEnd(items) == IF Len(items) > 1 /\ items[2].kind = "user" THEN 2 ELSE 1

Restated(items, cut) ==
  SubSeq(items, 1, HeadEnd(items))
    \o <<Item("user", <<Summary(SubSeq(items, HeadEnd(items) + 1, cut))>>)>>
    \o SubSeq(items, cut + 1, Len(items))

\* Before a request: the steers are polled, pre_step may compact (cut > 0),
\* and the record is brought up to date.
Request(cut) ==
  LET steered  == Numbered(run.next, inbox)
      grown    == run.items \o Bares(inbox)
      restated == Restated(grown, cut)
      boundary == Boundary(run.next + Len(inbox), "compact", Len(restated))
      rewrite  == <<boundary>> \o Numbered(boundary.seq + 1, restated)
  IN  /\ run.step = "gather"
      /\ \/ /\ cut = 0
            /\ UNCHANGED compactions
            /\ Flush(run.pending \o steered,
                     /\ run' = [run EXCEPT !.step = "asked", !.items = grown, !.pending = <<>>,
                                           !.next = @ + Len(inbox)]
                     /\ inbox' = <<>> /\ UNCHANGED turn)
         \/ /\ cut \in (HeadEnd(grown) + 1)..(Len(grown) - 1)
            /\ compactions < MaxCompactions /\ compactions' = compactions + 1
            /\ Flush(run.pending \o steered \o rewrite,
                     /\ run' = [run EXCEPT !.step = "asked", !.items = restated, !.pending = <<>>,
                                           !.next = @ + Len(inbox) + Len(rewrite)]
                     /\ inbox' = <<>> /\ UNCHANGED turn)
      /\ UNCHANGED <<host, active, unwound, system, mishaps, plain, truncated, overlapped>>

\* The model calls tools: the round is stored when its results are in.  What
\* it says before the calls is streamed to the host like any text.
Round ==
  LET item == Item("round", <<Piece("round", run.turn)>>)
  IN  /\ run.step = "asked"
      /\ run.rounds < MaxRounds
      /\ \E says \in {<<>>, <<Piece("says", run.turn)>>} :
           /\ IF says = <<>> THEN UNCHANGED <<mishaps, plain>>
              ELSE Mishap("narration") /\ plain' = FALSE
           /\ record' = Appended(record, Numbered(run.next, <<item>>))
           /\ IF Refused(record, Numbered(run.next, <<item>>)) THEN EndRun(Said \o says, TRUE)
              ELSE /\ run' = [run EXCEPT !.step = "gather", !.items = Append(@, item),
                                         !.next = @ + 1, !.rounds = @ + 1]
                   /\ turn' = [turn EXCEPT ![run.turn].said = @ \o says,
                                           ![run.turn].acted = TRUE]
                   /\ UNCHANGED inbox
      /\ UNCHANGED <<host, active, unwound, system, compactions, truncated, overlapped>>

\* The model replies and the loop ends; run_native brings the record up to
\* date once more.
Reply ==
  LET text == <<Piece("reply", run.turn)>>
  IN  /\ run.step = "asked"
      /\ record' = Appended(record, Numbered(run.next, <<Item("assistant", text)>>))
      /\ EndRun(Said \o text, Acted)
      /\ UNCHANGED <<host, active, unwound, system, compactions, mishaps, plain,
                     truncated, overlapped>>

\* The budget wall: the host drives the turn on, in a new loop that replays
\* the record (driveWithAutoContinue).
Continue ==
  /\ run.step = "gather" /\ run.rounds > 0
  /\ Mishap("wall")
  /\ LET messages == Bares(LoadItems(record))
         plan == PlanSeeding(record, messages)
     IN  /\ record' = record \o plan.boundary
         /\ run' = [StartedRun(run.turn, messages, plan) EXCEPT !.sent = run.sent]
  /\ inbox' = <<>>
  /\ UNCHANGED <<host, active, turn, unwound, system, compactions, plain, truncated, overlapped>>

\* The loop fails, or the sidecar dies: the host keeps what was streamed,
\* perhaps a part of a reply that the record will not have, and the tool calls
\* that it will spell out as the assistant's words.
Fail ==
  /\ run # NoWork
  /\ Mishap("fail")
  /\ \E part \in {<<>>, <<Piece("part", run.turn)>>} :
       /\ part # <<>> => run.step = "asked"
       /\ EndRun(Said \o part, Acted)
       /\ plain' = (plain /\ Said \o part = <<>> /\ ~Acted)
  /\ UNCHANGED <<host, active, record, unwound, system, compactions, truncated, overlapped>>

\* The stream is cancelled and does not end in time: its task is cancelled,
\* but the thread that runs the loop goes on to its next event, and may yet
\* store what it has.
CancelHard ==
  /\ run # NoWork
  /\ unwound = <<>>
  /\ Mishap("cancel")
  /\ unwound' = IF run.pending # <<>> THEN run.pending
             ELSE Numbered(run.next, <<Item("round", <<Piece("round", run.turn)>>)>>)
  /\ EndRun(Said, Acted)
  /\ overlapped' = TRUE
  /\ plain' = FALSE
  /\ UNCHANGED <<host, active, record, system, compactions, truncated>>

LateFlush ==
  /\ unwound # <<>>
  /\ record' = Appended(record, unwound)
  /\ unwound' = <<>>
  /\ UNCHANGED <<host, active, turn, run, inbox, system, compactions, mishaps,
                 plain, truncated, overlapped>>

\* Both processes die.  A reply that is whole in the record and not yet in
\* the table is lost to the user.
Crash ==
  /\ \E t \in Turn : turn[t].phase \in {"said", "open", "ended", "stored"}
  /\ Mishap("crash")
  /\ turn' = [t \in Turn |->
                IF turn[t].phase \in {"said", "open", "ended", "stored"}
                THEN [turn[t] EXCEPT !.phase = "dead", !.said = <<>>] ELSE turn[t]]
  /\ plain' = (plain /\ \A t \in Turn : turn[t].phase = "ended" => turn[t].said = <<>>)
  /\ run' = NoWork /\ unwound' = <<>> /\ inbox' = <<>>
  /\ UNCHANGED <<host, active, record, system, compactions, truncated, overlapped>>

HistoryNext ==
  \/ \E t \in Turn : Say(t) \/ Open(t) \/ StoreReply(t) \/ ClearTurnActive(t) \/ Resume(t)
  \/ \E t \in Turn, i \in DOMAIN host : Regenerate(t, i)
  \/ Steer
  \/ \E cut \in 0..Len(run.items) : Request(cut)
  \/ Round \/ Reply \/ Continue \/ Fail \/ CancelHard \/ LateFlush \/ Crash

HistorySpec == HistoryInit /\ [][HistoryNext]_historyVars

-----------------------------------------------------------------------------
(* Properties.                                                             *)

Revisions == {i \in DOMAIN record : record[i].action = "host_revision"}

\* As long as the texts of the two stores have not been made to differ, no
\* turn declares that the host revised the history: tool rounds, compactions,
\* budget walls, empty replies, crashes and resumed turns all leave a record
\* that the next turn joins, and no compaction is thrown away.
FaithfulChatsAreNeverRevised == plain => Revisions = {}

\* The summaries opened up, those they cover too.
Opened(items) ==
  LET open(s) == FlattenSeq([i \in DOMAIN s |->
                   IF s[i].text # <<>> /\ s[i].text[1].by = "summary" THEN s[i].text[1].of
                   ELSE <<s[i]>>])
      opened[n \in 0..MaxCompactions] == IF n = 0 THEN items ELSE open(opened[n - 1])
  IN  opened[MaxCompactions]

\* How far the wanted messages are found, in order, among the items.
Found(items, wanted) ==
  FoldLeft(LAMBDA n, item :
             IF n < Len(wanted) /\ Agrees(item, wanted[n + 1]) THEN n + 1 ELSE n,
           0, items)

\* Whatever way a run's seed joined the record, and however it is compacted
\* afterwards, the model is shown, or told in summary, every message the host
\* sent, in their order; and in a plain chat no user message twice.
ModelKnowsTheConversation ==
  run # NoWork =>
    LET known == Opened(run.items)
        sent  == Opened(run.sent)
    IN  /\ Found(known, sent) = Len(sent)
        /\ plain => Users(known) = Users(sent)

\* What the loop keeps in memory is what the record would give back: while no
\* cancelled loop lives on and nothing waits for the next flush, loading the
\* record yields the messages of the run, whatever gaps and boundaries
\* earlier runs, crashes and forks left in it.
RecordMirrorsTheRun ==
  (run # NoWork /\ run.pending = <<>> /\ ~overlapped) => Bares(LoadItems(record)) = Bares(run.items)

\* A prompt that was handed to the sidecar and never answered is offered for
\* continuation: a process that dies at any point before the reply is in the
\* table leaves the marker behind.
UnansweredIsOffered ==
  \A t \in Turn :
    (/\ turn[t].phase = "dead" /\ turn[t].mode = "send"
     /\ \A s \in Turn : s > t => turn[s].phase = "unsent"
     /\ <<Piece("user", t)>> \in Texts(record)
     /\ Last(host).role = "user")
    => Interrupted

\* loop.py says of the declared boundary "anything else (host edited/truncated
\* history)": a run declares it only when rows were deleted from the table.
RevisionMeansTheHostRevised == Revisions # {} => truncated

\* router.ts says that the crashed turn's user message is already in the
\* durable record: a resumed loop has the prompt it is to answer.
ResumedTurnHasItsPrompt ==
  \A t \in Turn :
    (turn[t].mode = "resume" /\ turn[t].phase = "said") => Prompt \in Texts(record)
=============================================================================
