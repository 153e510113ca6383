--------------------------- MODULE HistoryRecord ----------------------------
(***************************************************************************)
(* The durable record of a chat and what is computed from it: the          *)
(* append-only log of ContextManager (history.py), its projection          *)
(* (resume.py), the seeding of a run that joins it (loop.py), and the      *)
(* forks taken of it (branch.py).                                          *)
(*                                                                         *)
(* A text is a sequence of pieces, so that a text with something appended  *)
(* extends the text itself.  A message of the log is an item: its content  *)
(* kind and its text.  "round" stands for an assistant message with tool   *)
(* calls and the results that follow it, which are flushed together.       *)
(* Compaction's start and summary brackets are projection-inert, are       *)
(* skipped by every reader below and are left out.                         *)
(***************************************************************************)
EXTENDS Naturals, Sequences, FiniteSets, SequencesExt

Item(kind, text) == [kind |-> kind, text |-> text]

\* What is left of an item once its kind is dropped: an injected steer is a
\* user message like any other.
Bare(item) == Item(IF item.kind = "steer" THEN "user" ELSE item.kind, item.text)

Bares(items) == [i \in DOMAIN items |-> Bare(items[i])]

\* Entries of the record: a message, the marker of a declared rewrite and of
\* the number of messages that restate the span, a prefix taken by a fork.
ItemEntry(seq, item) ==
  [seq |-> seq, type |-> "item", action |-> "none", count |-> 0, items |-> <<item>>]

Boundary(seq, action, count) ==
  [seq |-> seq, type |-> "boundary", action |-> action, count |-> count, items |-> <<>>]

SeedEntry(seq, items) ==
  [seq |-> seq, type |-> "seed", action |-> "none", count |-> 0, items |-> items]

\* One entry per item, numbered from seq on.
Numbered(seq, items) == [i \in DOMAIN items |-> ItemEntry(seq + i - 1, items[i])]

\* The record is the sequence of its entries by their numbers (list_history).
Seqs(record) == {record[i].seq : i \in DOMAIN record}

NextSeq(record) == IF record = <<>> THEN 0 ELSE Last(record).seq + 1

Items(entries) == FlattenSeq([i \in DOMAIN entries |-> entries[i].items])

\* load_history_items: what follows the newest boundary.
LoadItems(record) ==
  LET boundaries == {i \in DOMAIN record : record[i].type = "boundary"}
  IN  Items(SubSeq(record, Max({0} \cup boundaries) + 1, Len(record)))

-----------------------------------------------------------------------------
(* A run's seed joins the record.                                          *)

HostVisible(item) == item.kind \in {"system", "user", "assistant"}

HostView(items) ==
  FlattenSeq([i \in DOMAIN items |-> IF HostVisible(items[i]) THEN <<items[i]>> ELSE <<>>])

\* The loop's own compactions, which a host never sees.
OwnCompaction(e) == e.type = "boundary" /\ e.action \in {"compact", "overflow_recovery"}

\* Variant: the boundary itself is counted among the messages skipped.
SeeThroughOneTooFew(view, e) ==
  IF view.skip > 0 THEN [view EXCEPT !.skip = @ - 1]
  ELSE CASE OwnCompaction(e)     -> [view EXCEPT !.skip = e.count - 1]
         [] e.type = "boundary" /\ ~OwnCompaction(e) -> [view EXCEPT !.items = <<>>]
         [] e.type \in {"seed", "item"} -> [view EXCEPT !.items = @ \o HostView(e.items)]

\* One entry of the view that looks through them: the messages that restate
\* a compacted span are skipped; any other boundary starts the view anew; in
\* a seed the roles decide, for the kinds are not looked at.
SeeThrough(view, e) ==
  IF view.skip > 0 THEN [view EXCEPT !.skip = @ - 1]
  ELSE CASE OwnCompaction(e)     -> [view EXCEPT !.skip = e.count]
         [] e.type = "boundary" /\ ~OwnCompaction(e) -> [view EXCEPT !.items = <<>>]
         [] e.type = "seed"      -> [view EXCEPT !.items = @ \o HostView(Bares(e.items))]
         [] e.type = "item"      -> [view EXCEPT !.items = @ \o HostView(e.items)]

LoopView(record) ==
  FoldLeft(SeeThrough, [skip |-> 0, items |-> <<>>], record).items

\* Variant: the roles are compared and the texts are not.
AgreesByRole(want, got) == want.kind = got.kind

\* A text the host sends for one of the view's: exactly the text, but a host
\* may have appended to what the assistant said.
Agrees(want, got) ==
  /\ want.kind = got.kind
  /\ \/ want.text = got.text
     \/ want.kind = "assistant" /\ want.text # <<>> /\ IsPrefix(want.text, got.text)

Extends(seed, view) ==
  /\ Len(view) \in 0..(Len(seed) - 1)
  /\ \A i \in DOMAIN view : Agrees(view[i], seed[i])

\* _plan_record_seeding: the messages the run starts from, the number of the
\* first, how many of them are durable, and the boundary stored before them.
Seeding(items, first, durable, boundary) ==
  [items |-> items, first |-> first, durable |-> durable, boundary |-> boundary]

\* Nothing of the record is kept: the boundary takes the next number.
StartsAnew(next, messages) ==
  Seeding(messages, next + 1, 0, <<Boundary(next, "host_revision", 0)>>)

PlanSeeding(record, messages) ==
  LET items   == LoadItems(record)
      prior   == Bares(items)
      next    == NextSeq(record)
      Join(n) == Seeding(prior \o SubSeq(messages, n + 1, Len(messages)),
                         next, Len(prior), <<>>)
      compacted == \E i \in DOMAIN record : OwnCompaction(record[i])
  IN  IF record = <<>> THEN Seeding(messages, 0, 0, <<>>)
      ELSE IF prior # <<>> /\ IsPrefix(prior, messages) THEN Join(Len(prior))
      ELSE IF prior # <<>> /\ Extends(messages, HostView(items))
        THEN Join(Len(HostView(items)))
      ELSE IF prior # <<>> /\ compacted /\ Extends(messages, LoopView(record))
        THEN Join(Len(LoopView(record)))
      ELSE StartsAnew(next, messages)

-----------------------------------------------------------------------------
(* The store and the forks.                                                *)

\* append_history inserts row after row under the key (record, seq): the
\* first row that is taken already fails the batch, the ones before it stay.
Refused(record, batch) == \E i \in DOMAIN batch : batch[i].seq \in Seqs(record)

\* A row in its place by number.
Inserted(record, entry) ==
  InsertAt(record, Cardinality({i \in DOMAIN record : record[i].seq < entry.seq}) + 1, entry)

\* Variant: a table without a key, in the order the rows come.
AppendedUnkeyed(record, batch) == record \o batch

Appended(record, batch) ==
  LET taken == {i \in DOMAIN batch : batch[i].seq \in Seqs(record)}
      stored[n \in 0..Len(batch)] ==
        IF n = 0 THEN record ELSE Inserted(stored[n - 1], batch[n])
  IN  stored[Min(taken \cup {Len(batch) + 1}) - 1]

\* resolve_fork_seq by user ordinal: the user item that as many come before,
\* those inside seeds included.  A seed is indivisible, so none when the
\* ordinal falls inside one.
Users(items) == Len(SelectSeq(items, LAMBDA item : item.kind = "user"))

ForkPoints(record, ordinal) ==
  {i \in DOMAIN record : /\ record[i].type = "item"
                         /\ Users(record[i].items) = 1
                         /\ Users(Items(SubSeq(record, 1, i - 1))) = ordinal}

\* fork_record: what is visible at the fork point, as one seed that keeps
\* the kinds.
Fork(record, point) == <<SeedEntry(0, LoadItems(SubSeq(record, 1, point)))>>
=============================================================================
