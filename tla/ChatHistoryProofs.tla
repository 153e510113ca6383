------------------------- MODULE ChatHistoryProofs --------------------------
(***************************************************************************)
(* Theorems about ChatHistory, for every number of turns, rounds,          *)
(* compactions and mishaps: the record of a chat mirrors the messages of   *)
(* its run, a prompt that was stored and not answered is offered, and a    *)
(* chat whose texts were left alone is never declared as revised.          *)
(*                                                                         *)
(* Kept says what a run and its record have to do with each other          *)
(* between two flushes.  OfferInv says in which order turns go, which      *)
(* prompts nobody can have yet, and when the chat is marked as active.     *)
(* Faithful says how far the record and the host's table tell the same.    *)
(* One lemma per step of the chat shows that each stays so.                *)
(***************************************************************************)
EXTENDS ChatHistory, HistoryRecordProofs

-----------------------------------------------------------------------------
(* A run and its record.                                                   *)

\* How many of a run's messages are durable.
Durable(r) == Len(r.items) - Len(r.pending)

\* The messages of the run r: the durable ones are those that the record rec
\* gives back, and the others wait, numbered behind everything in it.
Kept(rec, r) ==
  /\ DOMAIN r = DOMAIN NoWork
  /\ r.step \in {"gather", "asked"}
  /\ r.step = "asked" => r.pending = <<>>
  /\ IsSequence(r.items) /\ IsSequence(r.pending)
  /\ Durable(r) \in Nat /\ r.next \in Nat /\ r.next - Len(r.pending) \in Nat
  /\ Spans(rec, 0, r.next - Len(r.pending))
  /\ r.pending = Numbered(r.next - Len(r.pending),
                          SubSeq(r.items, Durable(r) + 1, Len(r.items)))
  /\ Bares(LoadItems(rec)) = Bares(SubSeq(r.items, 1, Durable(r)))

\* The record of a run that is kept is in order.
LEMMA KeptIsOrdered == ASSUME NEW rec, NEW r, Kept(rec, r) PROVE Ordered(rec)
BY DEF Kept, Spans

\* A run that was planned well is kept when it starts, and has durable what
\* its plan says.
LEMMA RunStarts ==
  ASSUME NEW rec, NEW p, Planned(rec, p), NEW t, NEW messages
  PROVE  /\ Kept(rec \o p.boundary, StartedRun(t, messages, p))
         /\ Durable(StartedRun(t, messages, p)) = p.durable
<1> DEFINE r == StartedRun(t, messages, p)
           d == p.durable
           e == Numbered(p.first, p.items)
           y == SubSeq(p.items, d + 1, Len(p.items))
           l == Len(p.items)
<1>0. /\ IsSequence(p.items) /\ l \in Nat /\ p.first \in Nat /\ d \in 0..l
      /\ Spans(rec \o p.boundary, 0, p.first + d)
      /\ Bares(LoadItems(rec \o p.boundary)) = Bares(SubSeq(p.items, 1, d))
  BY SequenceIs DEF Planned
<1>1. IsSequence(e) /\ Len(e) = l /\ \A i \in 1..l : e[i] = ItemEntry(p.first + i - 1, p.items[i])
  BY <1>0, NumberedIs
<1>2. /\ r.items = p.items /\ r.pending = SubSeq(e, d + 1, Len(e)) /\ r.step = "gather"
      /\ r.next = p.first + l /\ DOMAIN r = DOMAIN NoWork
  BY DEF StartedRun, NoWork
<1>3. d + 1 \in Nat \ {0} /\ l \in 0..l
  BY <1>0
<1>4. IsSequence(y) /\ Len(y) = l - d /\ \A i \in 1..(l - d) : y[i] = p.items[d + i]
  <2>1. /\ IsSequence(y) /\ Len(y) = IF d + 1 <= l THEN l - (d + 1) + 1 ELSE 0
        /\ \A i \in 1..Len(y) : y[i] = p.items[(d + 1) + i - 1]
    BY <1>0, <1>3, Cut
  <2> HIDE DEF y, l, d
  <2>2. Len(y) = l - d /\ \A i \in 1..(l - d) : (d + 1) + i - 1 = d + i
    BY <1>0, <2>1
  <2> QED BY <2>1, <2>2
<1>5. /\ IsSequence(r.pending) /\ Len(r.pending) = l - d
      /\ \A i \in 1..(l - d) : r.pending[i] = ItemEntry((p.first + d) + i - 1, p.items[d + i])
  <2> DEFINE c == SubSeq(e, d + 1, Len(e))
  <2> HIDE DEF e, l, d
  <2>1. /\ IsSequence(c) /\ Len(c) = IF d + 1 <= l THEN l - (d + 1) + 1 ELSE 0
        /\ \A i \in 1..Len(c) : c[i] = e[(d + 1) + i - 1]
    BY <1>1, <1>3, Cut
  <2> HIDE DEF c
  <2>2. Len(c) = l - d
    BY <1>0, <2>1
  <2>3. \A i \in 1..(l - d) : /\ (d + 1) + i - 1 = d + i /\ d + i \in 1..l
                              /\ p.first + (d + i) - 1 = (p.first + d) + i - 1
    BY <1>0
  <2>4. \A i \in 1..(l - d) : c[i] = ItemEntry((p.first + d) + i - 1, p.items[d + i])
    BY <1>1, <2>1, <2>2, <2>3
  <2>5. r.pending = c
    BY <1>2 DEF c
  <2> HIDE DEF r
  <2> QED BY <2>1, <2>2, <2>4, <2>5
<1> HIDE DEF r, y, l, d
<1>6. /\ Durable(r) = d /\ r.next - Len(r.pending) = p.first + d
      /\ r.next \in Nat /\ p.first + d \in Nat
  <2>1. Len(r.items) = l
    BY <1>2 DEF l
  <2> QED BY <1>0, <1>2, <1>5, <2>1 DEF Durable
<1>7. r.pending = Numbered(p.first + d, y)
  <2>1. /\ IsSequence(Numbered(p.first + d, y)) /\ Len(Numbered(p.first + d, y)) = l - d
        /\ \A i \in 1..(l - d) :
             Numbered(p.first + d, y)[i] = ItemEntry((p.first + d) + i - 1, y[i])
    BY <1>4, <1>6, NumberedIs
  <2> DEFINE a == r.pending
             b == Numbered(p.first + d, y)
  <2>2. /\ IsSequence(a) /\ Len(a) = l - d /\ IsSequence(b) /\ Len(b) = l - d
        /\ \A i \in 1..(l - d) : a[i] = b[i]
    BY <1>4, <1>5, <2>1
  <2> HIDE DEF a, b
  <2>3. a = b
    BY <2>2, SameSequence
  <2> QED BY <2>3 DEF a, b
<1>8. Kept(rec \o p.boundary, r)
  <2>1. y = SubSeq(r.items, Durable(r) + 1, Len(r.items))
    BY <1>2, <1>6 DEF y, l
  <2>2. Bares(LoadItems(rec \o p.boundary)) = Bares(SubSeq(r.items, 1, Durable(r)))
    BY <1>0, <1>2, <1>6
  <2>3. /\ Spans(rec \o p.boundary, 0, r.next - Len(r.pending))
        /\ Durable(r) \in Nat /\ r.next - Len(r.pending) \in Nat
    BY <1>0, <1>6
  <2>4. r.pending = Numbered(r.next - Len(r.pending), SubSeq(r.items, Durable(r) + 1, Len(r.items)))
    BY <1>6, <1>7, <2>1
  <2>5. /\ DOMAIN r = DOMAIN NoWork /\ r.step \in {"gather", "asked"} /\ r.step # "asked"
        /\ IsSequence(r.items) /\ IsSequence(r.pending) /\ r.next \in Nat
    BY <1>0, <1>2, <1>5, <1>6
  <2> QED BY <2>2, <2>3, <2>4, <2>5 DEF Kept
<1> QED BY <1>6, <1>8 DEF r, d

\* The number after the messages w have been added to the run's.
After(r, w) == r.next + Len(w)

\* The rows that a flush stores: what waits, and the messages w.
Batch(r, w) == r.pending \o Numbered(r.next, w)

\* The number after those of the record.
Behind(r) == r.next - Len(r.pending)

\* The batch's numbers come between these two.
LEMMA BatchSpans ==
  ASSUME NEW rec, NEW r, Kept(rec, r), NEW w, IsSequence(w)
  PROVE  /\ Behind(r) \in Nat /\ After(r, w) \in Nat /\ Behind(r) <= After(r, w)
         /\ Spans(rec, 0, Behind(r)) /\ Spans(Batch(r, w), Behind(r), After(r, w))
<1> DEFINE n == r.next
           p == Len(r.pending)
           d == Durable(r)
           l == Len(r.items)
           y == SubSeq(r.items, d + 1, l)
           a == Behind(r)
<1>1. /\ p \in Nat /\ n \in Nat /\ l \in Nat /\ Len(w) \in Nat /\ d = l - p
      /\ a = n - p /\ a \in Nat /\ d \in Nat /\ IsSequence(r.items) /\ Spans(rec, 0, a)
      /\ r.pending = Numbered(a, y)
  BY SequenceIs DEF Kept, Durable, Behind
<1>2. After(r, w) = n + Len(w)
  BY DEF After
<1>3. d + 1 \in Nat \ {0} /\ l \in 0..l
  <2> HIDE DEF n, p, d, l, y, a
  <2> QED BY <1>1
<1>4. IsSequence(y) /\ Len(y) = IF d + 1 <= l THEN l - (d + 1) + 1 ELSE 0
  BY <1>1, <1>3, Cut
<1>5. Len(y) = p /\ n = a + p
  <2> HIDE DEF n, p, d, l, y, a
  <2> QED BY <1>1, <1>4
<1>6. Spans(r.pending, a, n)
  BY <1>1, <1>4, <1>5, NumberedSpans
<1>7. Spans(Numbered(n, w), n, n + Len(w))
  BY <1>1, NumberedSpans
<1>8. a <= n /\ n <= n + Len(w) /\ n + Len(w) \in Nat
  <2> HIDE DEF n, p, d, l, y, a
  <2> QED BY <1>1, <1>5
<1>9. Spans(Batch(r, w), a, n + Len(w))
  <2> DEFINE more == Numbered(n, w)
             k == n + Len(w)
  <2>1. Batch(r, w) = r.pending \o more
    BY DEF Batch
  <2>2. /\ Spans(r.pending, a, n) /\ Spans(more, n, k) /\ a <= n /\ n <= k
        /\ k \in Nat /\ a \in Nat /\ n \in Nat
    BY <1>1, <1>6, <1>7, <1>8
  <2> HIDE DEF more, k, n, a
  <2>3. Spans(r.pending \o more, a, k)
    BY <2>2, SpansJoined
  <2> QED BY <2>1, <2>3 DEF k, n
<1> HIDE DEF n, p, d, l, y
<1>10. Behind(r) <= After(r, w) /\ After(r, w) \in Nat
  BY <1>1, <1>2, <1>8
<1> QED BY <1>1, <1>2, <1>9, <1>10

\* A flush is not refused, and the record gives back the run's messages and
\* w.
LEMMA Flushed ==
  ASSUME NEW rec, NEW r, Kept(rec, r), NEW w, IsSequence(w),
         NEW q, q = Batch(r, w)
  PROVE  /\ Appended(rec, q) = rec \o q /\ ~ Refused(rec, q)
         /\ Spans(rec \o q, 0, After(r, w))
         /\ Bares(LoadItems(rec \o q)) = Bares(r.items \o w)
<1> DEFINE a == r.next - Len(r.pending)
           d == Durable(r)
           x == SubSeq(r.items, 1, d)
           y == SubSeq(r.items, d + 1, Len(r.items))
           more == Numbered(r.next, w)
<1>0. /\ Len(r.pending) \in Nat /\ Len(r.items) \in Nat /\ Len(w) \in Nat
      /\ a \in Nat /\ d \in Nat /\ d = Len(r.items) - Len(r.pending) /\ r.next \in Nat
      /\ IsSequence(r.items) /\ IsSequence(r.pending)
  BY SequenceIs DEF Kept, Durable
<1>1. r.next \in Nat /\ r.next = a + Len(r.pending) /\ d \in 0..Len(r.items)
  <2> DEFINE n == r.next
             p == Len(r.pending)
             l == Len(r.items)
  <2>1. /\ n \in Nat /\ p \in Nat /\ l \in Nat /\ a = n - p /\ a \in Nat
        /\ d \in Nat /\ d = l - p
    BY <1>0
  <2> HIDE DEF n, p, l, a, d
  <2>2. n \in Nat /\ n = a + p /\ d \in 0..l
    BY <2>1
  <2> QED BY <2>2 DEF n, p, l
<1>2. IsSequence(x) /\ IsSequence(y) /\ Len(y) = Len(r.pending)
  <2>0. d + 1 \in Nat \ {0} /\ Len(r.items) \in 0..Len(r.items) /\ 1 \in Nat \ {0}
    BY <1>0, <1>1
  <2>1. IsSequence(x)
    BY <1>0, <1>1, <2>0, Cut
  <2>2. IsSequence(y) /\ Len(y) = IF d + 1 <= Len(r.items) THEN Len(r.items) - (d + 1) + 1 ELSE 0
    BY <1>0, <1>1, <2>0, Cut
  <2> HIDE DEF d, x, y
  <2> QED BY <1>0, <1>1, <2>1, <2>2
<1>3. r.pending = Numbered(a, y) /\ Spans(rec, 0, a) /\ Bares(LoadItems(rec)) = Bares(x)
  BY DEF Kept
<1>4. x \o y = r.items
  BY <1>0, <1>1, TwoParts
<1> HIDE DEF a, d, x, y
<1>5. Spans(r.pending, a, r.next) /\ NoBoundary(r.pending) /\ Items(r.pending) = y
  BY <1>0, <1>1, <1>2, <1>3, NumberedSpans, ItemsNumbered
<1>6. Spans(more, r.next, r.next + Len(w)) /\ NoBoundary(more) /\ Items(more) = w
  BY <1>1, NumberedSpans, ItemsNumbered
<1>m. q = r.pending \o more
  BY DEF Batch
<1> HIDE DEF more
<1>7. Entries(r.pending) /\ Entries(more) /\ IsSequence(more) /\ Entries(rec)
  BY <1>3, <1>5, <1>6 DEF Spans, Ordered, Entries
<1>8. Spans(q, a, r.next + Len(w)) /\ NoBoundary(q) /\ Entries(q)
  <2>1. a <= r.next /\ r.next <= r.next + Len(w) /\ r.next + Len(w) \in Nat
    BY <1>0, <1>1
  <2> QED BY <1>0, <1>1, <1>5, <1>6, <1>7, <1>m, <2>1, SpansJoined, NoBoundaryJoined, EntriesJoined
<1>9. Items(q) = y \o w
  BY <1>5, <1>6, <1>7, <1>m, ItemsJoined
<1>10. Appended(rec, q) = rec \o q /\ ~ Refused(rec, q) /\ Spans(rec \o q, 0, r.next + Len(w))
  <2>1. a <= r.next + Len(w) /\ r.next + Len(w) \in Nat
    BY <1>0, <1>1
  <2> QED BY <1>0, <1>3, <1>8, <2>1, SpansAppended
<1>11. LoadItems(rec \o q) = LoadItems(rec) \o (y \o w)
  BY <1>7, <1>8, <1>9, LoadAfter
<1>12. Bares(LoadItems(rec \o q)) = Bares(r.items \o w)
  <2>1. IsSequence(LoadItems(rec)) /\ IsSequence(y \o w)
    BY <1>2, <1>7, LoadedIs, JoinedIs
  <2>2. Bares(LoadItems(rec \o q)) = Bares(x) \o Bares(y \o w)
    BY <1>3, <1>11, <2>1, BaresJoined
  <2>3. Bares(x) \o Bares(y \o w) = Bares(x \o (y \o w))
    BY <1>2, <2>1, BaresJoined
  <2>4. x \o (y \o w) = (x \o y) \o w
    BY <1>2, JoinedTwice
  <2> QED BY <1>4, <2>2, <2>3, <2>4
<1> QED BY <1>10, <1>12 DEF After

\* A flush that stores what waits and then a rewrite is not refused either,
\* and the record gives back what the rewrite restates.
LEMMA Rewritten ==
  ASSUME NEW rec, NEW r, Kept(rec, r), NEW w, IsSequence(w), NEW s, IsSequence(s),
         NEW e, e.seq = After(r, w), e.items = <<>>, e.type = "boundary",
         NEW q, q = Batch(r, w), NEW x, x = Rewrite(e, s)
  PROVE  /\ Appended(rec, q \o x) = rec \o (q \o x) /\ ~ Refused(rec, q \o x)
         /\ Spans(rec \o (q \o x), 0, AfterRewrite(After(r, w), s))
         /\ Bares(LoadItems(rec \o (q \o x))) = Bares(s)
<1> DEFINE a == Behind(r)
           m == After(r, w)
           k == AfterRewrite(After(r, w), s)
           more == Numbered(m + 1, s)
           both == q \o x
<1>1. a \in Nat /\ m \in Nat /\ a <= m /\ Spans(rec, 0, a) /\ Spans(q, a, m)
  BY BatchSpans
<1>2. Spans(x, m, k)
  BY <1>1, RewriteSpans
<1>3. k \in Nat /\ m <= k /\ a <= k
  <2>1. Len(s) \in Nat /\ k = m + 1 + Len(s)
    BY SequenceIs DEF AfterRewrite
  <2> HIDE DEF m, k, a
  <2> QED BY <1>1, <2>1
<1>4. x = <<e>> \o more
  BY DEF Rewrite
<1>5. Entries(more) /\ NoBoundary(more) /\ Items(more) = s
  <2> DEFINE n == m + 1
  <2>1. n \in Nat
    BY <1>1
  <2> HIDE DEF n
  <2>2. LET t == Numbered(n, s) IN Entries(t) /\ NoBoundary(t) /\ Items(t) = s
    BY <2>1, NumberedSpans, ItemsNumbered
  <2> QED BY <2>2 DEF n
<1> HIDE DEF a, m, k, more
<1>6. Spans(both, a, k)
  BY <1>1, <1>2, <1>3, SpansJoined
<1>7. IsSequence(rec) /\ IsSequence(q) /\ IsSequence(x) /\ Entries(rec) /\ Entries(q)
      /\ IsSequence(more) /\ IsSequence(<<e>>)
  BY <1>1, <1>2, <1>5, SingleIs DEF Spans, Ordered, Entries
<1> HIDE DEF both
<1>8. Appended(rec, both) = rec \o both /\ ~ Refused(rec, both) /\ Spans(rec \o both, 0, k)
  BY <1>1, <1>3, <1>6, SpansAppended
<1>10. LoadItems(rec \o both) = s
  <2>1. both = q \o (<<e>> \o more)
    BY <1>4 DEF both
  <2> QED BY <1>5, <1>7, <2>1, None, LoadRewritten
<1> QED BY <1>8, <1>10 DEF both, k

\* A run of which everything is durable is kept when the record gives back
\* its messages.
LEMMA AllDurable ==
  ASSUME NEW rec, NEW r, DOMAIN r = DOMAIN NoWork, r.step \in {"gather", "asked"},
         IsSequence(r.items), r.pending = <<>>, r.next \in Nat, Spans(rec, 0, r.next),
         Bares(LoadItems(rec)) = Bares(r.items)
  PROVE  Kept(rec, r)
<1>1. Len(r.pending) = 0 /\ IsSequence(r.pending)
  BY None
<1>2. Len(r.items) \in Nat
  BY SequenceIs
<1>3. Durable(r) = Len(r.items) /\ r.next - Len(r.pending) = r.next
  BY <1>1, <1>2 DEF Durable
<1>4. SubSeq(r.items, 1, Durable(r)) = r.items
  BY <1>3, WholePrefix
<1>5. r.pending = Numbered(r.next - Len(r.pending), SubSeq(r.items, Durable(r) + 1, Len(r.items)))
  <2>1. SubSeq(r.items, Len(r.items) + 1, Len(r.items)) = <<>>
    BY <1>2, SubSeqEmpty
  <2>2. Numbered(r.next, <<>>) = <<>>
    BY DEF Numbered
  <2> QED BY <1>3, <2>1, <2>2
<1> QED BY <1>1, <1>2, <1>3, <1>4, <1>5 DEF Kept

\* A message of the model is stored at once.
LEMMA StoredAtOnce ==
  ASSUME NEW rec, NEW r, Kept(rec, r), r.step = "asked", NEW item
  PROVE  LET q == Numbered(r.next, <<item>>)
         IN  /\ Appended(rec, q) = rec \o q /\ ~ Refused(rec, q)
             /\ r.next \in Nat /\ Spans(rec \o q, 0, r.next + 1)
             /\ Bares(LoadItems(rec \o q)) = Bares(r.items \o <<item>>)
<1> DEFINE one == <<item>>
           batch == Numbered(r.next, one)
<1>1. r.pending = <<>> /\ r.next \in Nat
  BY DEF Kept
<1>2. IsSequence(one) /\ Len(one) = 1
  BY Single
<1> HIDE DEF one
<1>3. batch = Batch(r, one)
  BY <1>1, <1>2, NumberedIs, JoinedToNone DEF Batch
<1> HIDE DEF batch
<1>4. /\ Appended(rec, batch) = rec \o batch /\ ~ Refused(rec, batch)
      /\ Spans(rec \o batch, 0, After(r, one))
      /\ Bares(LoadItems(rec \o batch)) = Bares(r.items \o one)
  <2>1. IsSequence(one) /\ Kept(rec, r)
    BY <1>2
  <2> QED BY <1>3, <2>1, Flushed
<1>5. After(r, one) = r.next + 1
  BY <1>1, <1>2 DEF After
<1> QED BY <1>1, <1>4, <1>5 DEF batch, one

-----------------------------------------------------------------------------
(* What a run is given, and what is made of it.                            *)

\* What the host sends is a sequence of messages,
LEMMA HostSeedIs ==
  ASSUME IsSequence(host), NEW t
  PROVE  IsSequence(HostSeed(t))
<1> DEFINE replies == {j \in DOMAIN host : Earlier(t, j) /\ host[j].role = "assistant"}
           recent(i) == Cardinality({j \in replies : i <= j}) <= RecentReplies
           text(i) == IF i \in replies /\ host[i].acted /\ recent(i)
                      THEN Append(host[i].text, Piece("acts", host[i].turn)) ELSE host[i].text
           q == [i \in DOMAIN host |->
                  IF Earlier(t, i) /\ text(i) # <<>> THEN <<Item(host[i].role, text(i))>> ELSE <<>>]
<1>1. HostSeed(t) = FlattenSeq(q)
  BY DEF HostSeed
<1>2. Len(host) \in Nat /\ DOMAIN host = 1..Len(host)
  BY SequenceIs
<1> HIDE DEF text
<1>3. q = [i \in 1..Len(host) |-> q[i]]
  BY <1>2
<1>4. ASSUME NEW i \in 1..Len(host) PROVE IsSequence(q[i])
  BY <1>2, SingleIs, None
<1> HIDE DEF q
<1> QED BY <1>1, <1>2, <1>3, <1>4, FlattenIs

\* so is what a run is given,
LEMMA MessagesAreASequence ==
  ASSUME IsSequence(host), Ordered(record), NEW t, NEW v, NEW extra
  PROVE  IsSequence(SeedMessages(t, v, extra))
<1>1. ASSUME turn[t].mode = "resume" PROVE IsSequence(SeedMessages(t, v, extra))
  <2> DEFINE replayed == Bares(LoadItems(record))
             body == IF replayed # <<>> /\ replayed[1].kind = "system"
                     THEN Tail(replayed) ELSE replayed
  <2>1. IsSequence(replayed)
    BY LoadedIs, BaresOf DEF Ordered
  <2>2. IsSequence(body)
    <3> HIDE DEF replayed
    <3> QED BY <2>1, TailIs
  <2> HIDE DEF body
  <2>3. IsSequence(<<SystemItem(v)>> \o body)
    BY <2>2, SingleIs, JoinedIs
  <2> QED BY <1>1, <2>3 DEF SeedMessages, body
<1>2. ASSUME turn[t].mode # "resume" PROVE IsSequence(SeedMessages(t, v, extra))
  <2> DEFINE a == <<SystemItem(v)>>
             b == HostSeed(t)
             c == <<Item("user", Prompt \o extra)>>
  <2>1. IsSequence(a) /\ IsSequence(b) /\ IsSequence(c)
    BY SingleIs, HostSeedIs
  <2> HIDE DEF a, b, c
  <2>2. IsSequence(a \o b \o c)
    BY <2>1, JoinedIs
  <2> QED BY <1>2, <2>2 DEF SeedMessages, a, b, c
<1> QED BY <1>1, <1>2

\* A steer the loop polled is shown to the model as a user message.
LEMMA SteersAreMessages ==
  ASSUME NEW items, NEW box, IsSequence(items), IsSequence(box)
  PROVE  /\ IsSequence(items \o Bares(box))
         /\ Bares(items \o Bares(box)) = Bares(items \o box)
<1>1. IsSequence(Bares(box)) /\ Bares(Bares(box)) = Bares(box)
  BY BaresOf, BaresTwice
<1>2. Bares(items \o Bares(box)) = Bares(items) \o Bares(Bares(box))
  BY <1>1, BaresJoined
<1>3. Bares(items \o box) = Bares(items) \o Bares(box)
  BY BaresJoined
<1> QED BY <1>1, <1>2, <1>3, JoinedIs

\* and what a compaction makes of it.
LEMMA RestatedIs ==
  ASSUME NEW items, IsSequence(items), NEW cut \in (HeadEnd(items) + 1)..(Len(items) - 1)
  PROVE  IsSequence(Restated(items, cut))
<1> DEFINE h == HeadEnd(items)
           a == SubSeq(items, 1, h)
           b == <<Item("user", <<Summary(SubSeq(items, h + 1, cut))>>)>>
           c == SubSeq(items, cut + 1, Len(items))
<1>1. Len(items) \in Nat /\ h \in {1, 2}
  BY SequenceIs DEF HeadEnd
<1>2. /\ h \in 0..Len(items) /\ cut + 1 \in Nat \ {0} /\ Len(items) \in 0..Len(items)
      /\ 1 \in Nat \ {0}
  BY <1>1
<1>3. IsSequence(a) /\ IsSequence(b) /\ IsSequence(c)
  BY <1>2, SingleIs, Cut
<1> HIDE DEF a, b, c
<1>4. IsSequence(a \o b \o c)
  BY <1>3, JoinedIs
<1> QED BY <1>4 DEF Restated, a, b, c

-----------------------------------------------------------------------------
(* The steps of the chat.                                                  *)

\* As long as no cancelled loop lived on, every run's messages are kept.
\* Only this is inductive: RecordMirrorsTheRun looks at a run with nothing
\* waiting, and says nothing of the numbers that the next batch needs to be
\* free.
MirrorInv ==
  ~overlapped =>
    /\ IsSequence(host) /\ IsSequence(inbox) /\ Ordered(record)
    /\ unwound = <<>>
    /\ run # NoWork => Kept(record, run)

\* The same without the condition.
Mirrors ==
  /\ IsSequence(host) /\ IsSequence(inbox) /\ Ordered(record)
  /\ unwound = <<>>
  /\ run # NoWork => Kept(record, run)

\* The two ways to say it.
LEMMA MirrorIs == MirrorInv <=> (~overlapped => Mirrors)
BY DEF MirrorInv, Mirrors

\* Before the first turn there is nothing to keep.
LEMMA MirrorInitially == HistoryInit => MirrorInv
<1>1. IsSequence(<<>>) /\ Ordered(<<>>)
  <2>1. Spans(<<>>, 0, 0)
    BY NoneSpans
  <2> QED BY <2>1, None DEF Spans
<1> QED BY <1>1 DEF HistoryInit, MirrorInv

\* A run starts.
LEMMA OpenMirrors ==
  ASSUME MirrorInv, NEW t \in Turn, Open(t)
  PROVE  MirrorInv'
<1> SUFFICES ASSUME ~overlapped'
             PROVE  /\ IsSequence(host') /\ IsSequence(inbox') /\ Ordered(record')
                    /\ unwound' = <<>>
                    /\ run' # NoWork => Kept(record', run')
  BY DEF MirrorInv
<1>0. ~overlapped /\ run = NoWork /\ UNCHANGED <<host, unwound, inbox, overlapped>>
  BY DEF Open
<1>1. IsSequence(host) /\ IsSequence(inbox) /\ Ordered(record) /\ unwound = <<>>
  BY <1>0 DEF MirrorInv
<1>2. PICK v, extra : LET messages == SeedMessages(t, v, extra)
                          plan == PlanSeeding(record, messages)
                      IN  \/ UNCHANGED <<record, run>>
                          \/ /\ record' = record \o plan.boundary
                             /\ run' = StartedRun(t, messages, plan)
  BY DEF Open
<1>3. CASE UNCHANGED <<record, run>>
  BY <1>0, <1>1, <1>3
<1>4. ASSUME ~ UNCHANGED <<record, run>> PROVE Kept(record', run')
  <2> DEFINE messages == SeedMessages(t, v, extra)
             plan == PlanSeeding(record, messages)
  <2>1. IsSequence(messages)
    BY <1>1, MessagesAreASequence
  <2>2. record' = record \o plan.boundary /\ run' = StartedRun(t, messages, plan)
    BY <1>2, <1>4
  <2> HIDE DEF messages
  <2>3. Planned(record, plan)
    BY <1>1, <2>1, PlansWell
  <2> HIDE DEF plan
  <2>4. Kept(record \o plan.boundary, StartedRun(t, messages, plan))
    BY <2>3, RunStarts
  <2> QED BY <2>2, <2>4
<1>5. Kept(record', run') => Ordered(record')
  BY DEF Kept, Spans
<1> QED BY <1>0, <1>1, <1>3, <1>4, <1>5

\* A budget wall: a new loop replays the record.
LEMMA ContinueMirrors ==
  ASSUME MirrorInv, Continue
  PROVE  MirrorInv'
<1> SUFFICES ASSUME ~overlapped'
             PROVE  /\ IsSequence(host') /\ IsSequence(inbox') /\ Ordered(record')
                    /\ unwound' = <<>>
                    /\ run' # NoWork => Kept(record', run')
  BY DEF MirrorInv
<1> DEFINE messages == Bares(LoadItems(record))
           plan == PlanSeeding(record, messages)
           started == StartedRun(run.turn, messages, plan)
<1>0. /\ ~overlapped /\ UNCHANGED <<host, unwound>> /\ inbox' = <<>>
      /\ record' = record \o plan.boundary /\ run' = [started EXCEPT !.sent = run.sent]
  BY DEF Continue
<1>1. IsSequence(host) /\ Ordered(record) /\ unwound = <<>>
  BY <1>0 DEF MirrorInv
<1>2. IsSequence(messages)
  BY <1>1, LoadedIs, BaresOf DEF Ordered
<1> HIDE DEF messages
<1>3. Planned(record, plan)
  BY <1>1, <1>2, PlansWell
<1> HIDE DEF plan
<1>4. Kept(record', started)
  BY <1>0, <1>3, RunStarts
<1> HIDE DEF started
<1>5. Kept(record', run')
  <2>1. DOMAIN started = DOMAIN NoWork
    BY <1>4 DEF Kept
  <2>2. /\ run'.items = started.items /\ run'.pending = started.pending
        /\ run'.next = started.next /\ run'.step = started.step
        /\ DOMAIN run' = DOMAIN NoWork
    BY <1>0, <2>1
  <2> QED BY <1>4, <2>2 DEF Kept, Durable
<1> QED BY <1>0, <1>1, <1>5, None DEF Kept, Spans

\* The flush before a request that does not compact.
LEMMA RequestMirrors ==
  ASSUME Mirrors, Request(0)
  PROVE  Mirrors'
<1> DEFINE steered == Numbered(run.next, inbox)
           grown == run.items \o Bares(inbox)
           batch == Batch(run, inbox)
<1>1. /\ run.step = "gather" /\ UNCHANGED <<host, unwound>>
      /\ Flush(run.pending \o steered,
               /\ run' = [run EXCEPT !.step = "asked", !.items = grown, !.pending = <<>>,
                                     !.next = @ + Len(inbox)]
               /\ inbox' = <<>> /\ UNCHANGED turn)
  <2>1. HeadEnd(grown) + 1 > 0
    BY DEF HeadEnd
  <2>2. 0 \notin (HeadEnd(grown) + 1)..(Len(grown) - 1)
    BY DEF HeadEnd
  <2> QED BY <2>2 DEF Request
<1>2. run # NoWork
  BY <1>1 DEF NoWork
<1>3. Kept(record, run) /\ IsSequence(host) /\ IsSequence(inbox) /\ unwound = <<>>
  BY <1>2 DEF Mirrors
<1>4. DOMAIN run = DOMAIN NoWork /\ IsSequence(run.items)
  BY <1>3 DEF Kept
<1> HIDE DEF batch
<1>5. /\ Appended(record, batch) = record \o batch /\ ~ Refused(record, batch)
      /\ Spans(record \o batch, 0, After(run, inbox))
      /\ Bares(LoadItems(record \o batch)) = Bares(run.items \o inbox)
  BY <1>3, Flushed DEF batch
<1>6. run.pending \o steered = batch
  BY DEF batch, Batch
<1>7. /\ record' = record \o batch
      /\ run' = [run EXCEPT !.step = "asked", !.items = grown, !.pending = <<>>,
                            !.next = @ + Len(inbox)]
      /\ inbox' = <<>>
  <2> HIDE DEF grown, steered
  <2> QED BY <1>1, <1>5, <1>6 DEF Flush
<1>8. /\ DOMAIN run' = DOMAIN NoWork /\ run'.step = "asked" /\ run'.items = grown
      /\ run'.pending = <<>> /\ run'.next = After(run, inbox)
  <2>1. {"step", "items", "pending", "next"} \subseteq DOMAIN run
    BY <1>4 DEF NoWork
  <2> HIDE DEF grown
  <2> QED BY <1>4, <1>7, <2>1 DEF After
<1>9. IsSequence(grown) /\ Bares(grown) = Bares(run.items \o inbox)
  BY <1>3, <1>4, SteersAreMessages
<1>10. After(run, inbox) \in Nat
  BY <1>3, BatchSpans
<1> HIDE DEF grown
<1>11. Kept(record', run')
  <2>1. /\ IsSequence(run'.items) /\ run'.next \in Nat /\ Spans(record', 0, run'.next)
        /\ Bares(LoadItems(record')) = Bares(run'.items)
    BY <1>5, <1>7, <1>8, <1>9, <1>10
  <2> QED BY <1>8, <2>1, AllDurable
<1> QED BY <1>1, <1>3, <1>7, <1>11, None, KeptIsOrdered DEF Mirrors

\* The flush before a request that compacts.
LEMMA CompactMirrors ==
  ASSUME Mirrors, NEW cut \in Nat, cut # 0, Request(cut)
  PROVE  Mirrors'
<1> DEFINE steered == Numbered(run.next, inbox)
           grown == run.items \o Bares(inbox)
           restated == Restated(grown, cut)
           boundary == Boundary(run.next + Len(inbox), "compact", Len(restated))
           rewrite == <<boundary>> \o Numbered(boundary.seq + 1, restated)
           batch == Batch(run, inbox)
           rows == Rewrite(boundary, restated)
           next == run.next + Len(inbox) + Len(rewrite)
<1>1. /\ run.step = "gather" /\ UNCHANGED <<host, unwound>>
      /\ cut \in (HeadEnd(grown) + 1)..(Len(grown) - 1)
      /\ Flush(run.pending \o steered \o rewrite,
               /\ run' = [run EXCEPT !.step = "asked", !.items = restated, !.pending = <<>>,
                                     !.next = @ + Len(inbox) + Len(rewrite)]
               /\ inbox' = <<>> /\ UNCHANGED turn)
  BY DEF Request
<1>2. run # NoWork
  BY <1>1 DEF NoWork
<1>3. Kept(record, run) /\ IsSequence(host) /\ IsSequence(inbox) /\ unwound = <<>>
  BY <1>2 DEF Mirrors
<1>4. DOMAIN run = DOMAIN NoWork /\ IsSequence(run.items)
  BY <1>3 DEF Kept
<1>5. IsSequence(restated)
  BY <1>1, <1>3, <1>4, SteersAreMessages, RestatedIs
<1>6. /\ boundary.seq = After(run, inbox) /\ boundary.items = <<>>
      /\ boundary.type = "boundary"
  BY DEF Boundary, After
<1>7. rewrite = rows
  BY DEF Rewrite
<1> HIDE DEF restated, boundary
<1>8. run.pending \o steered \o rewrite = batch \o rows
  BY <1>7 DEF Batch
<1>9. After(run, inbox) \in Nat
  BY <1>3, BatchSpans
<1>10. next = AfterRewrite(After(run, inbox), restated)
  <2>1. Len(rows) = 1 + Len(restated) /\ Len(restated) \in Nat
    BY <1>5, <1>6, <1>9, RewriteSpans, SequenceIs
  <2>2. next = After(run, inbox) + Len(rows)
    BY <1>7 DEF After
  <2>3. AfterRewrite(After(run, inbox), restated) = After(run, inbox) + 1 + Len(restated)
    BY DEF AfterRewrite
  <2> DEFINE a == After(run, inbox)
             b == Len(rows)
             c == Len(restated)
             d == AfterRewrite(a, restated)
  <2>4. next = a + b /\ b = 1 + c /\ d = a + 1 + c /\ a \in Nat /\ c \in Nat
    BY <1>9, <2>1, <2>2, <2>3
  <2> HIDE DEF a, b, c, d, next
  <2>5. next = d
    BY <2>4
  <2> QED BY <2>5 DEF d, a
<1> HIDE DEF batch, rows
<1>11. /\ Appended(record, batch \o rows) = record \o (batch \o rows)
       /\ ~ Refused(record, batch \o rows)
       /\ Spans(record \o (batch \o rows), 0, AfterRewrite(After(run, inbox), restated))
       /\ Bares(LoadItems(record \o (batch \o rows))) = Bares(restated)
  BY <1>3, <1>5, <1>6, Rewritten DEF batch, rows
<1> DEFINE stored == batch \o rows
<1> HIDE DEF stored
<1>12. /\ record' = record \o stored
       /\ run' = [run EXCEPT !.step = "asked", !.items = restated, !.pending = <<>>,
                             !.next = next]
       /\ inbox' = <<>>
  <2>1. run.pending \o steered \o rewrite = stored /\ ~ Refused(record, stored)
        /\ Appended(record, stored) = record \o stored
    BY <1>8, <1>11 DEF stored
  <2> HIDE DEF steered, rewrite
  <2> QED BY <1>1, <2>1 DEF Flush
<1> HIDE DEF next
<1>13. /\ DOMAIN run' = DOMAIN NoWork /\ run'.step = "asked" /\ run'.items = restated
       /\ run'.pending = <<>> /\ run'.next = next
  <2>1. {"step", "items", "pending", "next"} \subseteq DOMAIN run
    BY <1>4 DEF NoWork
  <2> QED BY <1>4, <1>12, <2>1
<1>14. next \in Nat
  BY <1>5, <1>9, <1>10, SequenceIs DEF AfterRewrite
<1>15. Kept(record', run')
  <2>1. /\ IsSequence(run'.items) /\ run'.next \in Nat /\ Spans(record', 0, run'.next)
        /\ Bares(LoadItems(record')) = Bares(run'.items)
    BY <1>5, <1>10, <1>11, <1>12, <1>13, <1>14 DEF stored
  <2> QED BY <1>13, <2>1, AllDurable
<1> QED BY <1>1, <1>3, <1>12, <1>15, None, KeptIsOrdered DEF Mirrors

\* A tool round is stored when its results are in.
LEMMA RoundMirrors ==
  ASSUME Mirrors, Round
  PROVE  Mirrors'
<1> DEFINE item == Item("round", <<Piece("round", run.turn)>>)
           batch == Numbered(run.next, <<item>>)
<1>1. run.step = "asked" /\ UNCHANGED <<host, unwound>>
  BY DEF Round
<1>2. run # NoWork
  BY <1>1 DEF NoWork
<1>3. Kept(record, run) /\ IsSequence(host) /\ IsSequence(inbox) /\ unwound = <<>>
  BY <1>2 DEF Mirrors
<1>4. DOMAIN run = DOMAIN NoWork /\ IsSequence(run.items) /\ run.pending = <<>>
  BY <1>1, <1>3 DEF Kept
<1> HIDE DEF item
<1>5. /\ Appended(record, batch) = record \o batch /\ ~ Refused(record, batch)
      /\ run.next \in Nat /\ Spans(record \o batch, 0, run.next + 1)
      /\ Bares(LoadItems(record \o batch)) = Bares(run.items \o <<item>>)
  BY <1>1, <1>3, StoredAtOnce
<1> HIDE DEF batch
<1>6. /\ record' = Appended(record, batch)
      /\ ~ Refused(record, batch) =>
           /\ run' = [run EXCEPT !.step = "gather", !.items = Append(@, item),
                                 !.next = @ + 1, !.rounds = @ + 1]
           /\ UNCHANGED inbox
  BY DEF Round, item, batch
<1>7. /\ DOMAIN run' = DOMAIN NoWork /\ run'.step = "gather"
      /\ run'.items = Append(run.items, item) /\ run'.pending = <<>>
      /\ run'.next = run.next + 1
  <2>1. {"step", "items", "pending", "next", "rounds"} \subseteq DOMAIN run
    BY <1>4 DEF NoWork
  <2>2. run' = [run EXCEPT !.step = "gather", !.items = Append(@, item),
                           !.next = @ + 1, !.rounds = @ + 1]
    BY <1>5, <1>6
  <2> QED BY <1>4, <2>1, <2>2
<1>8. IsSequence(run'.items) /\ run'.items = run.items \o <<item>> /\ run'.next \in Nat
  <2>1. IsSequence(Append(run.items, item)) /\ Append(run.items, item) = run.items \o <<item>>
    BY <1>4, Longer, AppendJoins
  <2> QED BY <1>5, <1>7, <2>1
<1>9. Kept(record', run')
  <2>1. /\ Spans(record', 0, run'.next) /\ Bares(LoadItems(record')) = Bares(run'.items)
    BY <1>5, <1>6, <1>7, <1>8
  <2> QED BY <1>7, <1>8, <2>1, AllDurable
<1> QED BY <1>1, <1>3, <1>5, <1>6, <1>9, KeptIsOrdered DEF Mirrors

\* The reply is stored as the loop ends.
LEMMA ReplyMirrors ==
  ASSUME Mirrors, Reply
  PROVE  Mirrors'
<1> DEFINE text == <<Piece("reply", run.turn)>>
           item == Item("assistant", text)
           batch == Numbered(run.next, <<item>>)
<1>1. /\ run.step = "asked" /\ UNCHANGED <<host, unwound>>
      /\ record' = Appended(record, batch) /\ run' = NoWork /\ inbox' = <<>>
  BY DEF Reply, EndRun
<1>2. run # NoWork
  BY <1>1 DEF NoWork
<1>3. Kept(record, run) /\ IsSequence(host) /\ unwound = <<>>
  BY <1>2 DEF Mirrors
<1> HIDE DEF item
<1>4. Appended(record, batch) = record \o batch /\ Spans(record \o batch, 0, run.next + 1)
  BY <1>1, <1>3, StoredAtOnce
<1>5. Ordered(record')
  BY <1>1, <1>4 DEF Spans
<1> QED BY <1>1, <1>3, <1>5, None DEF Mirrors

\* A fork of the record holds one seed.
LEMMA RegenerateMirrors ==
  ASSUME Mirrors, NEW t \in Turn, NEW i \in DOMAIN host, Regenerate(t, i)
  PROVE  Mirrors'
<1>1. /\ run = NoWork /\ UNCHANGED <<run, inbox>>
      /\ host' = SubSeq(host, 1, i - 1)
  BY DEF Regenerate
<1>2. IsSequence(host) /\ IsSequence(inbox) /\ Ordered(record) /\ unwound = <<>>
  BY DEF Mirrors
<1>3. IsSequence(host')
  <2>1. 1 \in Nat \ {0} /\ i - 1 \in 0..Len(host)
    BY <1>2, SequenceIs
  <2> QED BY <1>1, <1>2, <2>1, Cut
<1>4. unwound' = <<>>
  BY <1>2 DEF Regenerate
<1>5. CASE UNCHANGED record
  BY <1>1, <1>2, <1>3, <1>4, <1>5 DEF Mirrors
<1>6. CASE ~ UNCHANGED record
  <2>1. PICK point \in ForkPoints(record, ForkOrdinal(i)) : record' = Fork(record, point)
    BY <1>6 DEF Regenerate
  <2> DEFINE upto == SubSeq(record, 1, point)
             seed == SeedEntry(0, LoadItems(upto))
  <2>2. 1 \in Nat \ {0} /\ point \in 0..Len(record)
    BY <1>2, SequenceIs DEF ForkPoints, Ordered, Entries
  <2>3. Entries(upto)
    BY <1>2, <2>2, EntriesCut DEF Ordered
  <2>4. IsSequence(LoadItems(upto))
    BY <2>3, LoadedIs
  <2>5. seed.seq = 0 /\ IsSequence(seed.items)
    BY <2>4 DEF SeedEntry
  <2>6. record' = <<seed>>
    BY <2>1 DEF Fork
  <2> HIDE DEF seed
  <2>7. Ordered(record')
    BY <2>5, <2>6, OneSpans DEF Spans
  <2> QED BY <1>1, <1>2, <1>3, <1>4, <2>7 DEF Mirrors
<1> QED BY <1>5, <1>6

\* The host stores a message or a reply.
LEMMA SayMirrors ==
  ASSUME Mirrors, NEW t \in Turn, Say(t) \/ StoreReply(t)
  PROVE  Mirrors'
<1>1. PICK row : host' = Append(host, row)
  BY DEF Say, StoreReply
<1>2. UNCHANGED <<record, run, unwound, inbox>>
  BY DEF Say, StoreReply
<1> QED BY <1>1, <1>2, Longer DEF Mirrors

\* The host stores a steer that the loop took.
LEMMA SteerMirrors ==
  ASSUME Mirrors, Steer
  PROVE  Mirrors'
<1>1. PICK row, item : host' = Append(host, row) /\ inbox' = Append(inbox, item)
  BY DEF Steer
<1>2. UNCHANGED <<record, run, unwound>>
  BY DEF Steer
<1> QED BY <1>1, <1>2, Longer DEF Mirrors

\* Every step keeps the invariant: a hard cancellation, which leaves a
\* second writer behind, ends what it speaks of.
LEMMA MirrorStep == MirrorInv /\ [HistoryNext]_historyVars => MirrorInv'
<1> SUFFICES ASSUME MirrorInv, [HistoryNext]_historyVars, ~overlapped'
             PROVE  Mirrors'
  BY DEF MirrorInv, Mirrors
<1>1. ASSUME NEW t \in Turn, Say(t) \/ StoreReply(t) PROVE Mirrors'
  <2>1. UNCHANGED overlapped
    BY <1>1 DEF Say, StoreReply
  <2> QED BY <1>1, <2>1, MirrorIs, SayMirrors
<1>2. ASSUME NEW t \in Turn, Open(t) PROVE Mirrors'
  <2>1. MirrorInv'
    BY <1>2, OpenMirrors
  <2> QED BY <2>1 DEF MirrorInv, Mirrors
<1>3. ASSUME NEW t \in Turn, ClearTurnActive(t) \/ Resume(t) PROVE Mirrors'
  <2>1. UNCHANGED <<host, record, run, unwound, inbox, overlapped>>
    BY <1>3 DEF ClearTurnActive, Resume
  <2> QED BY <2>1, MirrorIs DEF Mirrors
<1>4. ASSUME NEW t \in Turn, NEW i \in DOMAIN host, Regenerate(t, i) PROVE Mirrors'
  <2>1. UNCHANGED overlapped
    BY <1>4 DEF Regenerate
  <2> QED BY <1>4, <2>1, MirrorIs, RegenerateMirrors
<1>5. CASE Steer
  <2>1. UNCHANGED overlapped
    BY <1>5 DEF Steer
  <2> QED BY <1>5, <2>1, MirrorIs, SteerMirrors
<1>6. ASSUME NEW cut \in 0..Len(run.items), Request(cut) PROVE Mirrors'
  <2>1. UNCHANGED overlapped
    BY <1>6 DEF Request
  <2>2. Mirrors
    BY <2>1, MirrorIs
  <2>3. cut \in Nat
    OBVIOUS
  <2>4. CASE cut = 0
    BY <1>6, <2>2, <2>4, RequestMirrors
  <2>5. CASE cut # 0
    BY <1>6, <2>2, <2>3, <2>5, CompactMirrors
  <2> QED BY <2>4, <2>5
<1>7. CASE Round
  <2>1. UNCHANGED overlapped
    BY <1>7 DEF Round
  <2> QED BY <1>7, <2>1, MirrorIs, RoundMirrors
<1>8. CASE Reply
  <2>1. UNCHANGED overlapped
    BY <1>8 DEF Reply
  <2> QED BY <1>8, <2>1, MirrorIs, ReplyMirrors
<1>9. CASE Continue
  <2>1. MirrorInv'
    BY <1>9, ContinueMirrors
  <2> QED BY <2>1 DEF MirrorInv, Mirrors
<1>10. CASE Fail \/ Crash
  <2>1. /\ UNCHANGED <<host, record, overlapped>> /\ run' = NoWork /\ inbox' = <<>>
        /\ unwound' = unwound \/ unwound' = <<>>
    BY <1>10 DEF Fail, Crash, EndRun
  <2>2. Mirrors
    BY <2>1, MirrorIs
  <2> QED BY <2>1, <2>2, None DEF Mirrors
<1>11. CASE CancelHard
  BY <1>11 DEF CancelHard
<1>12. CASE LateFlush
  <2>1. UNCHANGED overlapped /\ unwound # <<>>
    BY <1>12 DEF LateFlush
  <2> QED BY <2>1, MirrorIs DEF Mirrors
<1>13. CASE UNCHANGED historyVars
  <2>1. UNCHANGED <<host, record, run, unwound, inbox, overlapped>>
    BY <1>13 DEF historyVars
  <2> QED BY <2>1, MirrorIs DEF Mirrors
<1> QED BY <1>1, <1>2, <1>3, <1>4, <1>5, <1>6, <1>7, <1>8, <1>9, <1>10, <1>11, <1>12,
           <1>13 DEF HistoryNext

\* The invariant says of a run with nothing waiting that the record mirrors
\* it.
LEMMA MirrorMeans == MirrorInv => RecordMirrorsTheRun
<1> SUFFICES ASSUME MirrorInv, run # NoWork, run.pending = <<>>, ~overlapped
             PROVE  Bares(LoadItems(record)) = Bares(run.items)
  BY DEF RecordMirrorsTheRun
<1>1. Kept(record, run)
  BY DEF MirrorInv
<1>2. IsSequence(run.items) /\ Len(run.pending) = 0
  BY <1>1, None DEF Kept
<1>3. Durable(run) = Len(run.items)
  BY <1>2, SequenceIs DEF Durable
<1>4. SubSeq(run.items, 1, Durable(run)) = run.items
  BY <1>2, <1>3, WholePrefix
<1> QED BY <1>1, <1>4 DEF Kept

\* In every chat, whatever its turns, steers, compactions, budget walls,
\* failures, crashes, forks and resumptions, and for all bounds: unless a
\* stream was cancelled hard (overlapped), what the loop holds in memory
\* when nothing waits for a flush is what load_history_items would give
\* back. A run that died there could be continued from its record.
THEOREM RecordsMirrorRuns == HistorySpec => []RecordMirrorsTheRun
<1> QED BY MirrorInitially, MirrorStep, MirrorMeans, PTL DEF HistorySpec

-----------------------------------------------------------------------------
(* Texts on their way to the model.                                        *)

\* Texts that are user messages as the host first stores them.
UserTexts == {<<Piece("user", m)>> : m \in Nat}

\* A text that ends in a piece of another kind is none of them.
LEMMA PieceIsNot ==
  ASSUME NEW by, by # "user", NEW n, NEW text, IsSequence(text), NEW B \in SUBSET UserTexts
  PROVE  Append(text, Piece(by, n)) \notin B /\ <<Piece(by, n)>> \notin B
<1>1. Piece(by, n).by # "user" /\ \A m : Piece("user", m).by = "user"
  BY DEF Piece
<1>2. ASSUME NEW s, IsSequence(s), NEW x, x.by # "user", Append(s, x) \in B PROVE FALSE
  <2>1. PICK m \in Nat : Append(s, x) = <<Piece("user", m)>>
    BY <1>2 DEF UserTexts
  <2>2. Len(s) \in Nat /\ DOMAIN s = 1..Len(s)
    BY <1>2, SequenceIs
  <2>3. /\ Len(Append(s, x)) = Len(s) + 1
        /\ Append(s, x)[Len(s) + 1] = x
    BY <1>2 DEF IsSequence
  <2>4. Len(<<Piece("user", m)>>) = 1 /\ <<Piece("user", m)>>[1] = Piece("user", m)
    BY Single
  <2>5. x = Piece("user", m)
    BY <2>1, <2>2, <2>3, <2>4
  <2> QED BY <1>1, <1>2, <2>5
<1>3. IsSequence(<<>>) /\ Append(<<>>, Piece(by, n)) = <<Piece(by, n)>>
  BY None
<1> QED BY <1>1, <1>2, <1>3

\* Rows of the host's table.
HostTable(h) ==
  /\ IsSequence(h)
  /\ \A i \in DOMAIN h : /\ h[i].turn \in Turn /\ h[i].role \in {"user", "assistant"}
                         /\ IsSequence(h[i].text)

\* What the host sends has no text that its rows have not, but for the tool
\* calls it spells out.
LEMMA HostSeedWithout ==
  ASSUME HostTable(host), NEW B \in SUBSET UserTexts,
         \A i \in DOMAIN host : host[i].text \notin B, NEW t
  PROVE  Without(HostSeed(t), B)
<1> DEFINE replies == {j \in DOMAIN host : Earlier(t, j) /\ host[j].role = "assistant"}
           recent(i) == Cardinality({j \in replies : i <= j}) <= RecentReplies
           text(i) == IF i \in replies /\ host[i].acted /\ recent(i)
                      THEN Append(host[i].text, Piece("acts", host[i].turn)) ELSE host[i].text
           q(i) == IF Earlier(t, i) /\ text(i) # <<>> THEN <<Item(host[i].role, text(i))>> ELSE <<>>
           e == [i \in DOMAIN host |-> SeedEntry(0, q(i))]
<1>1. HostSeed(t) = FlattenSeq([i \in DOMAIN host |-> q(i)])
  BY DEF HostSeed
<1>2. Len(host) \in Nat /\ DOMAIN host = 1..Len(host)
  BY SequenceIs DEF HostTable
<1>3. ASSUME NEW i \in DOMAIN host PROVE text(i) \notin B
  <2>1. Append(host[i].text, Piece("acts", host[i].turn)) \notin B
    BY PieceIsNot DEF HostTable
  <2> QED BY <2>1
<1> HIDE DEF text
<1>4. ASSUME NEW i \in DOMAIN host PROVE Without(q(i), B)
  <2>1. Item(host[i].role, text(i)).text \notin B
    BY <1>3 DEF Item
  <2>2. Without(<<Item(host[i].role, text(i))>>, B)
    BY <2>1, WithoutOne
  <2> QED BY <2>2, WithoutNone
<1> HIDE DEF q
<1>5. \A i \in DOMAIN host : e[i].items = q(i) /\ e[i].type = "seed"
  BY DEF SeedEntry
<1>6. e = [i \in 1..Len(host) |-> e[i]] /\ DOMAIN e = DOMAIN host
  BY <1>2
<1>7. IsSequence(e)
  <2> HIDE DEF e
  <2> QED BY <1>2, <1>6, IsASequence
<1>8. Items(e) = FlattenSeq([i \in DOMAIN host |-> q(i)])
  <2>1. [i \in DOMAIN e |-> e[i].items] = [i \in DOMAIN host |-> q(i)]
    BY <1>5, <1>6
  <2> HIDE DEF e
  <2> QED BY <2>1 DEF Items
<1> HIDE DEF e
<1>9. RowsWithout(e, B)
  BY <1>4, <1>5, <1>6, <1>7 DEF RowsWithout, Entries, Without
<1>10. Without(Items(e), B)
  BY <1>9, ItemsWithout
<1> QED BY <1>1, <1>8, <1>10

\* The prompt is the text of a user row.
LEMMA PromptIs ==
  ASSUME HostTable(host), \E i \in DOMAIN host : host[i].role = "user"
  PROVE  \E i \in DOMAIN host : Prompt = host[i].text
<1> DEFINE U == {i \in DOMAIN host : host[i].role = "user"}
<1>1. Len(host) \in Nat /\ DOMAIN host = 1..Len(host)
  BY SequenceIs DEF HostTable
<1>2. U # {} /\ U \in SUBSET (1..Len(host))
  BY <1>1
<1>3. Max(U) \in U
  <2> DEFINE l == Len(host)
             k == Max({0} \cup U)
  <2>1. l \in Nat /\ U \in SUBSET (1..l) /\ U # {}
    BY <1>1, <1>2
  <2> HIDE DEF U, l
  <2>2. k \in {0} \cup U /\ \A b \in U : b <= k
    BY <2>1, LastOne
  <2> HIDE DEF k
  <2>3. \A x \in U : x \in Nat /\ x >= 1
    BY <2>1
  <2>4. k \in U
    <3>1. PICK x \in U : TRUE
      BY <2>1
    <3>2. k # 0
      BY <2>2, <2>3, <3>1
    <3> QED BY <2>2, <3>2
  <2>5. \A x \in U : k >= x
    BY <2>2, <2>3, <2>4
  <2>6. \E m \in U : \A x \in U : m >= x
    BY <2>4, <2>5
  <2> QED BY <2>6 DEF Max
<1>4. Prompt = host[Max(U)].text
  BY DEF Prompt
<1> HIDE DEF U
<1>5. U \subseteq DOMAIN host
  BY <1>1, <1>2
<1> QED BY <1>3, <1>4, <1>5

\* What a run is given.
LEMMA MessagesWithout ==
  ASSUME HostTable(host), \E i \in DOMAIN host : host[i].role = "user",
         NEW B \in SUBSET UserTexts, RowsWithout(record, B),
         NEW t, turn[t].mode # "resume" => \A i \in DOMAIN host : host[i].text \notin B,
         NEW v, NEW extra \in {<<>>, <<Piece("extra", t)>>}
  PROVE  Without(SeedMessages(t, v, extra), B)
<1>0. Without(<<SystemItem(v)>>, B)
  <2>1. SystemItem(v).text = <<Piece("system", v)>>
    BY DEF SystemItem, Item
  <2>2. <<Piece("system", v)>> \notin B
    BY None, PieceIsNot
  <2> QED BY <2>1, <2>2, WithoutOne
<1>1. ASSUME turn[t].mode = "resume" PROVE Without(SeedMessages(t, v, extra), B)
  <2> DEFINE replayed == Bares(LoadItems(record))
             body == IF replayed # <<>> /\ replayed[1].kind = "system"
                     THEN Tail(replayed) ELSE replayed
  <2>1. Without(replayed, B)
    BY LoadedWithout, WithoutBares
  <2>2. Without(body, B)
    <3> HIDE DEF replayed
    <3>1. IsSequence(replayed) /\ Len(replayed) \in Nat /\ DOMAIN replayed = 1..Len(replayed)
      BY <2>1, SequenceIs DEF Without
    <3>2. replayed # <<>> => Without(Tail(replayed), B)
      <4> SUFFICES ASSUME replayed # <<>> PROVE Without(Tail(replayed), B)
        OBVIOUS
      <4>1. IsSequence(Tail(replayed))
        BY <3>1, TailIs
      <4>2. /\ Len(Tail(replayed)) = Len(replayed) - 1
            /\ \A i \in 1..(Len(replayed) - 1) : Tail(replayed)[i] = replayed[i + 1]
        BY <3>1 DEF IsSequence
      <4>3. DOMAIN Tail(replayed) = 1..Len(Tail(replayed))
        BY <4>1, SequenceIs
      <4> QED BY <2>1, <3>1, <4>1, <4>2, <4>3 DEF Without
    <3> QED BY <2>1, <3>2
  <2> HIDE DEF body
  <2>3. Without(<<SystemItem(v)>> \o body, B)
    BY <1>0, <2>2, WithoutJoined
  <2> QED BY <1>1, <2>3 DEF SeedMessages, body
<1>2. ASSUME turn[t].mode # "resume" PROVE Without(SeedMessages(t, v, extra), B)
  <2> DEFINE a == <<SystemItem(v)>>
             b == HostSeed(t)
             c == <<Item("user", Prompt \o extra)>>
  <2>1. Without(b, B)
    BY <1>2, HostSeedWithout
  <2>2. Prompt \o extra \notin B
    <3>1. PICK i \in DOMAIN host : Prompt = host[i].text
      BY PromptIs
    <3>2. IsSequence(Prompt) /\ Prompt \notin B
      BY <1>2, <3>1 DEF HostTable
    <3>3. Append(Prompt, Piece("extra", t)) \notin B
      BY <3>2, PieceIsNot
    <3>4. Prompt \o <<>> = Prompt /\ Prompt \o <<Piece("extra", t)>> = Append(Prompt, Piece("extra", t))
      BY <3>2, JoinedToNone, AppendJoins
    <3> QED BY <3>2, <3>3, <3>4
  <2>3. Without(c, B)
    <3>1. Item("user", Prompt \o extra).text \notin B
      BY <2>2 DEF Item
    <3> QED BY <3>1, WithoutOne
  <2> HIDE DEF b, c
  <2>4. Without(a \o b \o c, B)
    BY <1>0, <2>1, <2>3, WithoutJoined
  <2> QED BY <1>2, <2>4 DEF SeedMessages, b, c
<1> QED BY <1>1, <1>2

\* What a compaction restates.
LEMMA RestatedWithout ==
  ASSUME NEW B \in SUBSET UserTexts, NEW items, Without(items, B),
         NEW cut \in (HeadEnd(items) + 1)..(Len(items) - 1)
  PROVE  Without(Restated(items, cut), B)
<1> DEFINE h == HeadEnd(items)
           s == Summary(SubSeq(items, h + 1, cut))
           a == SubSeq(items, 1, h)
           b == <<Item("user", <<s>>)>>
           c == SubSeq(items, cut + 1, Len(items))
<1>1. Len(items) \in Nat /\ h \in {1, 2}
  BY SequenceIs DEF HeadEnd, Without
<1>2. /\ h \in 0..Len(items) /\ cut + 1 \in Nat \ {0} /\ Len(items) \in 0..Len(items)
      /\ 1 \in Nat \ {0}
  BY <1>1
<1>3. Without(a, B) /\ Without(c, B)
  BY <1>2, WithoutCut
<1>4. s.by # "user"
  BY DEF Summary
<1> HIDE DEF s
<1>5. <<s>> \notin B
  <2>1. <<s>>[1] = s /\ \A m : <<Piece("user", m)>>[1].by = "user"
    BY DEF Piece
  <2> QED BY <1>4, <2>1 DEF UserTexts
<1>6. Without(b, B)
  BY <1>5, WithoutOne DEF Item
<1> HIDE DEF a, b, c
<1>7. Without(a \o b \o c, B)
  BY <1>3, <1>6, WithoutJoined
<1> QED BY <1>7 DEF Restated, a, b, c, s

-----------------------------------------------------------------------------
(* The order of the turns.                                                 *)

\* Texts that a run streams to the host.
SaidTexts == Seq([by : {"says", "reply", "part"}, n : Nat, of : {<<>>}])

\* What is kept of a turn.
TurnRecord == [mode : {"none", "send", "early", "resume", "regenerate"},
               phase : {"unsent", "said", "open", "ended", "stored", "done", "dead"},
               said : SaidTexts, acted : BOOLEAN]

\* Streamed says that the reply of the turn has been streamed, or is lost.
Streamed(t) == turn[t].phase \in {"ended", "stored", "done", "dead"}

\* The run works on an open turn.
RunsTurn ==
  run # NoWork => /\ DOMAIN run = DOMAIN NoWork
                  /\ run.turn \in Turn /\ turn[run.turn].phase = "open"

\* Turns follow each other.
Turns ==
  /\ turn \in [Turn -> TurnRecord]
  /\ \A s, n \in Turn : s < n /\ turn[n].phase # "unsent" =>
       Streamed(s) /\ (turn[n].mode # "early" => Over(s))
  /\ RunsTurn

\* A turn that was sent stays so
Advances ==
  \A t \in Turn :
    /\ turn[t].phase # "unsent" => turn'[t].phase # "unsent" /\ turn'[t].mode = turn[t].mode
    /\ turn[t].phase \notin {"unsent", "said"} => turn'[t].phase \notin {"unsent", "said"}

\* Turns are numbers.
LEMMA TurnIs == \A t \in Turn : t \in Nat /\ t >= 1 /\ \A s \in Turn : s < t <=> s \in 1..(t - 1)
<1>1. MaxTurns \in Nat
  BY BoundsAssumption
<1> QED BY <1>1 DEF Turn

\* What the turn's handler or its run does to it.
LEMMA TurnMoves ==
  ASSUME Turns, NEW t \in Turn, NEW r \in TurnRecord,
         turn' = [turn EXCEPT ![t] = r], r.mode = turn[t].mode,
         turn[t].phase \in {"said", "open", "ended", "stored"},
         r.phase \in {"open", "ended", "stored", "done"},
         Streamed(t) => r.phase \in {"ended", "stored", "done"},
         RunsTurn'
  PROVE  Turns' /\ Advances
<1>1. turn' \in [Turn -> TurnRecord] /\ turn'[t] = r /\ \A s \in Turn \ {t} : turn'[s] = turn[s]
  BY DEF Turns
<1>2. Advances
  BY <1>1 DEF Advances
<1>3. ASSUME NEW s \in Turn, NEW n \in Turn, s < n, turn'[n].phase # "unsent"
      PROVE  Streamed(s)' /\ (turn'[n].mode # "early" => Over(s)')
  <2>1. turn[n].phase # "unsent" /\ turn'[n].mode = turn[n].mode
    BY <1>1, <1>3
  <2>2. Streamed(s) /\ (turn[n].mode # "early" => Over(s))
    BY <1>3, <2>1 DEF Turns
  <2> QED BY <1>1, <2>1, <2>2 DEF Streamed, Over
<1> QED BY <1>1, <1>2, <1>3 DEF Turns

\* A turn begins.
LEMMA TurnBegins ==
  ASSUME Turns, NEW t \in Turn, Fresh(t), NEW mode \in {"send", "early", "resume", "regenerate"},
         Begin(t, mode), run' = NoWork,
         \A s \in 1..(t - 1) : Streamed(s) /\ (mode # "early" => Over(s))
  PROVE  Turns' /\ Advances
<1>1. /\ turn' \in [Turn -> TurnRecord] /\ \A s \in Turn \ {t} : turn'[s] = turn[s]
      /\ turn'[t].phase = "said" /\ turn'[t].mode = mode
  BY DEF Turns, Begin, TurnRecord
<1>2. turn[t].phase = "unsent"
  BY DEF Fresh
<1>3. Advances
  BY <1>1, <1>2 DEF Advances
<1>4. ASSUME NEW s \in Turn, NEW n \in Turn, s < n, turn'[n].phase # "unsent"
      PROVE  Streamed(s)' /\ (turn'[n].mode # "early" => Over(s)')
  <2>1. CASE n = t
    <3>1. s \in 1..(t - 1) /\ s # t
      BY <1>4, <2>1, TurnIs
    <3> QED BY <1>1, <2>1, <3>1 DEF Streamed, Over
  <2>2. CASE n # t
    <3>1. turn[n] = turn'[n] /\ Streamed(s) /\ (turn[n].mode # "early" => Over(s))
      BY <1>1, <1>4, <2>2 DEF Turns
    <3>2. s # t
      BY <1>2, <3>1 DEF Streamed
    <3> QED BY <1>1, <3>1, <3>2 DEF Streamed, Over
  <2> QED BY <2>1, <2>2
<1> QED BY <1>1, <1>3, <1>4 DEF Turns, RunsTurn

\* What is said is a text.
LEMMA SaidGrows ==
  ASSUME NEW said \in SaidTexts, NEW by \in {"says", "reply", "part"}, NEW n \in Nat
  PROVE  /\ said \o <<Piece(by, n)>> \in SaidTexts /\ said \o <<>> \in SaidTexts
         /\ <<>> \in SaidTexts
<1>1. Piece(by, n) \in [by : {"says", "reply", "part"}, n : Nat, of : {<<>>}]
  BY DEF Piece
<1> QED BY <1>1 DEF SaidTexts

\* What the turn of the run has said so far.
LEMMA RunSays ==
  ASSUME Turns, run # NoWork
  PROVE  /\ run.turn \in Turn /\ run.turn \in Nat /\ turn[run.turn] \in TurnRecord
         /\ turn[run.turn].phase = "open"
         /\ Said \in SaidTexts /\ Acted \in BOOLEAN
<1>1. run.turn \in Turn /\ turn[run.turn] \in TurnRecord /\ turn[run.turn].phase = "open"
  BY DEF Turns, RunsTurn
<1> QED BY <1>1, TurnIs DEF Said, Acted, TurnRecord

\* The run's turn ends.
LEMMA RunEnds ==
  ASSUME Turns, run # NoWork, NEW said \in SaidTexts, NEW acted \in BOOLEAN, EndRun(said, acted)
  PROVE  Turns' /\ Advances
<1> DEFINE t == run.turn
           r == [turn[t] EXCEPT !.phase = "ended", !.said = said, !.acted = acted]
<1>1. t \in Turn /\ turn[t] \in TurnRecord /\ turn[t].phase = "open"
  BY RunSays
<1>2. r \in TurnRecord /\ r.phase = "ended" /\ r.mode = turn[t].mode
  BY <1>1 DEF TurnRecord
<1>3. turn' = [turn EXCEPT ![t] = r]
  BY <1>1 DEF EndRun, Turns
<1>4. RunsTurn'
  BY DEF EndRun, RunsTurn
<1> HIDE DEF t, r
<1> QED BY <1>1, <1>2, <1>3, <1>4, TurnMoves

\* The run goes on.
LEMMA RunGoesOn ==
  ASSUME Turns, UNCHANGED turn,
         run' = run \/ (run # NoWork /\ run'.turn = run.turn /\ DOMAIN run' = DOMAIN NoWork)
  PROVE  Turns' /\ Advances
<1>1. RunsTurn'
  BY DEF Turns, RunsTurn
<1> QED BY <1>1 DEF Turns, Advances, Streamed, Over

\* One lemma for each way a step moves a turn: the message route,
LEMMA SayTurns ==
  ASSUME Turns, NEW t \in Turn, Say(t)
  PROVE  Turns' /\ Advances
<1>1. /\ Fresh(t) /\ run' = NoWork /\ \A s \in 1..(t - 1) : Streamed(s)
      /\ \/ Begin(t, "early")
         \/ Begin(t, "send") /\ \A s \in 1..(t - 1) : Over(s)
  BY DEF Say, Streamed
<1> QED BY <1>1, TurnBegins

\* the resume and the regenerate route,
LEMMA AgainTurns ==
  ASSUME Turns, NEW t \in Turn,
         Resume(t) \/ \E i \in DOMAIN host : Regenerate(t, i)
  PROVE  Turns' /\ Advances
<1>1. /\ Fresh(t) /\ run' = NoWork /\ \A s \in 1..(t - 1) : Over(s)
      /\ Begin(t, "resume") \/ Begin(t, "regenerate")
  BY DEF Resume, Regenerate, Interrupted
<1>2. \A s \in 1..(t - 1) : Streamed(s)
  BY <1>1 DEF Over, Streamed
<1> QED BY <1>1, <1>2, TurnBegins

\* the start of the run,
LEMMA OpenTurns ==
  ASSUME Turns, NEW t \in Turn, Open(t)
  PROVE  Turns' /\ Advances
<1>1. /\ turn[t].phase = "said" /\ run = NoWork
      /\ \/ turn' = [turn EXCEPT ![t].phase = "ended"] /\ run' = run
         \/ /\ turn' = [turn EXCEPT ![t].phase = "open"]
            /\ \E messages, plan : run' = StartedRun(t, messages, plan)
  BY DEF Open
<1>2. turn \in [Turn -> TurnRecord] /\ turn[t] \in TurnRecord
  BY DEF Turns
<1>3. CASE turn' = [turn EXCEPT ![t].phase = "ended"] /\ run' = run
  <2> DEFINE r == [turn[t] EXCEPT !.phase = "ended"]
  <2>1. r \in TurnRecord /\ r.phase = "ended" /\ r.mode = turn[t].mode
        /\ turn' = [turn EXCEPT ![t] = r]
    BY <1>2, <1>3 DEF TurnRecord
  <2>2. RunsTurn'
    BY <1>1, <1>3 DEF RunsTurn
  <2> HIDE DEF r
  <2> QED BY <1>1, <2>1, <2>2, TurnMoves
<1>4. CASE /\ turn' = [turn EXCEPT ![t].phase = "open"]
           /\ \E messages, plan : run' = StartedRun(t, messages, plan)
  <2> DEFINE r == [turn[t] EXCEPT !.phase = "open"]
  <2>1. r \in TurnRecord /\ r.phase = "open" /\ r.mode = turn[t].mode
        /\ turn' = [turn EXCEPT ![t] = r]
    BY <1>2, <1>4 DEF TurnRecord
  <2>2. turn'[t].phase = "open"
    BY <1>2, <2>1
  <2>3. RunsTurn'
    BY <1>4, <2>2 DEF RunsTurn, StartedRun, NoWork
  <2> HIDE DEF r
  <2>4. ~ Streamed(t)
    BY <1>1 DEF Streamed
  <2> QED BY <1>1, <2>1, <2>3, <2>4, TurnMoves
<1> QED BY <1>1, <1>3, <1>4

\* the reply and the marker,
LEMMA StoreTurns ==
  ASSUME Turns, NEW t \in Turn, StoreReply(t) \/ ClearTurnActive(t)
  PROVE  Turns' /\ Advances
<1>1. PICK p \in {"stored", "done"} :
        /\ turn[t].phase \in {"ended", "stored"} /\ run' = run
        /\ turn' = [turn EXCEPT ![t].phase = p]
  BY DEF StoreReply, ClearTurnActive
<1>2. turn \in [Turn -> TurnRecord] /\ turn[t] \in TurnRecord
  BY DEF Turns
<1> DEFINE r == [turn[t] EXCEPT !.phase = p]
<1>3. r \in TurnRecord /\ r.phase = p /\ r.mode = turn[t].mode
      /\ turn' = [turn EXCEPT ![t] = r]
  BY <1>1, <1>2 DEF TurnRecord
<1>4. RunsTurn'
  BY <1>1, <1>2 DEF Turns, RunsTurn
<1> HIDE DEF r
<1> QED BY <1>1, <1>3, <1>4, TurnMoves

\* the flush before a request,
LEMMA RequestTurns ==
  ASSUME Turns, NEW cut \in 0..Len(run.items), Request(cut)
  PROVE  Turns' /\ Advances
<1>1. run.step = "gather"
  BY DEF Request
<1>2. run # NoWork
  BY <1>1 DEF NoWork
<1>3. \/ EndRun(Said, Acted)
      \/ /\ UNCHANGED turn
         /\ \E items, next : run' = [run EXCEPT !.step = "asked", !.items = items, !.pending = <<>>,
                                                !.next = next]
  BY DEF Request, Flush
<1>4. CASE EndRun(Said, Acted)
  BY <1>2, <1>4, RunSays, RunEnds
<1>5. CASE /\ UNCHANGED turn
           /\ \E items, next : run' = [run EXCEPT !.step = "asked", !.items = items, !.pending = <<>>,
                                                  !.next = next]
  <2>1. DOMAIN run = DOMAIN NoWork
    BY <1>2 DEF Turns, RunsTurn
  <2>2. "turn" \in DOMAIN run
    BY <2>1 DEF NoWork
  <2>3. run'.turn = run.turn /\ DOMAIN run' = DOMAIN NoWork
    BY <1>5, <2>1, <2>2
  <2> QED BY <1>2, <1>5, <2>3, RunGoesOn
<1> QED BY <1>3, <1>4, <1>5

\* a tool round,
LEMMA RoundTurns ==
  ASSUME Turns, Round
  PROVE  Turns' /\ Advances
<1> DEFINE item == Item("round", <<Piece("round", run.turn)>>)
           t == run.turn
<1>1. run.step = "asked"
  BY DEF Round
<1>2. run # NoWork
  BY <1>1 DEF NoWork
<1>3. PICK says \in {<<>>, <<Piece("says", run.turn)>>} :
        \/ EndRun(Said \o says, TRUE)
        \/ /\ run' = [run EXCEPT !.step = "gather", !.items = Append(@, item),
                                 !.next = @ + 1, !.rounds = @ + 1]
           /\ turn' = [turn EXCEPT ![t].said = @ \o says, ![t].acted = TRUE]
  BY DEF Round
<1>4. Said \o says \in SaidTexts
  <2> DEFINE said == Said
  <2>1. said \in SaidTexts /\ run.turn \in Nat
    BY <1>2, RunSays
  <2> HIDE DEF said
  <2>2. said \o <<Piece("says", run.turn)>> \in SaidTexts /\ said \o <<>> \in SaidTexts
    BY <2>1, SaidGrows
  <2> QED BY <2>2 DEF said
<1>5. CASE EndRun(Said \o says, TRUE)
  BY <1>2, <1>4, <1>5, RunEnds
<1>6. CASE /\ run' = [run EXCEPT !.step = "gather", !.items = Append(@, item),
                                 !.next = @ + 1, !.rounds = @ + 1]
           /\ turn' = [turn EXCEPT ![t].said = @ \o says, ![t].acted = TRUE]
  <2>1. DOMAIN run = DOMAIN NoWork
    BY <1>2 DEF Turns, RunsTurn
  <2>2. "turn" \in DOMAIN run
    BY <2>1 DEF NoWork
  <2>3. run'.turn = t /\ DOMAIN run' = DOMAIN NoWork
    BY <1>6, <2>1, <2>2
  <2> DEFINE r == [turn[t] EXCEPT !.said = Said \o says, !.acted = TRUE]
  <2>4. t \in Turn /\ turn[t] \in TurnRecord /\ turn[t].phase = "open"
        /\ turn \in [Turn -> TurnRecord]
    BY <1>2, RunSays DEF Turns
  <2> HIDE DEF t
  <2>5. r \in TurnRecord /\ r.mode = turn[t].mode /\ r.phase = "open"
    BY <1>4, <2>4 DEF TurnRecord
  <2>6. turn' = [turn EXCEPT ![t] = r]
    BY <1>6, <2>4 DEF Said, t
  <2>7. RunsTurn'
    BY <2>3, <2>4, <2>5, <2>6 DEF RunsTurn
  <2> HIDE DEF r
  <2>8. ~ Streamed(t)
    BY <2>4 DEF Streamed
  <2> QED BY <2>4, <2>5, <2>6, <2>7, <2>8, TurnMoves
<1> QED BY <1>3, <1>5, <1>6

\* the end of the run,
LEMMA EndingTurns ==
  ASSUME Turns, Reply \/ Fail \/ CancelHard
  PROVE  Turns' /\ Advances
<1>1. run # NoWork
  <2>1. Reply => run.step = "asked"
    BY DEF Reply
  <2> QED BY <2>1 DEF Fail, CancelHard, NoWork
<1>2. \E says \in {<<>>, <<Piece("reply", run.turn)>>, <<Piece("part", run.turn)>>} :
        EndRun(Said \o says, Acted) \/ EndRun(Said, Acted)
  BY DEF Reply, Fail, CancelHard
<1>3. PICK says \in {<<>>, <<Piece("reply", run.turn)>>, <<Piece("part", run.turn)>>} :
        EndRun(Said \o says, Acted) \/ EndRun(Said, Acted)
  BY <1>2
<1>4. Said \o says \in SaidTexts /\ Said \in SaidTexts /\ Acted \in BOOLEAN
  <2> DEFINE said == Said
  <2>1. said \in SaidTexts /\ run.turn \in Nat /\ Acted \in BOOLEAN
    BY <1>1, RunSays
  <2> HIDE DEF said
  <2>2. /\ said \o <<Piece("reply", run.turn)>> \in SaidTexts
        /\ said \o <<Piece("part", run.turn)>> \in SaidTexts /\ said \o <<>> \in SaidTexts
    BY <2>1, SaidGrows
  <2> QED BY <2>1, <2>2 DEF said
<1> QED BY <1>1, <1>3, <1>4, RunEnds

\* a budget wall,
LEMMA ContinueTurns ==
  ASSUME Turns, Continue
  PROVE  Turns' /\ Advances
<1>1. run.step = "gather" /\ UNCHANGED turn
  BY DEF Continue
<1>2. run # NoWork
  BY <1>1 DEF NoWork
<1>3. PICK messages, plan : run' = [StartedRun(run.turn, messages, plan) EXCEPT !.sent = run.sent]
  BY DEF Continue
<1>4. run'.turn = run.turn /\ DOMAIN run' = DOMAIN NoWork
  BY <1>3 DEF StartedRun, NoWork
<1> QED BY <1>1, <1>2, <1>4, RunGoesOn

\* and the death of both processes.
LEMMA CrashTurns ==
  ASSUME Turns, Crash
  PROVE  Turns' /\ Advances
<1>1. /\ run' = NoWork
      /\ turn' = [t \in Turn |->
                   IF turn[t].phase \in {"said", "open", "ended", "stored"}
                   THEN [turn[t] EXCEPT !.phase = "dead", !.said = <<>>] ELSE turn[t]]
  BY DEF Crash
<1>2. turn \in [Turn -> TurnRecord] /\ <<>> \in SaidTexts
  BY DEF Turns, SaidTexts
<1>3. ASSUME NEW t \in Turn
      PROVE  /\ turn'[t] \in TurnRecord /\ turn'[t].mode = turn[t].mode
             /\ turn[t].phase = "unsent" => turn'[t].phase = "unsent"
             /\ turn[t].phase # "unsent" => turn'[t].phase \in {"done", "dead"}
  BY <1>1, <1>2 DEF TurnRecord
<1>4. turn' \in [Turn -> TurnRecord]
  BY <1>1, <1>3
<1>5. ASSUME NEW s \in Turn, NEW n \in Turn, s < n, turn'[n].phase # "unsent"
      PROVE  Streamed(s)' /\ Over(s)'
  <2>1. Streamed(s)
    BY <1>3, <1>5 DEF Turns
  <2>2. turn[s].phase # "unsent"
    BY <2>1 DEF Streamed
  <2> QED BY <1>3, <2>2 DEF Streamed, Over
<1>6. Advances
  BY <1>3 DEF Advances
<1> QED BY <1>1, <1>4, <1>5, <1>6 DEF Turns, RunsTurn

\* Every step keeps the order of the turns.
LEMMA TurnsStep ==
  ASSUME Turns, [HistoryNext]_historyVars
  PROVE  Turns' /\ Advances
<1>1. ASSUME NEW t \in Turn, Say(t) \/ Open(t) \/ StoreReply(t) \/ ClearTurnActive(t) \/ Resume(t)
      PROVE  Turns' /\ Advances
  BY <1>1, SayTurns, OpenTurns, StoreTurns, AgainTurns
<1>2. ASSUME NEW t \in Turn, NEW i \in DOMAIN host, Regenerate(t, i) PROVE Turns' /\ Advances
  BY <1>2, AgainTurns
<1>3. ASSUME NEW cut \in 0..Len(run.items), Request(cut) PROVE Turns' /\ Advances
  BY <1>3, RequestTurns
<1>4. CASE Steer \/ LateFlush \/ UNCHANGED historyVars
  <2>1. UNCHANGED <<turn, run>>
    BY <1>4 DEF Steer, LateFlush, historyVars
  <2> QED BY <2>1, RunGoesOn
<1>5. CASE Round \/ Reply \/ Continue \/ Fail \/ CancelHard \/ Crash
  BY <1>5, RoundTurns, EndingTurns, ContinueTurns, CrashTurns
<1> QED BY <1>1, <1>2, <1>3, <1>4, <1>5 DEF HistoryNext

-----------------------------------------------------------------------------
(* The host's table.                                                       *)

\* The texts of the messages that are not sent yet,
Unsent == {<<Piece("user", m)>> : m \in {n \in Turn : turn[n].phase = "unsent"}}

\* and of those that the loop was not told of.
Untold == {<<Piece("user", m)>> :
             m \in {n \in Turn : \A s \in Turn : s >= n => turn[s].phase \in {"unsent", "said"}}}

\* The host's table has a user row once a turn was sent, and no message
\* before its turn.
HostRows ==
  /\ HostTable(host)
  /\ \A i \in DOMAIN host : host[i].text \notin Unsent
  /\ (\E t \in Turn : turn[t].phase # "unsent") => \E i \in DOMAIN host : host[i].role = "user"

\* A message once sent or told stays so.
LEMMA TextsShrink ==
  ASSUME Advances
  PROVE  /\ Unsent' \subseteq Unsent /\ Untold' \subseteq Untold
         /\ Unsent \subseteq UserTexts /\ Untold \subseteq UserTexts
         /\ Untold' \subseteq UserTexts
<1>1. \A n \in Turn : turn'[n].phase = "unsent" => turn[n].phase = "unsent"
  BY DEF Advances
<1>2. \A n \in Turn : turn'[n].phase \in {"unsent", "said"} => turn[n].phase \in {"unsent", "said"}
  BY DEF Advances
<1>3. Turn \subseteq Nat
  BY TurnIs
<1>4. Unsent' \subseteq Unsent
  BY <1>1 DEF Unsent
<1>5. Untold' \subseteq Untold
  BY <1>2 DEF Untold
<1> QED BY <1>3, <1>4, <1>5 DEF Unsent, Untold, UserTexts

\* A row is added to the table.
LEMMA HostGrows ==
  ASSUME HostTable(host), NEW t \in Turn, NEW role \in {"user", "assistant"},
         NEW text, IsSequence(text), NEW acted, host' = Append(host, Row(t, role, text, acted))
  PROVE  /\ HostTable(host') /\ Len(host) \in Nat
         /\ DOMAIN host = 1..Len(host) /\ DOMAIN host' = 1..(Len(host) + 1)
         /\ \A i \in DOMAIN host : host'[i] = host[i]
         /\ host'[Len(host) + 1].text = text /\ host'[Len(host) + 1].role = role
<1> DEFINE row == Row(t, role, text, acted)
<1>1. /\ Len(host) \in Nat /\ DOMAIN host = 1..Len(host) /\ IsSequence(host)
  BY SequenceIs DEF HostTable
<1>2. row.turn = t /\ row.role = role /\ row.text = text
  BY DEF Row
<1> HIDE DEF row
<1>3. IsSequence(host')
  BY <1>1, Longer
<1>4. /\ Len(host') = Len(host) + 1 /\ host'[Len(host) + 1] = row
      /\ \A i \in 1..Len(host) : host'[i] = host[i]
  BY <1>1 DEF IsSequence, row
<1>5. DOMAIN host' = 1..(Len(host) + 1)
  BY <1>3, <1>4, SequenceIs
<1>6. \A i \in DOMAIN host' : i \in DOMAIN host \/ i = Len(host) + 1
  BY <1>1, <1>5
<1> QED BY <1>1, <1>2, <1>3, <1>4, <1>5, <1>6 DEF HostTable

\* A table that only grows by a text that is not a message to come.
LEMMA RowsGrow ==
  ASSUME HostRows, Advances, NEW t \in Turn, NEW role \in {"user", "assistant"},
         NEW text, IsSequence(text), text \notin Unsent', NEW acted,
         host' = Append(host, Row(t, role, text, acted)),
         role = "user" \/ turn[t].phase # "unsent"
  PROVE  HostRows'
<1>1. HostTable(host)
  BY DEF HostRows
<1>2. /\ HostTable(host') /\ Len(host) \in Nat
      /\ DOMAIN host = 1..Len(host) /\ DOMAIN host' = 1..(Len(host) + 1)
      /\ \A i \in DOMAIN host : host'[i] = host[i]
      /\ host'[Len(host) + 1].text = text /\ host'[Len(host) + 1].role = role
  BY <1>1, HostGrows
<1>3. \A i \in DOMAIN host' : i \in DOMAIN host \/ i = Len(host) + 1
  BY <1>2
<1>4. Unsent' \subseteq Unsent
  BY TextsShrink
<1>5. \A i \in DOMAIN host' : host'[i].text \notin Unsent'
  BY <1>2, <1>3, <1>4 DEF HostRows
<1>6. \E i \in DOMAIN host' : host'[i].role = "user"
  <2>1. CASE role = "user"
    <3>1. Len(host) + 1 \in DOMAIN host'
      BY <1>2
    <3> QED BY <1>2, <2>1, <3>1
  <2>2. CASE turn[t].phase # "unsent"
    <3>1. PICK i \in DOMAIN host : host[i].role = "user"
      BY <2>2 DEF HostRows
    <3>2. i \in DOMAIN host'
      BY <1>2
    <3> QED BY <1>2, <3>1, <3>2
  <2> QED BY <2>1, <2>2
<1> QED BY <1>2, <1>5, <1>6 DEF HostRows, HostTable

\* A table that stays, in a turn that was sent.
LEMMA RowsStay ==
  ASSUME HostRows, Advances, UNCHANGED host,
         (\E t \in Turn : turn[t].phase # "unsent") \/ UNCHANGED turn
  PROVE  HostRows'
<1>1. Unsent' \subseteq Unsent
  BY TextsShrink
<1>2. HostTable(host') /\ \A i \in DOMAIN host' : host'[i].text \notin Unsent'
  BY <1>1 DEF HostRows
<1>3. (\E t \in Turn : turn'[t].phase # "unsent") => \E i \in DOMAIN host' : host'[i].role = "user"
  BY DEF HostRows
<1> QED BY <1>2, <1>3 DEF HostRows, HostTable

\* What was streamed is no user message.
LEMMA SaidIsNot ==
  ASSUME NEW said \in SaidTexts
  PROVE  IsSequence(said) /\ said \notin UserTexts
<1>1. IsSequence(said)
  <2> DEFINE S == [by : {"says", "reply", "part"}, n : Nat, of : {<<>>}]
  <2>1. said \in Seq(S)
    BY DEF SaidTexts
  <2> HIDE DEF S
  <2> DEFINE l == Len(said)
  <2>2. l \in Nat /\ said \in [1..l -> S]
    BY <2>1, LenProperties
  <2> HIDE DEF l
  <2>3. said = [i \in 1..l |-> said[i]]
    BY <2>2
  <2> QED BY <2>2, <2>3, IsASequence
<1>2. ASSUME NEW m \in Nat, said = <<Piece("user", m)>> PROVE FALSE
  <2>1. Len(said) = 1 /\ said[1] = Piece("user", m)
    BY <1>2
  <2>2. said[1] \in [by : {"says", "reply", "part"}, n : Nat, of : {<<>>}]
    <3> DEFINE S == [by : {"says", "reply", "part"}, n : Nat, of : {<<>>}]
    <3>1. said \in Seq(S) /\ 1 \in 1..Len(said)
      BY <2>1 DEF SaidTexts
    <3> HIDE DEF S
    <3>2. said[1] \in S
      BY <3>1, ElementOfSeq
    <3> QED BY <3>2 DEF S
  <2> QED BY <2>1, <2>2 DEF Piece
<1> QED BY <1>1, <1>2 DEF UserTexts

\* Rows are taken away: the prompt of the reply stays.
LEMMA RegenerateRows ==
  ASSUME HostRows, Advances, NEW t \in Turn, NEW i \in DOMAIN host, Regenerate(t, i)
  PROVE  HostRows'
<1>1. HostTable(host) /\ IsSequence(host) /\ Len(host) \in Nat /\ DOMAIN host = 1..Len(host)
  BY SequenceIs DEF HostRows, HostTable
<1>2. host' = SubSeq(host, 1, i - 1) /\ ForkOrdinal(i) >= 0
  BY DEF Regenerate
<1>3. 1 \in Nat \ {0} /\ i - 1 \in 0..Len(host) /\ i - 1 \in Nat
  BY <1>1
<1>4. /\ IsSequence(host') /\ \A j \in DOMAIN host' : j \in DOMAIN host /\ host'[j] = host[j]
  <2>1. /\ IsSequence(host')
        /\ \A j \in DOMAIN host' : 1 + j - 1 \in DOMAIN host /\ host'[j] = host[1 + j - 1]
    BY <1>1, <1>2, <1>3, CutDomain
  <2>2. DOMAIN host' = 1..Len(host') /\ Len(host') \in Nat
    BY <2>1, SequenceIs
  <2>3. \A j \in DOMAIN host' : 1 + j - 1 = j
    BY <2>2
  <2> QED BY <2>1, <2>3
<1>5. DOMAIN host' = 1..(i - 1)
  <2>1. Len(host') = i - 1
    BY <1>1, <1>2, <1>3, Cut
  <2> QED BY <1>4, <2>1, SequenceIs
<1>6. \E j \in DOMAIN host' : host'[j].role = "user"
  <2> DEFINE U == {j \in 1..(i - 1) : host[j].role = "user"}
  <2>1. U # {}
    <3>1. ForkOrdinal(i) = Cardinality(U) - 1
      BY DEF ForkOrdinal
    <3> HIDE DEF U
    <3>2. U = {} => Cardinality(U) = 0
      BY FS_EmptySet
    <3> QED BY <1>2, <3>1, <3>2
  <2> QED BY <1>4, <1>5, <2>1
<1>7. Unsent' \subseteq Unsent
  BY TextsShrink
<1>8. \A j \in DOMAIN host' : host'[j].text \notin Unsent'
  BY <1>4, <1>7 DEF HostRows
<1> QED BY <1>1, <1>4, <1>6, <1>8 DEF HostRows, HostTable

\* Every step keeps what is said of the table.
LEMMA HostRowsStep ==
  ASSUME Turns, Advances, HostRows, [HistoryNext]_historyVars
  PROVE  HostRows'
<1>0. Unsent' \subseteq UserTexts
  BY TextsShrink
<1>1. ASSUME NEW t \in Turn, Say(t) PROVE HostRows'
  <2> DEFINE text == <<Piece("user", t)>>
  <2>1. host' = Append(host, Row(t, "user", text, FALSE)) /\ IsSequence(text)
    BY <1>1, Single DEF Say
  <2>2. text \notin Unsent'
    <3>1. turn'[t].phase = "said"
      BY <1>1 DEF Say, Begin, Turns, TurnRecord
    <3>2. ASSUME NEW m, <<Piece("user", m)>> = text PROVE m = t
      <4>1. <<Piece("user", m)>>[1] = Piece("user", m) /\ text[1] = Piece("user", t)
        OBVIOUS
      <4>2. Piece("user", m).n = m /\ Piece("user", t).n = t
        BY DEF Piece
      <4> QED BY <3>2, <4>1, <4>2
    <3> QED BY <3>1, <3>2 DEF Unsent
  <2> HIDE DEF text
  <2> QED BY <2>1, <2>2, RowsGrow
<1>2. ASSUME NEW t \in Turn, StoreReply(t) PROVE HostRows'
  <2>1. /\ host' = Append(host, Row(t, "assistant", turn[t].said, turn[t].acted))
        /\ turn[t].phase # "unsent"
    BY <1>2 DEF StoreReply
  <2>2. turn[t].said \in SaidTexts
    BY DEF Turns, TurnRecord
  <2>3. IsSequence(turn[t].said) /\ turn[t].said \notin Unsent'
    BY <1>0, <2>2, SaidIsNot
  <2> QED BY <2>1, <2>3, RowsGrow
<1>3. CASE Steer
  <2> DEFINE text == <<Piece("steer", mishaps)>>
  <2>1. host' = Append(host, Row(run.turn, "user", text, FALSE)) /\ run # NoWork
    BY <1>3 DEF Steer
  <2>2. run.turn \in Turn
    BY <2>1 DEF Turns, RunsTurn
  <2>3. IsSequence(text) /\ text \notin Unsent'
    BY <1>0, Single, None, PieceIsNot
  <2> HIDE DEF text
  <2> QED BY <2>1, <2>2, <2>3, RowsGrow
<1>4. ASSUME NEW t \in Turn, NEW i \in DOMAIN host, Regenerate(t, i) PROVE HostRows'
  BY <1>4, RegenerateRows
<1>5. ASSUME NEW t \in Turn, Resume(t) PROVE HostRows'
  <2>1. host # <<>> /\ Last(host).role # "assistant" /\ UNCHANGED host
    BY <1>5 DEF Resume, Interrupted
  <2>2. /\ IsSequence(host) /\ Len(host) \in Nat /\ DOMAIN host = 1..Len(host)
        /\ \A i \in DOMAIN host : host[i].role \in {"user", "assistant"}
    BY SequenceIs DEF HostRows, HostTable
  <2>3. Len(host) \in DOMAIN host
    BY <2>1, <2>2 DEF IsSequence
  <2>4. host[Len(host)].role = "user"
    BY <2>1, <2>2, <2>3 DEF Last
  <2>5. Unsent' \subseteq Unsent
    BY TextsShrink
  <2>6. HostTable(host') /\ \A j \in DOMAIN host' : host'[j].text \notin Unsent'
    BY <2>1, <2>5 DEF HostRows
  <2>7. \E j \in DOMAIN host' : host'[j].role = "user"
    BY <2>1, <2>3, <2>4
  <2> QED BY <2>6, <2>7 DEF HostRows, HostTable
<1>6. ASSUME NEW t \in Turn, Open(t) \/ ClearTurnActive(t) PROVE HostRows'
  <2>1. UNCHANGED host /\ turn[t].phase # "unsent"
    BY <1>6 DEF Open, ClearTurnActive
  <2> QED BY <2>1, RowsStay
<1>7. ASSUME UNCHANGED host, run # NoWork PROVE HostRows'
  <2>1. run.turn \in Turn /\ turn[run.turn].phase # "unsent"
    BY <1>7 DEF Turns, RunsTurn
  <2> QED BY <1>7, <2>1, RowsStay
<1>8. ASSUME NEW cut \in 0..Len(run.items), Request(cut) PROVE HostRows'
  <2>1. UNCHANGED host /\ run.step = "gather"
    BY <1>8 DEF Request
  <2> QED BY <1>7, <2>1 DEF NoWork
<1>9. CASE Round \/ Reply \/ Continue \/ Fail \/ CancelHard
  <2>1. UNCHANGED host /\ (run.step \in {"gather", "asked"} \/ run # NoWork)
    BY <1>9 DEF Round, Reply, Continue, Fail, CancelHard
  <2> QED BY <1>7, <2>1 DEF NoWork
<1>10. CASE Crash
  <2>1. UNCHANGED host /\ \E t \in Turn : turn[t].phase # "unsent"
    BY <1>10 DEF Crash
  <2> QED BY <2>1, RowsStay
<1>11. CASE LateFlush \/ UNCHANGED historyVars
  <2>1. UNCHANGED <<host, turn>>
    BY <1>11 DEF LateFlush, historyVars
  <2> QED BY <2>1, RowsStay
<1> QED BY <1>1, <1>2, <1>3, <1>4, <1>5, <1>6, <1>8, <1>9, <1>10, <1>11 DEF HistoryNext

-----------------------------------------------------------------------------
(* What the sidecar has not heard.                                         *)

\* A run that has none of the texts B, and whose waiting rows are numbered
\* below its next.
RunWithout(r, B) ==
  /\ r.step \in {"gather", "asked"} /\ r.next \in Nat
  /\ Without(r.items, B) /\ RowsWithout(r.pending, B) /\ Spans(r.pending, 0, r.next)

\* Nowhere on the sidecar's side is one of the texts B.
Unheard(rec, held, box, r, B) ==
  /\ Ordered(rec) /\ RowsWithout(rec, B)
  /\ Ordered(held) /\ RowsWithout(held, B)
  /\ Without(box, B)
  /\ r # NoWork => RunWithout(r, B)

\* It has none of fewer texts.
LEMMA UnheardFewer ==
  ASSUME NEW rec, NEW held, NEW box, NEW r, NEW B, NEW C, C \subseteq B,
         Unheard(rec, held, box, r, B)
  PROVE  Unheard(rec, held, box, r, C)
<1> C \in SUBSET B
  OBVIOUS
<1> QED BY WithoutFewer, RowsFewer DEF Unheard, RunWithout

\* Nothing has none of them.
LEMMA NothingHeard ==
  ASSUME NEW B
  PROVE  Ordered(<<>>) /\ RowsWithout(<<>>, B) /\ Without(<<>>, B)
<1>1. Ordered(<<>>)
  BY NoneSpans DEF Spans
<1> QED BY <1>1, RowsNone, WithoutNone

\* Numbers from n on are numbers from 0 on.
LEMMA LowSpans ==
  ASSUME NEW e, NEW n \in Nat, NEW m \in Nat, Spans(e, n, m)
  PROVE  Spans(e, 0, m)
<1>1. \A i \in DOMAIN e : e[i].seq \in Nat
  BY DEF Spans, Ordered
<1> QED BY <1>1 DEF Spans

\* The run that a plan starts.
LEMMA StartsWithout ==
  ASSUME NEW B, NEW rec, Ordered(rec), RowsWithout(rec, B),
         NEW messages, Without(messages, B), NEW t, NEW sent
  PROVE  LET plan == PlanSeeding(rec, messages)
         IN  /\ Ordered(rec \o plan.boundary) /\ RowsWithout(rec \o plan.boundary, B)
             /\ RunWithout(StartedRun(t, sent, plan), B)
<1> DEFINE plan == PlanSeeding(rec, messages)
           r == StartedRun(t, sent, plan)
           e == Numbered(plan.first, plan.items)
<1>1. Planned(rec, plan)
  BY PlansWell DEF Without
<1>2. Without(plan.items, B) /\ RowsWithout(plan.boundary, B)
  BY PlansWithout
<1> HIDE DEF plan
<1>3. Kept(rec \o plan.boundary, r)
  BY <1>1, RunStarts
<1>4. Ordered(rec \o plan.boundary) /\ RowsWithout(rec \o plan.boundary, B)
  BY <1>2, <1>3, RowsJoined DEF Kept, Spans
<1>5. /\ IsSequence(plan.items) /\ Len(plan.items) \in Nat /\ plan.first \in Nat
      /\ plan.durable \in 0..Len(plan.items)
  BY <1>1, SequenceIs DEF Planned
<1>6. r.step = "gather" /\ r.items = plan.items /\ r.pending = SubSeq(e, plan.durable + 1, Len(e))
  BY DEF StartedRun
<1>7. RowsWithout(r.pending, B)
  <2>1. RowsWithout(e, B) /\ Len(e) = Len(plan.items)
    BY <1>2, <1>5, RowsNumbered, NumberedIs
  <2>2. plan.durable + 1 \in Nat \ {0} /\ Len(e) \in 0..Len(e)
    BY <1>5, <2>1
  <2> HIDE DEF e
  <2> QED BY <1>6, <2>1, <2>2, RowsCut
<1> HIDE DEF r, e
<1>8. Spans(r.pending, 0, r.next) /\ r.next \in Nat
  <2> DEFINE n == r.next - Len(r.pending)
             y == SubSeq(r.items, Durable(r) + 1, Len(r.items))
  <2>1. /\ r.pending = Numbered(n, y) /\ n \in Nat /\ r.next \in Nat
        /\ IsSequence(r.pending) /\ IsSequence(r.items) /\ Durable(r) \in Nat
    BY <1>3 DEF Kept
  <2>2. IsSequence(y)
    <3>1. Durable(r) + 1 \in Nat \ {0} /\ Len(r.items) \in 0..Len(r.items)
      BY <2>1, SequenceIs
    <3> QED BY <2>1, <3>1, Cut
  <2>3. Len(r.pending) \in Nat
    BY <2>1, SequenceIs
  <2>4. n + Len(r.pending) = r.next
    BY <2>1, <2>3
  <2> HIDE DEF n, y
  <2>5. Len(y) = Len(r.pending)
    BY <2>1, <2>2, NumberedIs
  <2>6. Spans(r.pending, n, r.next)
    BY <2>1, <2>2, <2>4, <2>5, NumberedSpans
  <2> QED BY <2>1, <2>6, LowSpans
<1>9. RunWithout(r, B)
  BY <1>2, <1>6, <1>7, <1>8 DEF RunWithout
<1> QED BY <1>4, <1>9 DEF plan, r

\* What a flush stores.
LEMMA BatchWithout ==
  ASSUME NEW B, NEW r, RunWithout(r, B), NEW w, Without(w, B)
  PROVE  /\ RowsWithout(Batch(r, w), B) /\ After(r, w) \in Nat
         /\ Spans(Batch(r, w), 0, After(r, w))
<1> DEFINE n == r.next
           m == After(r, w)
           q == Numbered(n, w)
<1>1. n \in Nat /\ IsSequence(w) /\ Len(w) \in Nat /\ m = n + Len(w)
  BY SequenceIs DEF RunWithout, Without, After
<1>2. RowsWithout(q, B) /\ Spans(q, n, m)
  <2> HIDE DEF n
  <2> QED BY <1>1, RowsNumbered, NumberedSpans
<1>3. m \in Nat /\ n <= m /\ 0 \in Nat /\ 0 <= n
  BY <1>1
<1>4. Spans(r.pending, 0, n) /\ RowsWithout(r.pending, B)
  BY DEF RunWithout
<1> HIDE DEF q, m, n
<1>5. Spans(r.pending \o q, 0, m) /\ RowsWithout(r.pending \o q, B)
  BY <1>1, <1>2, <1>3, <1>4, SpansJoined, RowsJoined
<1> QED BY <1>3, <1>5 DEF Batch, q, m, n

\* One lemma for each step that moves messages: a run starts,
LEMMA OpenUnheard ==
  ASSUME NEW B \in SUBSET UserTexts, Unheard(record, unwound, inbox, run, B),
         HostTable(host), \E i \in DOMAIN host : host[i].role = "user",
         \A i \in DOMAIN host : host[i].text \notin B, NEW t \in Turn, Open(t)
  PROVE  Unheard(record', unwound', inbox', run', B)
<1>0. run = NoWork /\ UNCHANGED <<unwound, inbox>>
  BY DEF Open
<1>1. PICK v \in {system, system + 1}, extra \in {<<>>, <<Piece("extra", t)>>} :
        LET messages == SeedMessages(t, v, extra)
            plan == PlanSeeding(record, messages)
        IN  \/ UNCHANGED <<record, run>>
            \/ /\ record' = record \o plan.boundary
               /\ run' = StartedRun(t, messages, plan)
  BY DEF Open
<1>2. CASE UNCHANGED <<record, run>>
  BY <1>0, <1>2
<1>3. ASSUME ~ UNCHANGED <<record, run>> PROVE Unheard(record', unwound', inbox', run', B)
  <2> DEFINE messages == SeedMessages(t, v, extra)
  <2>1. Without(messages, B)
    BY MessagesWithout DEF Unheard
  <2>2. /\ record' = record \o PlanSeeding(record, messages).boundary
        /\ run' = StartedRun(t, messages, PlanSeeding(record, messages))
    BY <1>1, <1>3
  <2> HIDE DEF messages
  <2>3. Ordered(record') /\ RowsWithout(record', B) /\ RunWithout(run', B)
    BY <2>1, <2>2, StartsWithout DEF Unheard
  <2> QED BY <1>0, <2>3 DEF Unheard
<1> QED BY <1>2, <1>3

\* or is started again at a budget wall.
LEMMA ContinueUnheard ==
  ASSUME NEW B, Unheard(record, unwound, inbox, run, B), Continue
  PROVE  Unheard(record', unwound', inbox', run', B)
<1> DEFINE messages == Bares(LoadItems(record))
           plan == PlanSeeding(record, messages)
           started == StartedRun(run.turn, messages, plan)
<1>0. /\ UNCHANGED unwound /\ inbox' = <<>>
      /\ record' = record \o plan.boundary /\ run' = [started EXCEPT !.sent = run.sent]
  BY DEF Continue
<1>1. Without(messages, B)
  BY LoadedWithout, WithoutBares DEF Unheard
<1> HIDE DEF messages
<1>2. Ordered(record') /\ RowsWithout(record', B) /\ RunWithout(started, B)
  BY <1>0, <1>1, StartsWithout DEF Unheard
<1>3. /\ run'.items = started.items /\ run'.pending = started.pending
      /\ run'.next = started.next /\ run'.step = started.step
  BY <1>0 DEF StartedRun
<1> HIDE DEF started
<1>4. RunWithout(run', B)
  BY <1>2, <1>3 DEF RunWithout
<1> QED BY <1>0, <1>2, <1>4, NothingHeard DEF Unheard

\* The run is over, and what it flushed is in the record.
LEMMA EndUnheard ==
  ASSUME NEW B, Unheard(record, unwound, inbox, run, B), run' = NoWork, inbox' = <<>>,
         \/ UNCHANGED record
         \/ \E batch : Ordered(batch) /\ RowsWithout(batch, B) /\ record' = Appended(record, batch),
         Ordered(unwound') /\ RowsWithout(unwound', B)
  PROVE  Unheard(record', unwound', inbox', run', B)
<1>1. Ordered(record') /\ RowsWithout(record', B)
  BY AppendedIs DEF Unheard
<1> QED BY <1>1, NothingHeard DEF Unheard

\* A message of the loop's own.
LEMMA OwnWithout ==
  ASSUME NEW B \in SUBSET UserTexts, NEW kind, NEW by, by # "user", NEW n, NEW first \in Nat
  PROVE  LET item == Item(kind, <<Piece(by, n)>>)
         IN  /\ Without(<<item>>, B) /\ IsSequence(<<item>>) /\ item.text \notin B
             /\ RowsWithout(Numbered(first, <<item>>), B) /\ Ordered(Numbered(first, <<item>>))
<1> DEFINE item == Item(kind, <<Piece(by, n)>>)
<1>1. item.text \notin B
  BY None, PieceIsNot DEF Item
<1> HIDE DEF item
<1>2. Without(<<item>>, B) /\ IsSequence(<<item>>)
  BY <1>1, WithoutOne, Single
<1>3. RowsWithout(Numbered(first, <<item>>), B) /\ Ordered(Numbered(first, <<item>>))
  BY <1>2, RowsNumbered, NumberedSpans DEF Spans
<1> QED BY <1>1, <1>2, <1>3 DEF item

\* One message more.
LEMMA LongerWithout ==
  ASSUME NEW B, NEW s, Without(s, B), NEW item, item.text \notin B
  PROVE  Without(Append(s, item), B)
<1>1. IsSequence(s) /\ Append(s, item) = s \o <<item>>
  BY AppendJoins DEF Without
<1> QED BY <1>1, WithoutOne, WithoutJoined

\* A steer waits,
LEMMA SteerUnheard ==
  ASSUME NEW B \in SUBSET UserTexts, Unheard(record, unwound, inbox, run, B), Steer
  PROVE  Unheard(record', unwound', inbox', run', B)
<1> DEFINE item == Item("steer", <<Piece("steer", mishaps)>>)
<1>1. UNCHANGED <<record, run, unwound>> /\ inbox' = Append(inbox, item)
  BY DEF Steer
<1>2. item.text \notin B
  BY OwnWithout
<1> HIDE DEF item
<1>3. Without(inbox', B)
  BY <1>1, <1>2, LongerWithout DEF Unheard
<1> QED BY <1>1, <1>3 DEF Unheard

\* and is flushed with what waits before a request, which may compact.
LEMMA RequestUnheard ==
  ASSUME NEW B \in SUBSET UserTexts, Unheard(record, unwound, inbox, run, B),
         DOMAIN run = DOMAIN NoWork, NEW cut \in 0..Len(run.items), Request(cut)
  PROVE  Unheard(record', unwound', inbox', run', B)
<1> DEFINE grown == run.items \o Bares(inbox)
           restated == Restated(grown, cut)
           boundary == Boundary(run.next + Len(inbox), "compact", Len(restated))
           rewrite == Rewrite(boundary, restated)
           batch == Batch(run, inbox)
<1>0. run.step = "gather" /\ UNCHANGED unwound
  BY DEF Request
<1>1. RunWithout(run, B) /\ run # NoWork
  <2>1. run # NoWork
    BY <1>0 DEF NoWork
  <2> QED BY <2>1 DEF Unheard
<1>2. /\ Without(inbox, B) /\ Ordered(record) /\ RowsWithout(record, B)
      /\ Ordered(unwound') /\ RowsWithout(unwound', B)
      /\ Without(run.items, B) /\ run.next \in Nat /\ Len(inbox) \in Nat
  BY <1>0, <1>1, SequenceIs DEF Unheard, RunWithout, Without
<1>3. Without(grown, B)
  BY <1>2, WithoutBares, WithoutJoined
<1>4. /\ RowsWithout(batch, B) /\ After(run, inbox) \in Nat
      /\ Spans(batch, 0, After(run, inbox)) /\ Ordered(batch)
  BY <1>1, <1>2, BatchWithout DEF Spans
<1>5. ASSUME cut \in (HeadEnd(grown) + 1)..(Len(grown) - 1)
      PROVE  /\ Without(restated, B) /\ RowsWithout(batch \o rewrite, B) /\ Ordered(batch \o rewrite)
             /\ Len(rewrite) \in Nat
  <2>1. Without(restated, B)
    <3> HIDE DEF grown
    <3> QED BY <1>3, <1>5, RestatedWithout
  <2>2. /\ boundary.seq = After(run, inbox) /\ boundary.seq \in Nat
        /\ boundary.type = "boundary" /\ boundary.items = <<>>
    BY <1>4 DEF Boundary, After
  <2> HIDE DEF restated, boundary, batch
  <2>3. RowsWithout(rewrite, B)
    BY <2>1, <2>2, RewriteWithout
  <2>4. /\ Spans(rewrite, After(run, inbox), AfterRewrite(After(run, inbox), restated))
        /\ Len(rewrite) = 1 + Len(restated) /\ Len(restated) \in Nat
    BY <1>4, <2>1, <2>2, RewriteSpans, SequenceIs DEF Without
  <2> DEFINE m == After(run, inbox)
             k == AfterRewrite(m, restated)
  <2>5. 0 \in Nat /\ m \in Nat /\ k \in Nat /\ 0 <= m /\ m <= k
    BY <1>4, <2>4 DEF AfterRewrite
  <2>6. Spans(batch, 0, m) /\ Spans(rewrite, m, k)
    BY <1>4, <2>4
  <2> HIDE DEF m, k, rewrite
  <2>7. Spans(batch \o rewrite, 0, k)
    BY <2>5, <2>6, SpansJoined
  <2>8. RowsWithout(batch \o rewrite, B)
    BY <1>4, <2>3, RowsJoined
  <2>9. Len(rewrite) \in Nat
    BY <2>4
  <2> QED BY <2>1, <2>7, <2>8, <2>9 DEF Spans
<1>6. \/ /\ record' = Appended(record, batch)
         /\ \/ EndRun(Said, Acted)
            \/ /\ run' = [run EXCEPT !.step = "asked", !.items = grown, !.pending = <<>>,
                                     !.next = @ + Len(inbox)]
               /\ inbox' = <<>>
      \/ /\ cut \in (HeadEnd(grown) + 1)..(Len(grown) - 1)
         /\ record' = Appended(record, batch \o rewrite)
         /\ \/ EndRun(Said, Acted)
            \/ /\ run' = [run EXCEPT !.step = "asked", !.items = restated, !.pending = <<>>,
                                     !.next = @ + Len(inbox) + Len(rewrite)]
               /\ inbox' = <<>>
  BY DEF Request, Flush, Batch, Rewrite
<1> HIDE DEF batch, rewrite, restated, grown
<1>7. PICK rows, items, more :
        /\ more \in Nat /\ Ordered(rows) /\ RowsWithout(rows, B) /\ Without(items, B)
        /\ record' = Appended(record, rows)
        /\ \/ EndRun(Said, Acted)
           \/ /\ run' = [run EXCEPT !.step = "asked", !.items = items, !.pending = <<>>,
                                    !.next = @ + more]
              /\ inbox' = <<>>
  <2>1. CASE /\ record' = Appended(record, batch)
             /\ \/ EndRun(Said, Acted)
                \/ /\ run' = [run EXCEPT !.step = "asked", !.items = grown, !.pending = <<>>,
                                         !.next = @ + Len(inbox)]
                   /\ inbox' = <<>>
    BY <1>2, <1>3, <1>4, <2>1
  <2>2. CASE /\ cut \in (HeadEnd(grown) + 1)..(Len(grown) - 1)
             /\ record' = Appended(record, batch \o rewrite)
             /\ \/ EndRun(Said, Acted)
                \/ /\ run' = [run EXCEPT !.step = "asked", !.items = restated, !.pending = <<>>,
                                         !.next = @ + Len(inbox) + Len(rewrite)]
                   /\ inbox' = <<>>
    <3> DEFINE more == Len(inbox) + Len(rewrite)
    <3>1. more \in Nat /\ run.next + Len(inbox) + Len(rewrite) = run.next + more
      BY <1>2, <1>5, <2>2
    <3> HIDE DEF more
    <3> QED BY <1>5, <2>2, <3>1
  <2> QED BY <1>6, <2>1, <2>2
<1>8. CASE EndRun(Said, Acted)
  <2>1. run' = NoWork /\ inbox' = <<>>
    BY <1>8 DEF EndRun
  <2> QED BY <1>2, <1>7, <2>1, EndUnheard
<1>9. CASE /\ run' = [run EXCEPT !.step = "asked", !.items = items, !.pending = <<>>,
                                 !.next = @ + more]
           /\ inbox' = <<>>
  <2>1. Ordered(record') /\ RowsWithout(record', B)
    BY <1>2, <1>7, AppendedIs
  <2>2. {"step", "items", "pending", "next"} \subseteq DOMAIN run
    BY DEF NoWork
  <2>3. /\ run'.step = "asked" /\ run'.items = items /\ run'.pending = <<>>
        /\ run'.next = run.next + more
    BY <1>9, <2>2
  <2>4. run'.next \in Nat
    BY <1>2, <1>7, <2>3
  <2>5. Spans(run'.pending, 0, run'.next) /\ RowsWithout(run'.pending, B)
    BY <2>3, <2>4, NoneSpans, RowsNone
  <2>6. RunWithout(run', B)
    BY <1>7, <2>3, <2>4, <2>5 DEF RunWithout
  <2> QED BY <1>2, <1>9, <2>1, <2>6, NothingHeard DEF Unheard
<1> QED BY <1>7, <1>8, <1>9

\* A tool round is stored.
LEMMA RoundUnheard ==
  ASSUME NEW B \in SUBSET UserTexts, Unheard(record, unwound, inbox, run, B),
         DOMAIN run = DOMAIN NoWork, Round
  PROVE  Unheard(record', unwound', inbox', run', B)
<1> DEFINE item == Item("round", <<Piece("round", run.turn)>>)
           batch == Numbered(run.next, <<item>>)
<1>0. run.step = "asked" /\ UNCHANGED unwound
  BY DEF Round
<1>1. RunWithout(run, B) /\ run # NoWork
  <2>1. run # NoWork
    BY <1>0 DEF NoWork
  <2> QED BY <2>1 DEF Unheard
<1>2. /\ item.text \notin B /\ RowsWithout(batch, B) /\ Ordered(batch)
  BY <1>1, OwnWithout DEF RunWithout
<1>3. /\ record' = Appended(record, batch)
      /\ \/ \E says : EndRun(Said \o says, TRUE)
         \/ /\ run' = [run EXCEPT !.step = "gather", !.items = Append(@, item),
                                  !.next = @ + 1, !.rounds = @ + 1]
            /\ UNCHANGED inbox
  BY DEF Round
<1> HIDE DEF item, batch
<1>4. CASE \E says : EndRun(Said \o says, TRUE)
  <2>1. run' = NoWork /\ inbox' = <<>>
    BY <1>4 DEF EndRun
  <2>2. Ordered(unwound') /\ RowsWithout(unwound', B)
    BY <1>0 DEF Unheard
  <2> QED BY <1>2, <1>3, <2>1, <2>2, EndUnheard
<1>5. CASE /\ run' = [run EXCEPT !.step = "gather", !.items = Append(@, item),
                                 !.next = @ + 1, !.rounds = @ + 1]
           /\ UNCHANGED inbox
  <2>1. Ordered(record') /\ RowsWithout(record', B)
    BY <1>2, <1>3, AppendedIs DEF Unheard
  <2>2. {"step", "items", "pending", "next", "rounds"} \subseteq DOMAIN run
    BY DEF NoWork
  <2>3. /\ run'.step = "gather" /\ run'.items = Append(run.items, item)
        /\ run'.pending = run.pending /\ run'.next = run.next + 1
    BY <1>5, <2>2
  <2>4. Without(run'.items, B)
    BY <1>1, <1>2, <2>3, LongerWithout DEF RunWithout
  <2>5. /\ run.next \in Nat /\ run'.next \in Nat /\ run.next <= run'.next /\ 0 \in Nat
        /\ Spans(run.pending, 0, run.next) /\ RowsWithout(run.pending, B)
    BY <1>1, <2>3 DEF RunWithout
  <2>6. Spans(run'.pending, 0, run'.next)
    BY <2>3, <2>5, SpansWider
  <2>7. RunWithout(run', B)
    BY <2>3, <2>4, <2>5, <2>6 DEF RunWithout
  <2> QED BY <1>0, <1>5, <2>1, <2>7 DEF Unheard
<1> QED BY <1>3, <1>4, <1>5

\* The run ends, or what a cancelled one still held is stored.
LEMMA EndingUnheard ==
  ASSUME NEW B \in SUBSET UserTexts, Unheard(record, unwound, inbox, run, B),
         Reply \/ Fail \/ Crash \/ LateFlush
  PROVE  Unheard(record', unwound', inbox', run', B)
<1>0. Ordered(unwound) /\ RowsWithout(unwound, B)
  BY DEF Unheard
<1>1. CASE Reply
  <2> DEFINE item == Item("assistant", <<Piece("reply", run.turn)>>)
             batch == Numbered(run.next, <<item>>)
  <2>1. /\ run.step = "asked" /\ UNCHANGED unwound
        /\ record' = Appended(record, batch) /\ run' = NoWork /\ inbox' = <<>>
    BY <1>1 DEF Reply, EndRun
  <2>2. run.next \in Nat
    BY <2>1 DEF Unheard, RunWithout, NoWork
  <2>3. RowsWithout(batch, B) /\ Ordered(batch)
    BY <2>2, OwnWithout
  <2> HIDE DEF batch
  <2> QED BY <1>0, <2>1, <2>3, EndUnheard
<1>2. CASE Fail \/ Crash
  <2>1. /\ run' = NoWork /\ inbox' = <<>> /\ UNCHANGED record
        /\ unwound' = unwound \/ unwound' = <<>>
    BY <1>2 DEF Fail, Crash, EndRun
  <2>2. Ordered(unwound') /\ RowsWithout(unwound', B)
    BY <1>0, <2>1, NothingHeard
  <2> QED BY <2>1, <2>2, EndUnheard
<1>3. CASE LateFlush
  <2>1. record' = Appended(record, unwound) /\ unwound' = <<>> /\ UNCHANGED <<run, inbox>>
    BY <1>3 DEF LateFlush
  <2>2. Ordered(record') /\ RowsWithout(record', B)
    BY <1>0, <2>1, AppendedIs DEF Unheard
  <2> QED BY <2>1, <2>2, NothingHeard DEF Unheard
<1> QED BY <1>1, <1>2, <1>3

\* It is cancelled, and holds a batch.
LEMMA CancelUnheard ==
  ASSUME NEW B \in SUBSET UserTexts, Unheard(record, unwound, inbox, run, B), CancelHard
  PROVE  Unheard(record', unwound', inbox', run', B)
<1> DEFINE item == Item("round", <<Piece("round", run.turn)>>)
           batch == Numbered(run.next, <<item>>)
<1>1. /\ run # NoWork /\ run' = NoWork /\ inbox' = <<>> /\ UNCHANGED record
      /\ unwound' = run.pending \/ unwound' = batch
  BY DEF CancelHard, EndRun
<1>2. run.next \in Nat /\ Ordered(run.pending) /\ RowsWithout(run.pending, B)
  BY <1>1 DEF Unheard, RunWithout, Spans
<1>3. RowsWithout(batch, B) /\ Ordered(batch)
  BY <1>2, OwnWithout
<1> HIDE DEF batch
<1> QED BY <1>1, <1>2, <1>3, EndUnheard

\* The record is forked.
LEMMA RegenerateUnheard ==
  ASSUME NEW B, Unheard(record, unwound, inbox, run, B),
         NEW t \in Turn, NEW i \in DOMAIN host, Regenerate(t, i)
  PROVE  Unheard(record', unwound', inbox', run', B)
<1>1. UNCHANGED <<run, inbox>>
  BY DEF Regenerate
<1>2. CASE UNCHANGED <<record, unwound>>
  BY <1>1, <1>2
<1>3. CASE \E point \in ForkPoints(record, ForkOrdinal(i)) :
             record' = Fork(record, point) /\ unwound' = <<>>
  <2>1. PICK point \in DOMAIN record : record' = Fork(record, point) /\ unwound' = <<>>
    BY <1>3 DEF ForkPoints
  <2>2. Ordered(record') /\ RowsWithout(record', B)
    BY <2>1, ForkWithout DEF Unheard
  <2> QED BY <1>1, <2>1, <2>2, NothingHeard DEF Unheard
<1>4. \/ UNCHANGED <<record, unwound>>
      \/ \E point \in ForkPoints(record, ForkOrdinal(i)) :
           record' = Fork(record, point) /\ unwound' = <<>>
  BY DEF Regenerate
<1> QED BY <1>2, <1>3, <1>4

\* When a turn is opened, no message later than its own was sent.
LEMMA NoneLater ==
  ASSUME Turns, Turns', NEW t \in Turn, Open(t)
  PROVE  Untold' \subseteq Unsent
<1>1. turn'[t].phase \in {"open", "ended"} /\ \A s \in Turn \ {t} : turn'[s] = turn[s]
  BY DEF Open, Turns, TurnRecord
<1>2. turn[t].phase = "said"
  BY DEF Open
<1>3. ASSUME NEW n \in Turn, \A s \in Turn : s >= n => turn'[s].phase \in {"unsent", "said"}
      PROVE  turn[n].phase = "unsent"
  <2>1. ~ (t >= n)
    BY <1>1, <1>3
  <2>2. t < n /\ n # t
    BY <2>1, TurnIs
  <2>3. turn[n].phase # "unsent" => Streamed(t)
    BY <2>2 DEF Turns
  <2> QED BY <1>2, <2>3 DEF Streamed
<1> QED BY <1>3 DEF Untold, Unsent

\* Every step keeps the messages to come out of what the sidecar has.
LEMMA UnheardStep ==
  ASSUME Turns, Turns', Advances, HostRows, Unheard(record, unwound, inbox, run, Untold),
         [HistoryNext]_historyVars
  PROVE  Unheard(record', unwound', inbox', run', Untold')
<1>1. PICK B : B = Untold'
  OBVIOUS
<1>2. Untold' \subseteq Untold /\ Untold' \subseteq UserTexts
  BY TextsShrink
<1> HIDE DEF Untold
<1>3. B \in SUBSET UserTexts /\ Unheard(record, unwound, inbox, run, B)
  BY <1>1, <1>2, UnheardFewer
<1> SUFFICES Unheard(record', unwound', inbox', run', B)
  BY <1>1
<1>4. run # NoWork => DOMAIN run = DOMAIN NoWork
  BY DEF Turns, RunsTurn
<1>5. ASSUME NEW t \in Turn, Open(t) PROVE Unheard(record', unwound', inbox', run', B)
  <2>1. B \subseteq Unsent
    BY <1>1, <1>5, NoneLater
  <2>2. HostTable(host) /\ \A i \in DOMAIN host : host[i].text \notin B
    BY <2>1 DEF HostRows
  <2>3. turn[t].phase # "unsent"
    BY <1>5 DEF Open
  <2>4. \E i \in DOMAIN host : host[i].role = "user"
    BY <2>3 DEF HostRows
  <2> QED BY <1>3, <1>5, <2>2, <2>4, OpenUnheard
<1>6. ASSUME NEW t \in Turn, Say(t) \/ StoreReply(t) \/ ClearTurnActive(t) \/ Resume(t)
      PROVE  Unheard(record', unwound', inbox', run', B)
  <2>1. UNCHANGED <<record, unwound, inbox, run>>
    BY <1>6 DEF Say, StoreReply, ClearTurnActive, Resume
  <2> QED BY <1>3, <2>1
<1>7. ASSUME NEW t \in Turn, NEW i \in DOMAIN host, Regenerate(t, i)
      PROVE  Unheard(record', unwound', inbox', run', B)
  BY <1>3, <1>7, RegenerateUnheard
<1>8. ASSUME NEW cut \in 0..Len(run.items), Request(cut)
      PROVE  Unheard(record', unwound', inbox', run', B)
  <2>1. run # NoWork
    BY <1>8 DEF Request, NoWork
  <2> QED BY <1>3, <1>4, <1>8, <2>1, RequestUnheard
<1>9. CASE Round
  <2>1. run # NoWork
    BY <1>9 DEF Round, NoWork
  <2> QED BY <1>3, <1>4, <1>9, <2>1, RoundUnheard
<1>10. CASE UNCHANGED historyVars
  <2>1. UNCHANGED <<record, unwound, inbox, run>>
    BY <1>10 DEF historyVars
  <2> QED BY <1>3, <2>1
<1>11. CASE Steer \/ Continue \/ CancelHard
  BY <1>3, <1>11, SteerUnheard, ContinueUnheard, CancelUnheard
<1>12. CASE Reply \/ Fail \/ Crash \/ LateFlush
  BY <1>3, <1>12, EndingUnheard
<1> QED BY <1>5, <1>6, <1>7, <1>8, <1>9, <1>10, <1>11, <1>12 DEF HistoryNext

-----------------------------------------------------------------------------
(* Unanswered prompts are offered.                                         *)

\* No later turn was sent.
Latest(t) == \A s \in Turn : s > t => turn[s].phase = "unsent"

\* The newest turn of the host's, once the sidecar was asked, has the marker
\* until its reply is stored; and has it still when it died, unless the record
\* has not got its message.
Offered ==
  \A t \in Turn : turn[t].mode = "send" /\ Latest(t) =>
    /\ turn[t].phase \in {"open", "ended", "stored"} => active
    /\ turn[t].phase = "dead" => unwound = <<>> /\ (<<Piece("user", t)>> \in Texts(record) => active)

\* The texts of such entries.
LEMMA TextsWithout ==
  ASSUME NEW B, NEW rec, RowsWithout(rec, B)
  PROVE  Texts(rec) \cap B = {}
<1>1. Without(Items(rec), B)
  BY ItemsWithout
<1> QED BY <1>1 DEF Texts, Without

\* The newest turn is the one that is under way.
LEMMA NewestIsUnderWay ==
  ASSUME Turns, NEW x \in Turn, turn[x].phase \in {"said", "open"},
         NEW t \in Turn, Latest(t), turn[t].phase # "unsent"
  PROVE  t = x
<1>1. x < t => Streamed(x)
  BY DEF Turns
<1>2. ~ (x < t)
  BY <1>1 DEF Streamed
<1>3. ~ (x > t)
  BY DEF Latest
<1> QED BY <1>2, <1>3, TurnIs

\* The turn of the run is under way.
LEMMA RunOffered ==
  ASSUME Turns, Advances, Offered, run # NoWork, UNCHANGED active,
         \A s \in Turn \ {run.turn} : turn'[s] = turn[s],
         turn'[run.turn].phase \in {"open", "ended"}
  PROVE  Offered'
<1>1. run.turn \in Turn /\ turn[run.turn].phase = "open"
  BY DEF Turns, RunsTurn
<1> SUFFICES ASSUME NEW t \in Turn, turn'[t].mode = "send", Latest(t)',
                    turn'[t].phase # "unsent"
             PROVE  active' /\ turn'[t].phase # "dead"
  BY DEF Offered
<1>2. Latest(t)
  BY DEF Latest, Advances
<1>3. turn[t].phase # "unsent"
  BY <1>1
<1>4. t = run.turn
  BY <1>1, <1>2, <1>3, NewestIsUnderWay
<1>5. turn[t].mode = "send"
  BY <1>3 DEF Advances
<1> QED BY <1>1, <1>2, <1>4, <1>5 DEF Offered

\* A turn that begins is the newest.
LEMMA BeginsOffered ==
  ASSUME Turns', NEW t \in Turn, turn'[t].phase = "said"
  PROVE  Offered'
<1>1. ASSUME NEW n \in Turn, Latest(n)', turn'[n].phase # "unsent" PROVE n = t
  <2>1. t < n => Streamed(t)'
    BY <1>1 DEF Turns
  <2>2. ~ (t < n)
    BY <2>1 DEF Streamed
  <2>3. ~ (t > n)
    BY <1>1 DEF Latest
  <2> QED BY <2>2, <2>3, TurnIs
<1>2. ASSUME NEW n \in Turn, Latest(n)' PROVE turn'[n].phase \in {"unsent", "said"}
  BY <1>1, <1>2
<1> QED BY <1>2 DEF Offered

\* Both processes die: a turn whose message is in the record had been
\* opened, and its marker set.
LEMMA CrashOffered ==
  ASSUME Turns, Advances, Offered, RowsWithout(record, Untold), Crash
  PROVE  Offered'
<1>1. /\ unwound' = <<>> /\ UNCHANGED <<active, record>>
      /\ \A t \in Turn : /\ turn'[t].phase = IF turn[t].phase \in {"said", "open", "ended", "stored"}
                                            THEN "dead" ELSE turn[t].phase
                         /\ turn[t].mode = turn'[t].mode
  <2>1. \A t \in Turn : turn[t] \in TurnRecord
    BY DEF Turns
  <2> QED BY <2>1 DEF Crash, TurnRecord
<1> SUFFICES ASSUME NEW t \in Turn, turn'[t].mode = "send", Latest(t)',
                    turn'[t].phase = "dead", <<Piece("user", t)>> \in Texts(record)
             PROVE  active
  BY <1>1 DEF Offered, Texts
<1>2. Latest(t) /\ turn[t].mode = "send"
  BY <1>1 DEF Latest, Advances
<1>3. CASE turn[t].phase = "said"
  <2>1. \A s \in Turn : s >= t => s > t \/ s = t
    BY TurnIs
  <2>2. <<Piece("user", t)>> \in Untold
    BY <1>2, <1>3, <2>1 DEF Latest, Untold
  <2> QED BY <2>2, TextsWithout
<1>4. CASE turn[t].phase # "said"
  <2>1. turn[t].phase \in {"open", "ended", "stored", "dead"}
    BY <1>1, <1>4
  <2> QED BY <1>2, <2>1 DEF Offered
<1> QED BY <1>3, <1>4

\* Every step keeps the marker of the newest turn.
LEMMA OfferedStep ==
  ASSUME Turns, Turns', Advances, Offered, RowsWithout(record, Untold), [HistoryNext]_historyVars
  PROVE  Offered'
<1>0. \A t \in Turn : turn[t] \in TurnRecord /\ turn \in [Turn -> TurnRecord]
  BY DEF Turns
<1>1. ASSUME NEW t \in Turn, Say(t) \/ Resume(t) \/ \E i \in DOMAIN host : Regenerate(t, i)
      PROVE  Offered'
  <2>1. turn'[t].phase = "said"
    <3>1. \E mode : Begin(t, mode)
      BY <1>1 DEF Say, Resume, Regenerate
    <3>2. turn \in [Turn -> TurnRecord] /\ turn[t] \in TurnRecord
      BY <1>0
    <3> QED BY <3>1, <3>2 DEF Begin, TurnRecord
  <2> QED BY <2>1, BeginsOffered
<1>2. ASSUME NEW t \in Turn, Open(t) PROVE Offered'
  <2>1. /\ turn[t].phase = "said" /\ active' = TRUE /\ turn'[t].phase \in {"open", "ended"}
        /\ \A s \in Turn \ {t} : turn'[s] = turn[s]
    BY <1>0, <1>2 DEF Open, TurnRecord
  <2>2. ASSUME NEW n \in Turn, Latest(n)' PROVE turn'[n].phase # "dead"
    <3>1. Latest(n)
      BY <2>2 DEF Latest, Advances
    <3>2. n # t => turn'[n].phase # "dead"
      BY <2>1, <3>1, NewestIsUnderWay
    <3> QED BY <2>1, <3>2
  <2> QED BY <2>1, <2>2 DEF Offered
<1>3. ASSUME NEW t \in Turn, StoreReply(t) PROVE Offered'
  <2>1. /\ turn[t].phase = "ended" /\ turn'[t].phase = "stored" /\ turn'[t].mode = turn[t].mode
        /\ \A s \in Turn \ {t} : turn'[s] = turn[s]
        /\ UNCHANGED <<active, unwound, record>>
    BY <1>0, <1>3 DEF StoreReply, TurnRecord
  <2>2. \A n \in Turn : Latest(n)' => Latest(n)
    BY DEF Latest, Advances
  <2>3. Texts(record)' = Texts(record)
    BY <2>1 DEF Texts
  <2>4. ASSUME NEW n \in Turn, turn'[n].mode = "send", Latest(n)'
        PROVE  /\ turn'[n].phase \in {"open", "ended", "stored"} => active'
               /\ turn'[n].phase = "dead" =>
                    unwound' = <<>> /\ (<<Piece("user", n)>> \in Texts(record)' => active')
    <3>1. Latest(n) /\ turn[n].mode = "send"
      BY <2>1, <2>2, <2>4
    <3>2. CASE n = t
      BY <2>1, <3>1, <3>2 DEF Offered
    <3>3. CASE n # t
      BY <2>1, <2>3, <3>1, <3>3 DEF Offered
    <3> QED BY <3>2, <3>3
  <2> QED BY <2>4 DEF Offered
<1>4. ASSUME NEW t \in Turn, ClearTurnActive(t) PROVE Offered'
  <2>1. /\ turn[t].phase = "stored" /\ turn'[t].phase = "done"
        /\ \A s \in Turn \ {t} : turn'[s] = turn[s]
    BY <1>0, <1>4 DEF ClearTurnActive, TurnRecord
  <2>2. ASSUME NEW n \in Turn, turn'[n].mode = "send", Latest(n)'
        PROVE  turn'[n].phase \in {"unsent", "said", "done"}
    <3>1. CASE n = t
      BY <2>1, <3>1
    <3>2. CASE n # t
      <4>1. turn[n] = turn'[n] /\ Latest(n)
        BY <2>1, <2>2, <3>2 DEF Latest, Advances
      <4>2. ~ (t > n)
        BY <2>1, <4>1 DEF Latest
      <4>3. t < n
        BY <3>2, <4>2, TurnIs
      <4>4. turn[n].phase # "unsent" => Over(t)
        BY <2>2, <4>1, <4>3 DEF Turns
      <4> QED BY <2>1, <4>1, <4>4 DEF Over
    <3> QED BY <3>1, <3>2
  <2> QED BY <2>2 DEF Offered
<1>5. ASSUME run # NoWork, UNCHANGED active,
             \/ UNCHANGED turn
             \/ \E said, acted : EndRun(said, acted)
             \/ \E said : turn' = [turn EXCEPT ![run.turn].said = said, ![run.turn].acted = TRUE]
      PROVE  Offered'
  <2>1. run.turn \in Turn /\ turn[run.turn].phase = "open"
    BY <1>5 DEF Turns, RunsTurn
  <2>2. /\ \A s \in Turn \ {run.turn} : turn'[s] = turn[s]
        /\ turn'[run.turn].phase \in {"open", "ended"}
    <3> DEFINE x == run.turn
    <3>1. x \in Turn /\ turn[x].phase = "open" /\ turn \in [Turn -> TurnRecord] /\ turn[x] \in TurnRecord
      BY <1>0, <2>1
    <3>2. \/ UNCHANGED turn
          \/ \E said, acted : turn' = [turn EXCEPT ![x].phase = "ended", ![x].said = said, ![x].acted = acted]
          \/ \E said : turn' = [turn EXCEPT ![x].said = said, ![x].acted = TRUE]
      BY <1>5 DEF EndRun
    <3> HIDE DEF x
    <3>3. CASE UNCHANGED turn
      BY <3>1, <3>3 DEF x
    <3>4. CASE \E said, acted : turn' = [turn EXCEPT ![x].phase = "ended", ![x].said = said, ![x].acted = acted]
      <4>1. (\A s \in Turn \ {x} : turn'[s] = turn[s]) /\ turn'[x].phase = "ended"
        BY <3>1, <3>4 DEF TurnRecord
      <4> QED BY <4>1 DEF x
    <3>5. CASE \E said : turn' = [turn EXCEPT ![x].said = said, ![x].acted = TRUE]
      <4>1. (\A s \in Turn \ {x} : turn'[s] = turn[s]) /\ turn'[x].phase = "open"
        BY <3>1, <3>5 DEF TurnRecord
      <4> QED BY <4>1 DEF x
    <3> QED BY <3>2, <3>3, <3>4, <3>5
  <2> QED BY <1>5, <2>2, RunOffered
<1>6. ASSUME NEW cut \in 0..Len(run.items), Request(cut) PROVE Offered'
  <2>1. run # NoWork /\ UNCHANGED active
    BY <1>6 DEF Request, NoWork
  <2>2. UNCHANGED turn \/ EndRun(Said, Acted)
    BY <1>6 DEF Request, Flush
  <2> QED BY <1>5, <2>1, <2>2
<1>7. CASE Round
  <2>1. run # NoWork /\ UNCHANGED active
    BY <1>7 DEF Round, NoWork
  <2>2. \E says : \/ EndRun(Said \o says, TRUE)
                  \/ turn' = [turn EXCEPT ![run.turn].said = @ \o says, ![run.turn].acted = TRUE]
    BY <1>7 DEF Round
  <2> QED BY <1>5, <2>1, <2>2
<1>8. CASE Reply
  <2>1. run # NoWork /\ UNCHANGED active /\ \E said : EndRun(said, Acted)
    BY <1>8 DEF Reply, NoWork
  <2> QED BY <1>5, <2>1
<1>9. CASE Fail
  <2>1. run # NoWork /\ UNCHANGED active /\ \E said : EndRun(said, Acted)
    BY <1>9 DEF Fail
  <2> QED BY <1>5, <2>1
<1>10. CASE CancelHard
  <2>1. run # NoWork /\ UNCHANGED active /\ EndRun(Said, Acted)
    BY <1>10 DEF CancelHard
  <2> QED BY <1>5, <2>1
<1>11. CASE Steer \/ Continue
  <2>1. UNCHANGED active /\ UNCHANGED turn
    BY <1>11 DEF Steer, Continue
  <2>2. run.step = "gather" \/ run # NoWork
    BY <1>11 DEF Steer, Continue
  <2>3. run # NoWork
    BY <2>2 DEF NoWork
  <2> QED BY <1>5, <2>1, <2>3
<1>12. CASE LateFlush
  <2>1. unwound # <<>> /\ UNCHANGED <<active, turn>>
    BY <1>12 DEF LateFlush
  <2> QED BY <2>1 DEF Offered, Latest
<1>13. CASE Crash
  BY <1>13, CrashOffered
<1>14. CASE UNCHANGED historyVars
  <2>1. UNCHANGED <<active, turn, unwound, record>>
    BY <1>14 DEF historyVars
  <2> QED BY <2>1 DEF Offered, Latest, Texts
<1> QED BY <1>1, <1>2, <1>3, <1>4, <1>6, <1>7, <1>8, <1>9, <1>10, <1>11, <1>12, <1>13, <1>14
        DEF HistoryNext

\* The marks and the counters.
Counted ==
  /\ active \in BOOLEAN /\ plain \in BOOLEAN /\ truncated \in BOOLEAN /\ overlapped \in BOOLEAN
  /\ mishaps \in 0..MaxMishaps /\ compactions \in 0..MaxCompactions

\* The inductive invariant. UnansweredIsOffered speaks of turns that died;
\* that their marker was set before their message could reach the record,
\* and that no other turn's end took it away, takes the order of the turns,
\* the texts that the two stores cannot have yet, and the numbers of the
\* rows, without which a batch might be refused half way.
OfferInv ==
  /\ Turns /\ HostRows /\ Unheard(record, unwound, inbox, run, Untold)
  /\ Offered /\ Counted

\* It holds of the empty chat.
LEMMA OfferInitially == HistoryInit => OfferInv
<1> SUFFICES ASSUME HistoryInit PROVE OfferInv
  OBVIOUS
<1>1. Turns
  <2>1. <<>> \in SaidTexts
    BY DEF SaidTexts
  <2>2. turn \in [Turn -> TurnRecord] /\ \A t \in Turn : turn[t].phase = "unsent"
    BY <2>1 DEF HistoryInit, TurnRecord
  <2> QED BY <2>2 DEF HistoryInit, Turns, RunsTurn
<1>2. \A t \in Turn : turn[t].phase = "unsent" /\ turn[t].mode = "none"
  BY DEF HistoryInit
<1>3. HostRows
  <2>1. IsSequence(<<>>) /\ DOMAIN <<>> = {}
    BY None, SequenceIs
  <2>2. host = <<>>
    BY DEF HistoryInit
  <2> QED BY <1>2, <2>1, <2>2 DEF HostRows, HostTable
<1>4. Unheard(record, unwound, inbox, run, Untold)
  <2> HIDE DEF Untold
  <2> QED BY NothingHeard DEF HistoryInit, Unheard
<1>5. Offered
  BY <1>2 DEF Offered
<1>6. Counted
  <2>1. 0 \in 0..MaxMishaps /\ 0 \in 0..MaxCompactions
    <3>1. MaxMishaps \in Nat /\ MaxCompactions \in Nat
      BY BoundsAssumption
    <3> QED BY <3>1
  <2> QED BY <2>1 DEF HistoryInit, Counted
<1> QED BY <1>1, <1>3, <1>4, <1>5, <1>6 DEF OfferInv

\* The mishaps are counted.
LEMMA MishapCounts ==
  ASSUME NEW kind, Mishap(kind), mishaps \in 0..MaxMishaps
  PROVE  mishaps' \in 0..MaxMishaps
<1>1. MaxMishaps \in Nat
  BY BoundsAssumption
<1> QED BY <1>1 DEF Mishap

\* Every step keeps marks and counters in their range.
LEMMA CountedStep ==
  ASSUME Counted, [HistoryNext]_historyVars
  PROVE  Counted'
<1>0. /\ MaxMishaps \in Nat /\ MaxCompactions \in Nat /\ mishaps \in 0..MaxMishaps
      /\ compactions \in 0..MaxCompactions
  BY BoundsAssumption DEF Counted
<1>1. UNCHANGED mishaps \/ \E kind : Mishap(kind)
  <2>1. ASSUME NEW t \in Turn,
               Say(t) \/ Open(t) \/ StoreReply(t) \/ ClearTurnActive(t) \/ Resume(t)
        PROVE  UNCHANGED mishaps \/ \E kind : Mishap(kind)
    BY <2>1 DEF Say, Open, StoreReply, ClearTurnActive, Resume
  <2>2. ASSUME NEW t \in Turn, NEW i \in DOMAIN host, Regenerate(t, i)
        PROVE  \E kind : Mishap(kind)
    BY <2>2 DEF Regenerate
  <2>3. ASSUME NEW cut \in 0..Len(run.items), Request(cut) PROVE UNCHANGED mishaps
    BY <2>3 DEF Request
  <2>4. CASE Steer \/ Round \/ Reply \/ Continue
    BY <2>4 DEF Steer, Round, Reply, Continue
  <2>5. CASE Fail \/ CancelHard \/ LateFlush \/ Crash
    BY <2>5 DEF Fail, CancelHard, LateFlush, Crash
  <2>6. CASE UNCHANGED historyVars
    BY <2>6 DEF historyVars
  <2> QED BY <2>1, <2>2, <2>3, <2>4, <2>5, <2>6 DEF HistoryNext
<1>2. UNCHANGED compactions \/ (compactions < MaxCompactions /\ compactions' = compactions + 1)
  <2>1. ASSUME NEW t \in Turn,
               Say(t) \/ Open(t) \/ StoreReply(t) \/ ClearTurnActive(t) \/ Resume(t)
        PROVE  UNCHANGED compactions
    BY <2>1 DEF Say, Open, StoreReply, ClearTurnActive, Resume
  <2>2. ASSUME NEW t \in Turn, NEW i \in DOMAIN host, Regenerate(t, i)
        PROVE  UNCHANGED compactions
    BY <2>2 DEF Regenerate
  <2>3. ASSUME NEW cut \in 0..Len(run.items), Request(cut)
        PROVE  \/ UNCHANGED compactions
               \/ compactions < MaxCompactions /\ compactions' = compactions + 1
    BY <2>3 DEF Request
  <2>4. CASE Steer \/ Round \/ Reply \/ Continue
    BY <2>4 DEF Steer, Round, Reply, Continue
  <2>5. CASE Fail \/ CancelHard \/ LateFlush \/ Crash
    BY <2>5 DEF Fail, CancelHard, LateFlush, Crash
  <2>6. CASE UNCHANGED historyVars
    BY <2>6 DEF historyVars
  <2> QED BY <2>1, <2>2, <2>3, <2>4, <2>5, <2>6 DEF HistoryNext
<1>3. active' \in BOOLEAN /\ truncated' \in BOOLEAN /\ overlapped' \in BOOLEAN
  <2>0. active \in BOOLEAN /\ truncated \in BOOLEAN /\ overlapped \in BOOLEAN
    BY DEF Counted
  <2>1. ASSUME NEW t \in Turn,
               Say(t) \/ Open(t) \/ StoreReply(t) \/ ClearTurnActive(t) \/ Resume(t)
        PROVE  active' \in BOOLEAN /\ UNCHANGED <<truncated, overlapped>>
    BY <2>0, <2>1 DEF Say, Open, StoreReply, ClearTurnActive, Resume
  <2>2. ASSUME NEW t \in Turn, NEW i \in DOMAIN host, Regenerate(t, i)
        PROVE  truncated' \in BOOLEAN /\ UNCHANGED <<active, overlapped>>
    <3>1. truncated' = TRUE \/ UNCHANGED truncated
      BY <2>2 DEF Regenerate
    <3> QED BY <2>0, <2>2, <3>1 DEF Regenerate
  <2>3. ASSUME NEW cut \in 0..Len(run.items), Request(cut)
        PROVE  UNCHANGED <<active, truncated, overlapped>>
    BY <2>3 DEF Request
  <2>4. CASE Steer \/ Round \/ Reply \/ Continue
    <3>1. UNCHANGED <<active, truncated, overlapped>>
      BY <2>4 DEF Steer, Round, Reply, Continue
    <3> QED BY <2>0, <3>1
  <2>5. CASE Fail \/ CancelHard \/ LateFlush \/ Crash
    <3>1. UNCHANGED <<active, truncated>> /\ (overlapped' = TRUE \/ UNCHANGED overlapped)
      BY <2>5 DEF Fail, CancelHard, LateFlush, Crash
    <3> QED BY <2>0, <3>1
  <2>6. CASE UNCHANGED historyVars
    <3>1. UNCHANGED <<active, truncated, overlapped>>
      BY <2>6 DEF historyVars
    <3> QED BY <2>0, <3>1
  <2> QED BY <2>0, <2>1, <2>2, <2>3, <2>4, <2>5, <2>6 DEF HistoryNext
<1>4. plain' \in BOOLEAN
  <2>0. plain \in BOOLEAN
    BY DEF Counted
  <2>1. ASSUME NEW t \in Turn,
               Say(t) \/ Open(t) \/ StoreReply(t) \/ ClearTurnActive(t)
        PROVE  plain' = FALSE \/ UNCHANGED plain
    BY <2>1 DEF Say, Open, StoreReply, ClearTurnActive
  <2>2. ASSUME NEW t \in Turn, Resume(t) \/ \E i \in DOMAIN host : Regenerate(t, i)
        PROVE  plain' \in BOOLEAN
    BY <2>2 DEF Regenerate, Resume
  <2>3. ASSUME NEW cut \in 0..Len(run.items), Request(cut) PROVE UNCHANGED plain
    BY <2>3 DEF Request
  <2>4. CASE Steer \/ Round \/ Reply \/ Continue
    <3>1. plain' = FALSE \/ UNCHANGED plain
      BY <2>4 DEF Steer, Round, Reply, Continue
    <3> QED BY <2>0, <3>1
  <2>5. CASE Fail \/ Crash
    BY <2>5 DEF Fail, Crash
  <2>6. CASE CancelHard \/ LateFlush
    <3>1. plain' = FALSE \/ UNCHANGED plain
      BY <2>6 DEF CancelHard, LateFlush
    <3> QED BY <2>0, <3>1
  <2>7. CASE UNCHANGED historyVars
    <3>1. UNCHANGED plain
      BY <2>7 DEF historyVars
    <3> QED BY <2>0, <3>1
  <2> QED BY <2>0, <2>1, <2>2, <2>3, <2>4, <2>5, <2>6, <2>7 DEF HistoryNext
<1>5. mishaps' \in 0..MaxMishaps
  BY <1>0, <1>1, MishapCounts
<1>6. compactions' \in 0..MaxCompactions
  BY <1>0, <1>2
<1> QED BY <1>3, <1>4, <1>5, <1>6 DEF Counted

\* Every step keeps the invariant.
LEMMA OfferStep == OfferInv /\ [HistoryNext]_historyVars => OfferInv'
<1> SUFFICES ASSUME OfferInv, [HistoryNext]_historyVars PROVE OfferInv'
  OBVIOUS
<1>1. /\ Turns /\ HostRows /\ Unheard(record, unwound, inbox, run, Untold) /\ Offered /\ Counted
  BY DEF OfferInv
<1>2. Turns' /\ Advances
  BY <1>1, TurnsStep
<1>3. HostRows'
  BY <1>1, <1>2, HostRowsStep
<1>4. Unheard(record', unwound', inbox', run', Untold')
  BY <1>1, <1>2, UnheardStep
<1>5. Offered'
  BY <1>1, <1>2, OfferedStep DEF Unheard
<1>6. Counted'
  BY <1>1, CountedStep
<1> QED BY <1>2, <1>3, <1>4, <1>5, <1>6 DEF OfferInv, Unheard

\* A turn that died with its message in the record is offered.
LEMMA OfferMeans == OfferInv => UnansweredIsOffered
<1> SUFFICES ASSUME OfferInv, NEW t \in Turn, turn[t].phase = "dead", turn[t].mode = "send",
                    \A s \in Turn : s > t => turn[s].phase = "unsent",
                    <<Piece("user", t)>> \in Texts(record), Last(host).role = "user"
             PROVE  Interrupted
  BY DEF UnansweredIsOffered
<1>1. Turns /\ HostRows /\ Offered
  BY DEF OfferInv
<1>2. active
  BY <1>1 DEF Offered, Latest
<1>3. run = NoWork
  <2> SUFFICES ASSUME run # NoWork PROVE FALSE
    OBVIOUS
  <2>1. run.turn \in Turn /\ turn[run.turn].phase = "open"
    BY <1>1 DEF Turns, RunsTurn
  <2> QED BY <1>1, <2>1, NewestIsUnderWay DEF Latest
<1>4. host # <<>>
  <2>1. \E i \in DOMAIN host : TRUE
    BY <1>1 DEF HostRows
  <2> QED BY <2>1
<1> QED BY <1>2, <1>3, <1>4 DEF Interrupted

\* The types follow from it.
LEMMA OfferTypes == OfferInv => HistoryTypeOK
<1> SUFFICES ASSUME OfferInv PROVE HistoryTypeOK
  OBVIOUS
<1>1. \A i \in DOMAIN host : host[i].turn \in Turn /\ host[i].role \in {"user", "assistant"}
  BY DEF OfferInv, HostRows, HostTable
<1>2. /\ \A i \in DOMAIN record : record[i].type \in {"item", "boundary", "seed"}
      /\ \A i, j \in DOMAIN record : i < j => record[i].seq < record[j].seq
  BY DEF OfferInv, Unheard, Ordered, RowsWithout
<1>3. turn \in [Turn -> TurnRecord]
  BY DEF OfferInv, Turns
<1>4. run.step \in {"idle", "gather", "asked"} /\ ((run.step # "idle") <=> (run # NoWork))
  <2>1. run # NoWork => run.step \in {"gather", "asked"}
    BY DEF OfferInv, Unheard, RunWithout
  <2>2. run = NoWork => run.step = "idle"
    BY DEF NoWork
  <2> QED BY <2>1, <2>2
<1>5. Counted
  BY DEF OfferInv
<1> QED BY <1>1, <1>2, <1>3, <1>4, <1>5 DEF HistoryTypeOK, Counted, TurnRecord, SaidTexts

\* In every chat, for all bounds, the state has its types: in particular the
\* entries of the record stay in the order of their numbers, even when a
\* cancelled loop's thread stores its batch between those of another run.
THEOREM HistoryTyped == HistorySpec => []HistoryTypeOK
<1> QED BY OfferInitially, OfferStep, OfferTypes, PTL DEF HistorySpec

\* In every chat, whatever turns, failures, hard cancellations, forks and
\* crashes it sees, and for all bounds: a prompt that is in the durable
\* record and whose turn died is offered for continuation
\* (detectInterruptedTurn), as long as no later turn was sent.
THEOREM UnansweredAreOffered == HistorySpec => []UnansweredIsOffered
<1> QED BY OfferInitially, OfferStep, OfferMeans, PTL DEF HistorySpec

-----------------------------------------------------------------------------
(* What the host's table tells.                                            *)

\* The message that a row stands for, as long as there is a text,
Told(row) == IF row.text # <<>> THEN <<Item(row.role, row.text)>> ELSE <<>>

TextRows(rows) == [i \in DOMAIN rows |-> SeedEntry(0, Told(rows[i]))]

\* and those of all rows.
Texted(rows) == Items(TextRows(rows))

\* One row tells one message or none.
LEMMA ToldIs == ASSUME NEW row PROVE IsSequence(Told(row))
BY SingleIs, None DEF Told

\* The rows as entries.
LEMMA TextedIs ==
  ASSUME NEW rows, IsSequence(rows)
  PROVE  /\ Entries(TextRows(rows)) /\ IsSequence(TextRows(rows)) /\ Len(TextRows(rows)) = Len(rows)
         /\ DOMAIN TextRows(rows) = DOMAIN rows
         /\ \A i \in DOMAIN rows : /\ TextRows(rows)[i].items = Told(rows[i])
                                   /\ TextRows(rows)[i].type = "seed"
         /\ IsSequence(Texted(rows))
<1>1. Len(rows) \in Nat /\ DOMAIN rows = 1..Len(rows)
  BY SequenceIs
<1>2. IsSequence(TextRows(rows)) /\ Len(TextRows(rows)) = Len(rows) /\ DOMAIN TextRows(rows) = DOMAIN rows
  BY <1>1, IsASequence DEF TextRows
<1>3. \A i \in DOMAIN rows : TextRows(rows)[i].items = Told(rows[i]) /\ TextRows(rows)[i].type = "seed"
  BY DEF TextRows, SeedEntry
<1>4. Entries(TextRows(rows))
  BY <1>2, <1>3, ToldIs DEF Entries
<1> QED BY <1>2, <1>3, <1>4, ItemsAreASequence DEF Texted

\* An empty table tells nothing.
LEMMA TextedNone == Texted(<<>>) = <<>>
<1>1. IsSequence(TextRows(<<>>)) /\ Len(TextRows(<<>>)) = 0
  BY None, TextedIs
<1>2. TextRows(<<>>) = <<>>
  BY <1>1, None, SameSequence
<1> QED BY <1>2, ItemsOfNone DEF Texted

\* A row more tells its message more.
LEMMA TextedMore ==
  ASSUME NEW rows, IsSequence(rows), NEW row
  PROVE  Texted(Append(rows, row)) = Texted(rows) \o Told(row)
<1> DEFINE a == Append(rows, row)
           p == TextRows(rows)
           e == SeedEntry(0, Told(row))
           d == <<e>>
<1>1. /\ Len(rows) \in Nat /\ DOMAIN rows = 1..Len(rows) /\ IsSequence(a)
      /\ Len(a) = Len(rows) + 1 /\ a[Len(rows) + 1] = row
      /\ \A i \in 1..Len(rows) : a[i] = rows[i]
  <2>1. Len(rows) \in Nat /\ DOMAIN rows = 1..Len(rows) /\ IsSequence(a)
    BY SequenceIs, Longer
  <2>2. /\ Len(a) = Len(rows) + 1 /\ a[Len(rows) + 1] = row
        /\ \A i \in 1..Len(rows) : a[i] = rows[i]
    BY <2>1 DEF IsSequence
  <2> QED BY <2>1, <2>2
<1>2. e.items = Told(row) /\ IsSequence(e.items)
  BY ToldIs DEF SeedEntry
<1>3. Entries(p) /\ IsSequence(p) /\ Len(p) = Len(rows)
  BY TextedIs
<1> HIDE DEF a
<1>4. IsSequence(TextRows(a)) /\ Len(TextRows(a)) = Len(rows) + 1 /\ DOMAIN a = 1..(Len(rows) + 1)
  BY <1>1, TextedIs, SequenceIs
<1>5. IsSequence(d) /\ Len(d) = 1 /\ d[1] = e
  BY Single
<1>6. \A i \in 1..Len(rows) : TextRows(a)[i] = p[i]
  BY <1>1, <1>4 DEF TextRows
<1>7. TextRows(a)[Len(rows) + 1] = e
  BY <1>1, <1>4 DEF TextRows
<1> HIDE DEF d, e, p
<1>8. TextRows(a) = p \o d
  <2>0. /\ IsSequence(p \o d) /\ Len(p \o d) = Len(p) + Len(d)
        /\ \A i \in 1..Len(p) : (p \o d)[i] = p[i]
        /\ \A i \in 1..Len(d) : (p \o d)[Len(p) + i] = d[i]
    <3>1. IsSequence(p) /\ IsSequence(d)
      BY <1>3, <1>5
    <3> QED BY <3>1, Joined
  <2>1. /\ IsSequence(p \o d) /\ Len(p \o d) = Len(rows) + 1
        /\ \A i \in 1..Len(rows) : (p \o d)[i] = p[i]
        /\ \A i \in 1..1 : (p \o d)[Len(rows) + i] = d[i]
    BY <1>3, <1>5, <2>0
  <2>2. (p \o d)[Len(rows) + 1] = e
    BY <1>5, <2>1
  <2>3. \A i \in 1..(Len(rows) + 1) : i \in 1..Len(rows) \/ i = Len(rows) + 1
    BY <1>1
  <2>4. \A i \in 1..(Len(rows) + 1) : TextRows(a)[i] = (p \o d)[i]
    BY <1>6, <1>7, <2>1, <2>2, <2>3
  <2> QED BY <1>4, <2>1, <2>4, SameSequence
<1>9. Items(p \o <<e>>) = Items(p) \o e.items
  BY <1>2, <1>3, ItemsAndOne
<1> QED BY <1>2, <1>8, <1>9 DEF Texted, a, d, p

\* What no row says is not told,
LEMMA TextedWithout ==
  ASSUME NEW rows, IsSequence(rows), NEW B, \A i \in DOMAIN rows : rows[i].text \notin B
  PROVE  Without(Texted(rows), B)
<1>1. ASSUME NEW i \in DOMAIN rows PROVE Without(Told(rows[i]), B)
  <2>1. Item(rows[i].role, rows[i].text).text \notin B
    BY DEF Item
  <2>2. Without(<<Item(rows[i].role, rows[i].text)>>, B)
    BY <2>1, WithoutOne
  <2> QED BY <2>2, WithoutNone DEF Told
<1>2. RowsWithout(TextRows(rows), B)
  BY <1>1, TextedIs DEF RowsWithout
<1> QED BY <1>2, ItemsWithout DEF Texted

\* and what is not told no row says.
LEMMA TextedTells ==
  ASSUME NEW rows, IsSequence(rows), NEW B \in SUBSET UserTexts, Without(Texted(rows), B),
         NEW i \in DOMAIN rows
  PROVE  rows[i].text \notin B
<1> SUFFICES ASSUME rows[i].text \in B PROVE FALSE
  OBVIOUS
<1>1. rows[i].text # <<>>
  <2>1. PICK m \in Nat : rows[i].text = <<Piece("user", m)>>
    BY DEF UserTexts
  <2>2. Len(<<Piece("user", m)>>) = 1 /\ Len(<<>>) = 0
    BY Single, None
  <2> QED BY <2>1, <2>2
<1> DEFINE x == Item(rows[i].role, rows[i].text)
<1>2. Told(rows[i]) = <<x>> /\ x.text = rows[i].text
  BY <1>1 DEF Told, Item
<1> HIDE DEF x
<1>3. Holds(<<x>>, x)
  <2>1. 1 \in DOMAIN <<x>> /\ <<x>>[1] = x
    OBVIOUS
  <2> QED BY <2>1 DEF Holds
<1>4. Holds(Items(TextRows(rows)), x)
  BY <1>2, <1>3, TextedIs, ItemsHold
<1>5. PICK j \in DOMAIN Texted(rows) : Texted(rows)[j] = x
  BY <1>4 DEF Holds, Texted
<1> QED BY <1>2, <1>5 DEF Without

\* What the record's view is to become: the system prompt and the rows.
Known(v, rows) == <<SystemItem(v)>> \o Texted(rows)

\* It begins with the system prompt.
LEMMA KnownIs ==
  ASSUME NEW v, NEW rows, IsSequence(rows)
  PROVE  /\ IsSequence(Known(v, rows)) /\ Led(Known(v, rows), SystemItem(v))
         /\ IsSequence(<<SystemItem(v)>>) /\ IsSequence(Texted(rows))
<1> DEFINE d == <<SystemItem(v)>>
<1>1. IsSequence(d) /\ d # <<>> /\ d[1] = SystemItem(v)
  BY Single, None
<1>2. IsSequence(Texted(rows))
  BY TextedIs
<1> HIDE DEF d
<1>3. IsSequence(d \o Texted(rows))
  BY <1>1, <1>2, JoinedIs
<1>4. Led(d \o Texted(rows), SystemItem(v))
  BY <1>1, <1>2, LedJoined DEF Led
<1> QED BY <1>1, <1>2, <1>3, <1>4 DEF Known, d

\* A row more.
LEMMA KnownMore ==
  ASSUME NEW v, NEW rows, IsSequence(rows), NEW row
  PROVE  /\ IsSequence(Append(rows, row))
         /\ Known(v, Append(rows, row)) = Known(v, rows) \o Told(row)
<1> DEFINE d == <<SystemItem(v)>>
           t == Texted(rows)
           u == Told(row)
<1>1. IsSequence(d) /\ IsSequence(t) /\ IsSequence(u)
  BY KnownIs, ToldIs
<1>2. Texted(Append(rows, row)) = t \o u
  BY TextedMore
<1> HIDE DEF d, t, u
<1>3. (d \o t) \o u = d \o (t \o u)
  BY <1>1, JoinedTwice
<1>4. IsSequence(Append(rows, row))
  BY Longer
<1> QED BY <1>2, <1>3, <1>4 DEF Known, d, t, u

\* What no row says is not known,
LEMMA KnownWithout ==
  ASSUME NEW v, NEW rows, IsSequence(rows), NEW B \in SUBSET UserTexts,
         \A i \in DOMAIN rows : rows[i].text \notin B
  PROVE  Without(Known(v, rows), B)
<1>1. Without(<<SystemItem(v)>>, B)
  <2>1. SystemItem(v).text = <<Piece("system", v)>>
    BY DEF SystemItem, Item
  <2>2. <<Piece("system", v)>> \notin B
    BY None, PieceIsNot
  <2> QED BY <2>1, <2>2, WithoutOne
<1>2. Without(Texted(rows), B)
  BY TextedWithout
<1> QED BY <1>1, <1>2, WithoutJoined DEF Known

\* the beginning of what lacks a text lacks it,
LEMMA WithoutFirst ==
  ASSUME NEW s, NEW t, IsSequence(s), IsSequence(t), NEW B, Without(s \o t, B)
  PROVE  Without(s, B) /\ Without(t, B)
<1>1. /\ Len(s) \in Nat /\ Len(t) \in Nat /\ DOMAIN s = 1..Len(s) /\ DOMAIN t = 1..Len(t)
      /\ DOMAIN (s \o t) = 1..(Len(s) + Len(t))
      /\ \A i \in 1..Len(s) : (s \o t)[i] = s[i]
      /\ \A i \in 1..Len(t) : (s \o t)[Len(s) + i] = t[i]
  BY Joined, JoinedDomain
<1>2. \A i \in 1..Len(s) : i \in DOMAIN (s \o t)
  BY <1>1
<1>3. \A i \in 1..Len(t) : Len(s) + i \in DOMAIN (s \o t)
  BY <1>1
<1>4. \A i \in DOMAIN s : s[i].text \notin B
  BY <1>1, <1>2 DEF Without
<1>5. \A i \in DOMAIN t : t[i].text \notin B
  BY <1>1, <1>3 DEF Without
<1> QED BY <1>4, <1>5 DEF Without

\* and what is not known no row says.
LEMMA KnownTells ==
  ASSUME NEW v, NEW rows, IsSequence(rows), NEW B \in SUBSET UserTexts,
         Without(Known(v, rows), B)
  PROVE  \A i \in DOMAIN rows : rows[i].text \notin B
<1>1. Without(Texted(rows), B)
  BY KnownIs, WithoutFirst DEF Known
<1> QED BY <1>1, TextedTells

-----------------------------------------------------------------------------
(* What the host sends in a plain chat.                                    *)

\* A row that says what the record has: the prompt as it was sent, or a reply
\* as it was streamed; a turn that ended without a word called no tools.
PlainRow(row) ==
  \/ row.role = "user" /\ row.text = <<Piece("user", row.turn)>>
  \/ row.role = "assistant" /\ row.text \in SaidTexts /\ (row.text = <<>> => ~ row.acted)

\* A table of such rows, with one prompt for every turn.
PlainRows(h) ==
  /\ HostTable(h) /\ \A i \in DOMAIN h : PlainRow(h[i])
  /\ \A i, j \in DOMAIN h :
       h[i].role = "user" /\ h[j].role = "user" /\ h[i].turn = h[j].turn => i = j

UserRow(t) == Row(t, "user", <<Piece("user", t)>>, FALSE)

\* The messages that such a table tells.
Shown(v) ==
  {SystemItem(v)} \cup {Item("user", x) : x \in UserTexts} \cup {Item("assistant", x) : x \in SaidTexts}

\* They are visible to a host, and none of them is a summary.
LEMMA ShownIs ==
  ASSUME NEW v, NEW x \in Shown(v), NEW covered
  PROVE  /\ HostVisible(x) /\ x.kind # "steer"
         /\ x.kind = "user" => x.text \in UserTexts /\ x.text # <<Summary(covered)>>
<1>1. \A k, y : Item(k, y).kind = k /\ Item(k, y).text = y
  BY DEF Item
<1>2. SystemItem(v).kind = "system"
  BY <1>1 DEF SystemItem
<1>3. <<Summary(covered)>> \notin UserTexts
  <2> SUFFICES ASSUME NEW m \in Nat, <<Summary(covered)>> = <<Piece("user", m)>> PROVE FALSE
    BY DEF UserTexts
  <2>1. Summary(covered) = Piece("user", m)
    BY Single
  <2> QED BY <2>1 DEF Summary, Piece
<1>4. x = SystemItem(v) \/ (\E y \in UserTexts : x = Item("user", y))
        \/ \E y \in SaidTexts : x = Item("assistant", y)
  BY DEF Shown
<1> QED BY <1>1, <1>2, <1>3, <1>4 DEF HostVisible

\* What such a table tells are such messages.
LEMMA KnownShown ==
  ASSUME NEW h, PlainRows(h), NEW v
  PROVE  In(Known(v, h), Shown(v))
<1>1. IsSequence(h) /\ \A i \in DOMAIN h : h[i].turn \in Nat
  BY TurnIs DEF PlainRows, HostTable
<1>2. ASSUME NEW i \in DOMAIN h PROVE In(Told(h[i]), Shown(v))
  <2> DEFINE x == Item(h[i].role, h[i].text)
  <2>1. x \in Shown(v)
    <3>1. CASE h[i].role = "user" /\ h[i].text = <<Piece("user", h[i].turn)>>
      <4>1. h[i].text \in UserTexts
        BY <1>1, <3>1 DEF UserTexts
      <4> QED BY <3>1, <4>1 DEF Shown
    <3>2. CASE h[i].role = "assistant" /\ h[i].text \in SaidTexts
      BY <3>2 DEF Shown
    <3> QED BY <3>1, <3>2 DEF PlainRows, PlainRow
  <2> HIDE DEF x
  <2>2. IsSequence(<<x>>) /\ \A j \in DOMAIN <<x>> : <<x>>[j] = x
    BY Single
  <2>3. In(<<x>>, Shown(v)) /\ In(<<>>, Shown(v))
    BY <2>1, <2>2, None, SequenceIs DEF In
  <2> QED BY <2>3 DEF Told, x
<1>3. In(Texted(h), Shown(v))
  BY <1>1, <1>2, TextedIs, ItemsIn DEF Texted
<1>4. In(<<SystemItem(v)>>, Shown(v))
  <2>1. SystemItem(v) \in Shown(v)
    BY DEF Shown
  <2>2. IsSequence(<<SystemItem(v)>>) /\ \A j \in DOMAIN <<SystemItem(v)>> : <<SystemItem(v)>>[j] = SystemItem(v)
    BY Single
  <2> QED BY <2>1, <2>2 DEF In
<1> QED BY <1>3, <1>4, InJoined DEF Known

\* A table that begins another is one if that is.
LEMMA PlainBefore ==
  ASSUME NEW h, IsSequence(h), NEW row, PlainRows(Append(h, row))
  PROVE  /\ PlainRows(h) /\ Len(h) \in Nat /\ DOMAIN h = 1..Len(h)
         /\ Len(Append(h, row)) = Len(h) + 1 /\ DOMAIN Append(h, row) = 1..(Len(h) + 1)
         /\ Append(h, row)[Len(h) + 1] = row /\ \A i \in 1..Len(h) : Append(h, row)[i] = h[i]
         /\ IsSequence(Append(h, row))
<1> DEFINE a == Append(h, row)
<1>1. Len(h) \in Nat /\ DOMAIN h = 1..Len(h) /\ IsSequence(a)
  BY SequenceIs, Longer
<1>2. /\ Len(a) = Len(h) + 1 /\ a[Len(h) + 1] = row
      /\ \A i \in 1..Len(h) : a[i] = h[i]
  BY <1>1 DEF IsSequence
<1> HIDE DEF a
<1>3. DOMAIN a = 1..(Len(h) + 1) /\ \A i \in DOMAIN h : i \in DOMAIN a /\ a[i] = h[i]
  BY <1>1, <1>2, SequenceIs
<1>4. PlainRows(a)
  BY DEF a
<1>5. PlainRows(h)
  BY <1>1, <1>3, <1>4 DEF PlainRows, HostTable
<1> QED BY <1>1, <1>2, <1>3, <1>5 DEF a

\* A text with something appended begins with the text.
LEMMA LongerText ==
  ASSUME NEW s, IsSequence(s), NEW x
  PROVE  IsPrefix(s, Append(s, x)) /\ Append(s, x) # <<>>
<1> DEFINE d == <<x>>
<1>1. IsSequence(d) /\ Len(d) = 1 /\ Append(s, x) = s \o d
  BY Single, AppendJoins
<1> HIDE DEF d
<1>2. Len(s) \in Nat /\ Len(s \o d) = Len(s) + 1
  BY <1>1, Joined, SequenceIs
<1>3. SubSeq(s \o d, 1, Len(s)) = s /\ SubSeq(s, 1, Len(s)) = s
  BY <1>1, FirstPart, WholePrefix
<1>4. s \o d # <<>>
  BY <1>2, None
<1> QED BY <1>1, <1>2, <1>3, <1>4 DEF IsPrefix

\* One row, with or without the tool calls that a reply is spelled out with.
LEMMA SentForRow ==
  ASSUME NEW row, PlainRow(row), IsSequence(row.text), row.role \in {"user", "assistant"},
         NEW text,
         \/ text = row.text
         \/ row.role = "assistant" /\ row.acted /\ \E x : text = Append(row.text, x)
  PROVE  Alike(Told(row), IF text # <<>> THEN <<Item(row.role, text)>> ELSE <<>>)
<1> DEFINE want == Item(row.role, row.text)
           got == Item(row.role, text)
<1>1. CASE text = row.text
  BY <1>1, ToldIs, AlikeSame DEF Told
<1>2. CASE row.role = "assistant" /\ row.acted /\ \E x : text = Append(row.text, x)
  <2>1. row.text # <<>>
    BY <1>2 DEF PlainRow
  <2>2. IsPrefix(row.text, text) /\ text # <<>>
    BY <1>2, LongerText
  <2>3. want.kind = "assistant" /\ got.kind = "assistant" /\ want.text = row.text /\ got.text = text
    BY <1>2 DEF Item
  <2>4. Agrees(want, got)
    BY <2>1, <2>2, <2>3 DEF Agrees
  <2> HIDE DEF want, got
  <2>5. /\ IsSequence(<<want>>) /\ Len(<<want>>) = 1 /\ <<want>>[1] = want
        /\ IsSequence(<<got>>) /\ Len(<<got>>) = 1 /\ <<got>>[1] = got
    BY Single
  <2>6. Alike(<<want>>, <<got>>)
    BY <2>3, <2>4, <2>5 DEF Alike
  <2> QED BY <2>1, <2>2, <2>6 DEF Told, want, got
<1> QED BY <1>1, <1>2

\* The host sends the rows before the message it has just stored, one message
\* for each that the rows tell.
LEMMA SeedAlike ==
  ASSUME NEW h, IsSequence(h), NEW t, host = Append(h, UserRow(t)), PlainRows(host),
         turn[t].mode = "send"
  PROVE  Alike(Texted(h), HostSeed(t))
<1> DEFINE n == Len(h)
           replies == {j \in DOMAIN host : Earlier(t, j) /\ host[j].role = "assistant"}
           recent(i) == Cardinality({j \in replies : i <= j}) <= RecentReplies
           text(i) == IF i \in replies /\ host[i].acted /\ recent(i)
                      THEN Append(host[i].text, Piece("acts", host[i].turn)) ELSE host[i].text
           q(i) == IF Earlier(t, i) /\ text(i) # <<>> THEN <<Item(host[i].role, text(i))>> ELSE <<>>
           e == [i \in DOMAIN host |-> SeedEntry(0, q(i))]
           last == SeedEntry(0, <<>>)
           p == TextRows(h) \o <<last>>
<1>1. /\ PlainRows(h) /\ n \in Nat /\ DOMAIN h = 1..n /\ Len(host) = n + 1
      /\ DOMAIN host = 1..(n + 1) /\ host[n + 1] = UserRow(t) /\ \A i \in 1..n : host[i] = h[i]
      /\ IsSequence(host)
  BY PlainBefore
<1>2. HostSeed(t) = FlattenSeq([i \in DOMAIN host |-> q(i)])
  BY DEF HostSeed
<1>3. UserRow(t).role = "user" /\ UserRow(t).turn = t
  BY DEF UserRow, Row
<1>4. ~ Earlier(t, n + 1)
  BY <1>1, <1>3 DEF Earlier
<1>5. ASSUME NEW i \in 1..n PROVE Earlier(t, i)
  <2>1. ~ (host[i].turn = t /\ host[i].role = "user")
    <3> SUFFICES ASSUME host[i].turn = t, host[i].role = "user" PROVE FALSE
      OBVIOUS
    <3>1. i \in DOMAIN host /\ n + 1 \in DOMAIN host /\ i # n + 1
      BY <1>1
    <3> QED BY <1>1, <1>3, <3>1 DEF PlainRows
  <2> QED BY <2>1 DEF Earlier
<1>6. ASSUME NEW i \in 1..n PROVE Alike(Told(h[i]), q(i))
  <2>1. PlainRow(h[i]) /\ IsSequence(h[i].text) /\ h[i].role \in {"user", "assistant"} /\ host[i] = h[i]
    BY <1>1 DEF PlainRows, HostTable
  <2>2. \/ text(i) = h[i].text
        \/ h[i].role = "assistant" /\ h[i].acted /\ \E x : text(i) = Append(h[i].text, x)
    BY <2>1
  <2> HIDE DEF text
  <2>3. Alike(Told(h[i]), IF text(i) # <<>> THEN <<Item(h[i].role, text(i))>> ELSE <<>>)
    BY <2>1, <2>2, SentForRow
  <2>4. q(i) = IF text(i) # <<>> THEN <<Item(h[i].role, text(i))>> ELSE <<>>
    BY <1>5, <2>1
  <2> QED BY <2>3, <2>4
<1>7. q(n + 1) = <<>>
  BY <1>4
<1> HIDE DEF q
<1>8. \A i \in DOMAIN host : e[i].items = q(i)
  BY DEF SeedEntry
<1>9. IsSequence(e) /\ Len(e) = n + 1 /\ DOMAIN e = DOMAIN host
  <2>1. e = [i \in 1..(n + 1) |-> e[i]] /\ DOMAIN e = DOMAIN host /\ n + 1 \in Nat
    BY <1>1
  <2> HIDE DEF e
  <2> QED BY <2>1, IsASequence
<1>10. Items(e) = HostSeed(t)
  <2>1. [i \in DOMAIN e |-> e[i].items] = [i \in DOMAIN host |-> q(i)]
    BY <1>8, <1>9
  <2> HIDE DEF e
  <2> QED BY <1>2, <2>1 DEF Items
<1> HIDE DEF e
<1>11. last.items = <<>> /\ IsSequence(last.items)
  BY None DEF SeedEntry
<1> HIDE DEF last
<1>12. /\ Entries(TextRows(h)) /\ IsSequence(TextRows(h)) /\ Len(TextRows(h)) = n
       /\ \A i \in 1..n : TextRows(h)[i].items = Told(h[i])
       /\ IsSequence(Texted(h))
  BY <1>1, TextedIs
<1>13. Items(p) = Texted(h)
  <2>1. Items(p) = Items(TextRows(h)) \o last.items
    BY <1>11, <1>12, ItemsAndOne
  <2> QED BY <1>11, <1>12, <2>1, JoinedToNone DEF Texted
<1>14. /\ IsSequence(p) /\ Len(p) = n + 1 /\ p[n + 1] = last
       /\ \A i \in 1..n : p[i] = TextRows(h)[i]
  <2>1. IsSequence(<<last>>) /\ Len(<<last>>) = 1 /\ <<last>>[1] = last
    BY Single
  <2> DEFINE d == <<last>>
             c == TextRows(h)
  <2>2. IsSequence(d) /\ Len(d) = 1 /\ d[1] = last /\ IsSequence(c) /\ Len(c) = n /\ p = c \o d
    BY <1>12, <2>1
  <2> HIDE DEF c, d, p
  <2>3. /\ IsSequence(c \o d) /\ Len(c \o d) = Len(c) + Len(d)
        /\ \A i \in 1..Len(c) : (c \o d)[i] = c[i]
        /\ \A i \in 1..Len(d) : (c \o d)[Len(c) + i] = d[i]
    <3>1. IsSequence(c) /\ IsSequence(d)
      BY <2>2
    <3> QED BY <3>1, Joined
  <2>4. 1 \in 1..Len(d)
    BY <2>2
  <2> QED BY <2>2, <2>3, <2>4 DEF c
<1> HIDE DEF p
<1>15. ASSUME NEW i \in 1..(n + 1) PROVE Alike(p[i].items, e[i].items)
  <2>1. CASE i \in 1..n
    <3>1. p[i].items = Told(h[i]) /\ e[i].items = q(i)
      BY <1>1, <1>8, <1>12, <1>14, <2>1
    <3> QED BY <1>6, <2>1, <3>1
  <2>2. CASE i \notin 1..n
    <3>1. i = n + 1
      BY <1>1, <2>2
    <3>2. p[i].items = <<>> /\ e[i].items = <<>>
      BY <1>1, <1>7, <1>8, <1>11, <1>14, <3>1
    <3> QED BY <3>2, None, AlikeSame
  <2> QED BY <2>1, <2>2
<1>16. Entries(p) /\ Entries(e)
  <2>1. DOMAIN p = 1..(n + 1) /\ DOMAIN e = 1..(n + 1)
    BY <1>9, <1>14, SequenceIs
  <2> QED BY <1>9, <1>14, <1>15, <2>1 DEF Entries, Alike
<1>17. Alike(Items(p), Items(e))
  BY <1>9, <1>14, <1>15, <1>16, AlikeItems
<1> QED BY <1>10, <1>13, <1>17

\* The prompt is the message that was stored last.
LEMMA PromptIsLast ==
  ASSUME NEW h, IsSequence(h), NEW row, host = Append(h, row), PlainRows(host), row.role = "user"
  PROVE  Prompt = row.text
<1> DEFINE n == Len(h)
           U == {i \in DOMAIN host : host[i].role = "user"}
<1>1. n \in Nat /\ DOMAIN host = 1..(n + 1) /\ host[n + 1] = row
  BY PlainBefore
<1>2. U \in SUBSET (1..(n + 1)) /\ n + 1 \in U
  BY <1>1
<1>3. Prompt = host[Max(U)].text
  BY DEF Prompt
<1> HIDE DEF U, n
<1>4. Max(U) = n + 1
  BY <1>1, <1>2, GreatestIs
<1> QED BY <1>1, <1>3, <1>4

\* What a run is given then.
LEMMA SendsAlike ==
  ASSUME NEW h, IsSequence(h), NEW t, host = Append(h, UserRow(t)), PlainRows(host),
         turn[t].mode = "send", NEW v
  PROVE  /\ Alike(Known(v, host), SeedMessages(t, v, <<>>))
         /\ Known(v, host) = Known(v, h) \o <<Item("user", <<Piece("user", t)>>)>>
<1> DEFINE a == <<SystemItem(v)>>
           b == Texted(h)
           b1 == HostSeed(t)
           text == <<Piece("user", t)>>
           c == <<Item("user", text)>>
<1>1. Prompt = text /\ IsSequence(text) /\ text # <<>>
  <2>1. UserRow(t).role = "user" /\ UserRow(t).text = text
    BY DEF UserRow, Row
  <2> HIDE DEF text
  <2>2. Prompt = text
    BY <2>1, PromptIsLast
  <2> QED BY <2>2, Single, None DEF text
<1>2. Prompt \o <<>> = text
  BY <1>1, JoinedToNone
<1>3. SeedMessages(t, v, <<>>) = a \o b1 \o c
  BY <1>2 DEF SeedMessages
<1>4. Told(UserRow(t)) = c
  <2>1. UserRow(t).role = "user" /\ UserRow(t).text = text
    BY DEF UserRow, Row
  <2> HIDE DEF text
  <2> QED BY <1>1, <2>1 DEF Told
<1>5. Known(v, host) = (a \o b) \o c /\ Known(v, h) = a \o b
  <2>1. Known(v, host) = Known(v, h) \o Told(UserRow(t))
    BY KnownMore
  <2> QED BY <1>4, <2>1 DEF Known
<1>6. Alike(a, a) /\ Alike(c, c)
  BY SingleIs, AlikeSame
<1>7. Alike(b, b1)
  BY SeedAlike
<1> HIDE DEF a, b, b1, c
<1>8. Alike((a \o b) \o c, (a \o b1) \o c)
  BY <1>6, <1>7, AlikeJoined
<1> QED BY <1>3, <1>5, <1>8 DEF c

-----------------------------------------------------------------------------
(* A chat whose two stores tell the same.                                  *)

\* The view of the record is the beginning of what is known, and what it
\* lacks no one has answered.
Follows(v, w) == \E rest : IsSequence(rest) /\ w = v \o rest /\ NoReply(rest)

\* The record's entries are messages of runs and their compactions, v is the
\* view through these, and a text of a user that is not in it is nowhere.
Viewed(rec, v, lead) ==
  /\ \E covered : RunsOwn(rec, v, <<Summary(covered)>>)
  /\ \A i \in DOMAIN rec : rec[i].action # "host_revision"
  /\ rec # <<>> => Led(LoadItems(rec), lead)
  /\ \A B \in SUBSET UserTexts : Without(v, B) => RowsWithout(rec, B)

\* The run's messages that are not in the record yet.
Waiting(r) == SubSeq(r.items, Durable(r) + 1, Len(r.items))

\* The record and what waits are what the host's table tells.
Working ==
  /\ LoopView(record) \o Waiting(run) = Known(system, host) /\ NoReply(Waiting(run))
  /\ Led(run.items, SystemItem(system))
  /\ run.rounds > 0 => run.pending = <<>>
  /\ \A B \in SUBSET UserTexts : Without(Known(system, host), B) => RunWithout(run, B)

\* A turn of a plain chat.
Quiet(r) ==
  /\ r.mode \in {"none", "send", "resume"} /\ (r.phase # "unsent" => r.mode # "none")
  /\ r.phase \in {"unsent", "said"} => r.said = <<>> /\ ~ r.acted
  /\ r.phase = "open" => r.said = <<>>
  /\ r.phase = "ended" /\ r.said = <<>> => ~ r.acted

Tidy == unwound = <<>> /\ inbox = <<>> /\ ~ overlapped /\ \A t \in Turn : Quiet(turn[t])

ReplyRow(t) == Row(t, "assistant", turn[t].said, turn[t].acted)

\* How the record's view stands to what the host's table tells, turn by turn:
\* at rest, at the end of a stream, after a message, before a resumed run.
Joining ==
  /\ run # NoWork => Working
  /\ run = NoWork /\ (\A t \in Turn : turn[t].phase \notin {"said", "ended"}) =>
       Follows(LoopView(record), Known(system, host))
  /\ \A t \in Turn :
       /\ turn[t].phase = "ended" =>
            Follows(LoopView(record), Known(system, Append(host, ReplyRow(t))))
       /\ turn[t].phase = "said" /\ turn[t].mode = "send" =>
            \E h : IsSequence(h) /\ host = Append(h, UserRow(t))
                   /\ Follows(LoopView(record), Known(system, h))
       /\ turn[t].phase = "said" /\ turn[t].mode = "resume" =>
            LoopView(record) = Known(system, host)

Faithful ==
  Tidy /\ PlainRows(host) /\ Viewed(record, LoopView(record), SystemItem(system)) /\ Joining

\* The view is what the record's entries add up to.
LEMMA ViewIs ==
  ASSUME NEW rec, NEW v, NEW lead, Viewed(rec, v, lead)
  PROVE  LoopView(rec) = v /\ IsSequence(v)
<1>1. PICK covered : RunsOwn(rec, v, <<Summary(covered)>>)
  BY DEF Viewed
<1> QED BY <1>1 DEF RunsOwn, LoopView, Folded

\* Only one turn is under way.
LEMMA OnlyOne ==
  ASSUME Turns, Tidy, NEW t \in Turn, turn[t].phase \in {"said", "open", "ended", "stored"},
         NEW s \in Turn, s # t
  PROVE  turn[s].phase \in {"unsent", "done", "dead"}
<1>0. \A n \in Turn : turn[n].mode # "early"
  BY DEF Tidy, Quiet
<1>1. s < t \/ t < s
  BY TurnIs
<1>2. CASE s < t
  BY <1>0, <1>2 DEF Turns, Over
<1>3. CASE t < s
  <2>1. turn[s].phase # "unsent" => Over(t)
    BY <1>0, <1>3 DEF Turns
  <2> QED BY <2>1 DEF Over
<1> QED BY <1>1, <1>2, <1>3

\* A turn of a plain chat that moves.
LEMMA TidyMoves ==
  ASSUME Turns, Tidy, UNCHANGED <<unwound, overlapped>>, inbox' = <<>>,
         NEW t \in Turn, NEW r, turn' = [turn EXCEPT ![t] = r], Quiet(r)
  PROVE  Tidy' /\ turn'[t] = r /\ \A s \in Turn : s # t => turn'[s] = turn[s]
<1>1. turn'[t] = r /\ \A s \in Turn : s # t => turn'[s] = turn[s]
  BY DEF Turns
<1> QED BY <1>1 DEF Tidy

\* Messages that are stored are added to the view.
LEMMA ViewGrows ==
  ASSUME NEW rec, Ordered(rec), NEW v, NEW lead, Viewed(rec, v, lead),
         NEW s, IsSequence(s), NEW n \in Nat, \A i \in DOMAIN s : s[i].kind # "steer",
         rec = <<>> => s = <<>> \/ Led(s, lead),
         \A B \in SUBSET UserTexts :
           Without(v \o HostView(s), B) => RowsWithout(rec \o Numbered(n, s), B)
  PROVE  /\ Viewed(rec \o Numbered(n, s), v \o HostView(s), lead)
         /\ LoadItems(rec \o Numbered(n, s)) = LoadItems(rec) \o s
<1> DEFINE q == Numbered(n, s)
           w == v \o HostView(s)
<1>1. PICK covered : RunsOwn(rec, v, <<Summary(covered)>>)
  BY DEF Viewed
<1>2. rec # <<>> => Led(LoadItems(rec), lead)
  BY DEF Viewed
<1>3. /\ RunsOwn(rec \o q, w, <<Summary(covered)>>)
      /\ LoadItems(rec \o q) = LoadItems(rec) \o s
      /\ rec \o q # <<>> => Led(LoadItems(rec \o q), lead)
  BY <1>1, <1>2, OwnGrows
<1>4. IsSequence(q) /\ \A i \in DOMAIN q : q[i].action = "none"
  BY NumberedOwn
<1>5. IsSequence(rec)
  BY DEF Ordered, Entries
<1> HIDE DEF q, w
<1>6. \A i \in DOMAIN (rec \o q) : (rec \o q)[i].action # "host_revision"
  <2>1. /\ \A i \in DOMAIN (rec \o q) : (rec \o q)[i] = IF i \in DOMAIN rec THEN rec[i] ELSE q[i - Len(rec)]
        /\ \A i \in DOMAIN (rec \o q) : i \notin DOMAIN rec => i - Len(rec) \in DOMAIN q
    BY <1>4, <1>5, JoinedDomain
  <2> QED BY <1>4, <2>1 DEF Viewed
<1>7. \A B \in SUBSET UserTexts : Without(w, B) => RowsWithout(rec \o q, B)
  BY DEF w, q
<1>8. Viewed(rec \o q, w, lead)
  BY <1>3, <1>6, <1>7 DEF Viewed
<1> QED BY <1>3, <1>8 DEF q, w

\* A compaction leaves the view.
LEMMA ViewRewritten ==
  ASSUME NEW rec, Ordered(rec), NEW v, NEW lead, Viewed(rec, v, lead),
         NEW s, IsSequence(s), NEW e, e.seq \in Nat, e.items = <<>>, OwnCompaction(e),
         e.count = Len(s), Led(s, lead), NEW covered, Holds(s, Item("user", <<Summary(covered)>>)),
         \A B \in SUBSET UserTexts : Without(v, B) => RowsWithout(rec \o Rewrite(e, s), B)
  PROVE  Viewed(rec \o Rewrite(e, s), v, lead)
<1> DEFINE t == Numbered(e.seq + 1, s)
           d == <<e>>
           q == Rewrite(e, s)
           x == <<Summary(covered)>>
<1>1. PICK before : RunsOwn(rec, v, <<Summary(before)>>)
  BY DEF Viewed
<1>2. RunsOwn(rec \o q, v, x) /\ Led(LoadItems(rec \o q), lead)
  <2> DEFINE y == <<Summary(before)>>
  <2>1. RunsOwn(rec, v, y) /\ Holds(s, Item("user", x))
    BY <1>1
  <2> HIDE DEF x, y
  <2> QED BY <2>1, OwnRewritten
<1>3. IsSequence(t) /\ \A i \in DOMAIN t : t[i].action = "none"
  <2>1. e.seq + 1 \in Nat
    OBVIOUS
  <2> QED BY <2>1, NumberedOwn
<1>4. IsSequence(d) /\ \A i \in DOMAIN d : d[i] = e
  BY Single
<1>5. IsSequence(rec) /\ e.action # "host_revision"
  BY DEF Ordered, Entries, OwnCompaction
<1>6. q = d \o t
  BY DEF Rewrite
<1> HIDE DEF q, d, t, x
<1>7. IsSequence(q) /\ \A i \in DOMAIN q : q[i].action # "host_revision"
  <2>1. /\ \A i \in DOMAIN (d \o t) : (d \o t)[i] = IF i \in DOMAIN d THEN d[i] ELSE t[i - Len(d)]
        /\ \A i \in DOMAIN (d \o t) : i \notin DOMAIN d => i - Len(d) \in DOMAIN t
        /\ IsSequence(d \o t)
    BY <1>3, <1>4, JoinedDomain, JoinedIs
  <2> QED BY <1>3, <1>4, <1>5, <1>6, <2>1
<1>8. \A i \in DOMAIN (rec \o q) : (rec \o q)[i].action # "host_revision"
  <2>1. /\ \A i \in DOMAIN (rec \o q) : (rec \o q)[i] = IF i \in DOMAIN rec THEN rec[i] ELSE q[i - Len(rec)]
        /\ \A i \in DOMAIN (rec \o q) : i \notin DOMAIN rec => i - Len(rec) \in DOMAIN q
    BY <1>5, <1>7, JoinedDomain
  <2> QED BY <1>7, <2>1 DEF Viewed
<1>9. \A B \in SUBSET UserTexts : Without(v, B) => RowsWithout(rec \o q, B)
  BY DEF q
<1>10. Viewed(rec \o q, v, lead)
  BY <1>2, <1>8, <1>9 DEF Viewed, x
<1> QED BY <1>10 DEF q

-----------------------------------------------------------------------------
(* The steps of a plain chat.                                              *)

\* A chat that is well kept.
Plainly == Turns /\ HostRows /\ Mirrors /\ Faithful

\* What the record and the run have not got, nothing on the sidecar's side
\* has.
LEMMA FaithUnheard ==
  ASSUME Mirrors, Tidy, NEW B, RowsWithout(record, B), run # NoWork => RunWithout(run, B)
  PROVE  Unheard(record, unwound, inbox, run, B)
<1>1. unwound = <<>> /\ inbox = <<>> /\ Ordered(record)
  BY DEF Tidy, Mirrors
<1> QED BY <1>1, NothingHeard DEF Unheard

\* The only turn under way moves on, or its run does.
LEMMA MoveJoins ==
  ASSUME Turns, Tidy, NEW t \in Turn, turn[t].phase \in {"said", "open", "ended", "stored"},
         \A s \in Turn : s # t => turn'[s] = turn[s],
         turn'[t].phase \in {"open", "ended", "stored", "done", "dead"},
         run' # NoWork => turn'[t].phase # "ended" /\ Working',
         turn'[t].phase = "ended" =>
           Follows(LoopView(record'), Known(system', Append(host', ReplyRow(t)'))),
         run' = NoWork /\ turn'[t].phase # "ended" =>
           Follows(LoopView(record'), Known(system', host'))
  PROVE  Joining'
<1>1. \A s \in Turn : s # t => turn'[s].phase \in {"unsent", "done", "dead"}
  BY OnlyOne
<1>2. run' = NoWork /\ (\A s \in Turn : turn'[s].phase \notin {"said", "ended"}) =>
        Follows(LoopView(record'), Known(system', host'))
  OBVIOUS
<1>3. ASSUME NEW s \in Turn
      PROVE  /\ turn'[s].phase = "ended" =>
                  Follows(LoopView(record'), Known(system', Append(host', ReplyRow(s)')))
             /\ turn'[s].phase # "said"
  BY <1>1
<1> QED BY <1>2, <1>3 DEF Joining

\* A chat whose rows, record and prompt are left as they were.
LEMMA LeavesRecord ==
  ASSUME Faithful, UNCHANGED <<record, system>>
  PROVE  /\ Viewed(record, LoopView(record), SystemItem(system))'
         /\ LoopView(record') = LoopView(record)
BY DEF Faithful

\* The reply that was streamed is stored.
LEMMA StoreFaithful ==
  ASSUME Plainly, NEW t \in Turn, StoreReply(t)
  PROVE  Faithful'
<1> DEFINE r == [turn[t] EXCEPT !.phase = "stored"]
<1>1. /\ turn[t].phase = "ended" /\ host' = Append(host, ReplyRow(t))
      /\ turn' = [turn EXCEPT ![t].phase = "stored"]
      /\ UNCHANGED <<record, run, unwound, inbox, system, overlapped>>
  BY DEF StoreReply, ReplyRow
<1>2. Turns /\ Tidy /\ PlainRows(host) /\ Joining /\ HostTable(host)
  BY DEF Plainly, Faithful, PlainRows
<1>3. turn[t] \in TurnRecord /\ turn[t].said \in SaidTexts /\ turn[t].acted \in BOOLEAN
  BY <1>2 DEF Turns, TurnRecord
<1>4. Tidy' /\ turn'[t].phase = "stored" /\ \A s \in Turn : s # t => turn'[s] = turn[s]
  <2>1. turn' = [turn EXCEPT ![t] = r] /\ r.phase = "stored" /\ r.mode = turn[t].mode
    BY <1>1, <1>2, <1>3 DEF TurnRecord, Turns
  <2>2. Quiet(r)
    <3>1. Quiet(turn[t])
      BY <1>2 DEF Tidy
    <3> HIDE DEF r
    <3> QED BY <1>1, <2>1, <3>1 DEF Quiet
  <2> HIDE DEF r
  <2>3. inbox' = <<>>
    BY <1>1, <1>2 DEF Tidy
  <2>4. UNCHANGED <<unwound, overlapped>>
    BY <1>1
  <2> QED BY <1>2, <2>1, <2>2, <2>3, <2>4, TidyMoves
<1>5. run = NoWork
  <2>1. ASSUME run # NoWork PROVE FALSE
    <3>1. run.turn \in Turn /\ turn[run.turn].phase = "open"
      BY <1>2, <2>1 DEF Turns, RunsTurn
    <3> QED BY <1>1, <1>2, <3>1, OnlyOne
  <2> QED BY <2>1
<1>6. PlainRows(host')
  <2> DEFINE row == ReplyRow(t)
  <2>1. IsSequence(turn[t].said)
    BY <1>3, SaidIsNot
  <2>2. /\ HostTable(host') /\ Len(host) \in Nat
        /\ DOMAIN host = 1..Len(host) /\ DOMAIN host' = 1..(Len(host) + 1)
        /\ \A i \in DOMAIN host : host'[i] = host[i]
        /\ host'[Len(host) + 1] = row
    <3>1. /\ HostTable(host') /\ Len(host) \in Nat
          /\ DOMAIN host = 1..Len(host) /\ DOMAIN host' = 1..(Len(host) + 1)
          /\ \A i \in DOMAIN host : host'[i] = host[i]
      BY <1>1, <1>2, <2>1, HostGrows DEF ReplyRow
    <3>2. host'[Len(host) + 1] = row
      BY <1>1, <1>2 DEF HostTable, IsSequence
    <3> QED BY <3>1, <3>2
  <2>3. row.role = "assistant" /\ PlainRow(row)
    <3>1. row.role = "assistant" /\ row.text = turn[t].said /\ row.acted = turn[t].acted
      BY DEF ReplyRow, Row
    <3>2. Quiet(turn[t])
      BY <1>2 DEF Tidy
    <3> HIDE DEF row
    <3> QED BY <1>1, <1>3, <3>1, <3>2 DEF PlainRow, Quiet
  <2> HIDE DEF row
  <2> QED BY <1>2, <2>2, <2>3 DEF PlainRows
<1>7. Joining'
  <2>1. Follows(LoopView(record'), Known(system', host'))
    BY <1>1, <1>2 DEF Joining
  <2>2. turn'[t].phase # "ended"
    BY <1>4
  <2>3. run' = NoWork
    BY <1>1, <1>5
  <2> QED BY <1>1, <1>2, <1>4, <2>1, <2>2, <2>3, MoveJoins
<1>8. Faithful
  BY DEF Plainly
<1> QED BY <1>1, <1>4, <1>6, <1>7, <1>8, LeavesRecord DEF Faithful

\* The marker is taken away.
LEMMA ClearFaithful ==
  ASSUME Plainly, NEW t \in Turn, ClearTurnActive(t)
  PROVE  Faithful'
<1> DEFINE r == [turn[t] EXCEPT !.phase = "done"]
<1>1. /\ turn[t].phase = "stored"
      /\ turn' = [turn EXCEPT ![t].phase = "done"]
      /\ UNCHANGED <<host, record, run, unwound, inbox, system, overlapped>>
  BY DEF ClearTurnActive
<1>2. Turns /\ Tidy /\ PlainRows(host) /\ Joining
  BY DEF Plainly, Faithful
<1>3. turn[t] \in TurnRecord
  BY <1>2 DEF Turns
<1>4. Tidy' /\ turn'[t].phase = "done" /\ \A s \in Turn : s # t => turn'[s] = turn[s]
  <2>1. turn' = [turn EXCEPT ![t] = r] /\ r.phase = "done" /\ r.mode = turn[t].mode
    BY <1>1, <1>2, <1>3 DEF TurnRecord, Turns
  <2>2. Quiet(r)
    <3>1. Quiet(turn[t])
      BY <1>2 DEF Tidy
    <3> HIDE DEF r
    <3> QED BY <1>1, <2>1, <3>1 DEF Quiet
  <2> HIDE DEF r
  <2>3. inbox' = <<>>
    BY <1>1, <1>2 DEF Tidy
  <2>4. UNCHANGED <<unwound, overlapped>>
    BY <1>1
  <2> QED BY <1>2, <2>1, <2>2, <2>3, <2>4, TidyMoves
<1>5. run = NoWork
  <2>1. ASSUME run # NoWork PROVE FALSE
    <3>1. run.turn \in Turn /\ turn[run.turn].phase = "open"
      BY <1>2, <2>1 DEF Turns, RunsTurn
    <3> QED BY <1>1, <1>2, <3>1, OnlyOne
  <2> QED BY <2>1
<1>6. Joining'
  <2>1. \A s \in Turn : turn[s].phase \notin {"said", "ended"}
    BY <1>1, <1>2, OnlyOne
  <2>2. Follows(LoopView(record'), Known(system', host'))
    BY <1>1, <1>2, <1>5, <2>1 DEF Joining
  <2>3. turn'[t].phase # "ended" /\ run' = NoWork
    BY <1>1, <1>4, <1>5
  <2> QED BY <1>1, <1>2, <1>4, <2>2, <2>3, MoveJoins
<1>7. Faithful
  BY DEF Plainly
<1> QED BY <1>1, <1>2, <1>4, <1>6, <1>7, LeavesRecord DEF Faithful

\* When no turn is under way, none is that comes after one to come.
LEMMA AllRest ==
  ASSUME Turns, NEW t \in Turn, Fresh(t), \A s \in 1..(t - 1) : Over(s)
  PROVE  /\ \A s \in Turn : turn[s].phase \in {"unsent", "done", "dead"}
         /\ turn[t].phase = "unsent"
<1>1. turn[t].phase = "unsent"
  BY DEF Fresh
<1>2. ASSUME NEW s \in Turn PROVE turn[s].phase \in {"unsent", "done", "dead"}
  <2>1. CASE s < t
    BY <2>1, TurnIs DEF Over
  <2>2. CASE s = t
    BY <1>1, <2>2
  <2>3. CASE t < s
    <3>1. turn[s].phase # "unsent" => Streamed(t)
      BY <2>3 DEF Turns
    <3> QED BY <1>1, <3>1 DEF Streamed
  <2> QED BY <2>1, <2>2, <2>3, TurnIs
<1> QED BY <1>1, <1>2

\* A turn of a plain chat that begins.
LEMMA BeginsTidy ==
  ASSUME Turns, Tidy, UNCHANGED <<unwound, inbox, overlapped>>, NEW t \in Turn, Fresh(t),
         NEW mode \in {"send", "resume"}, Begin(t, mode)
  PROVE  /\ Tidy' /\ turn'[t].phase = "said" /\ turn'[t].mode = mode
         /\ \A s \in Turn : s # t => turn'[s] = turn[s]
<1> DEFINE r == [turn[t] EXCEPT !.mode = mode, !.phase = "said"]
<1>1. turn[t] \in TurnRecord /\ turn[t].phase = "unsent"
  BY DEF Turns, Fresh
<1>2. turn' = [turn EXCEPT ![t] = r] /\ r.phase = "said" /\ r.mode = mode
      /\ r.said = turn[t].said /\ r.acted = turn[t].acted
  BY <1>1 DEF TurnRecord, Turns, Begin
<1>3. Quiet(r)
  <2>1. Quiet(turn[t])
    BY DEF Tidy
  <2> HIDE DEF r
  <2> QED BY <1>1, <1>2, <2>1 DEF Quiet
<1> HIDE DEF r
<1>4. inbox' = <<>>
  BY DEF Tidy
<1>5. UNCHANGED <<unwound, overlapped>>
  OBVIOUS
<1> QED BY <1>2, <1>3, <1>4, <1>5, TidyMoves

\* A message is sent.
LEMMA SayFaithful ==
  ASSUME Plainly, NEW t \in Turn, Say(t), plain'
  PROVE  Faithful'
<1>1. /\ Fresh(t) /\ run = NoWork /\ Begin(t, "send")
      /\ \A s \in 1..(t - 1) : Over(s)
      /\ host' = Append(host, UserRow(t))
      /\ UNCHANGED <<record, run, unwound, inbox, system, overlapped>>
  BY DEF Say, UserRow
<1>2. Turns /\ Tidy /\ PlainRows(host) /\ Joining /\ HostTable(host) /\ HostRows
  BY DEF Plainly, Faithful, PlainRows
<1>3. /\ \A s \in Turn : turn[s].phase \in {"unsent", "done", "dead"}
      /\ turn[t].phase = "unsent"
  BY <1>1, <1>2, AllRest
<1>4. /\ Tidy' /\ turn'[t].phase = "said" /\ turn'[t].mode = "send"
      /\ \A s \in Turn : s # t => turn'[s] = turn[s]
  BY <1>1, <1>2, BeginsTidy
<1>5. PlainRows(host')
  <2> DEFINE row == UserRow(t)
             text == <<Piece("user", t)>>
  <2>1. IsSequence(text)
    BY Single
  <2>2. /\ HostTable(host') /\ Len(host) \in Nat
        /\ DOMAIN host = 1..Len(host) /\ DOMAIN host' = 1..(Len(host) + 1)
        /\ \A i \in DOMAIN host : host'[i] = host[i]
        /\ host'[Len(host) + 1] = row
    <3>1. host' = Append(host, Row(t, "user", text, FALSE))
      BY <1>1 DEF UserRow
    <3> HIDE DEF text
    <3>2. /\ HostTable(host') /\ Len(host) \in Nat
          /\ DOMAIN host = 1..Len(host) /\ DOMAIN host' = 1..(Len(host) + 1)
          /\ \A i \in DOMAIN host : host'[i] = host[i]
      BY <1>2, <2>1, <3>1, HostGrows
    <3>3. host'[Len(host) + 1] = row
      BY <1>1, <1>2 DEF HostTable, IsSequence
    <3> QED BY <3>2, <3>3
  <2>3. row.role = "user" /\ row.text = text /\ row.turn = t /\ PlainRow(row)
    BY DEF UserRow, Row, PlainRow
  <2>4. ASSUME NEW i \in DOMAIN host, host[i].role = "user" PROVE host[i].turn # t
    <3>1. host[i].text = <<Piece("user", host[i].turn)>>
      BY <1>2, <2>4 DEF PlainRows, PlainRow
    <3>2. text \in Unsent
      BY <1>3 DEF Unsent
    <3>3. host[i].text \notin Unsent
      BY <1>2 DEF HostRows
    <3> QED BY <3>1, <3>2, <3>3
  <2> HIDE DEF row, text
  <2> QED BY <1>2, <2>2, <2>3, <2>4 DEF PlainRows
<1>6. Follows(LoopView(record), Known(system, host))
  BY <1>1, <1>2, <1>3 DEF Joining
<1>7. Joining'
  <2>1. IsSequence(host)
    BY <1>2 DEF HostTable
  <2>2. \E h : IsSequence(h) /\ host' = Append(h, UserRow(t))
               /\ Follows(LoopView(record'), Known(system', h))
    BY <1>1, <1>6, <2>1
  <2>3. ASSUME NEW s \in Turn
        PROVE  /\ turn'[s].phase # "ended"
               /\ turn'[s].phase = "said" => s = t /\ turn'[s].mode = "send"
    BY <1>3, <1>4
  <2>4. ~ (\A s \in Turn : turn'[s].phase \notin {"said", "ended"})
    BY <1>4
  <2>5. UserRow(t)' = UserRow(t)
    BY DEF UserRow
  <2>6. run' = NoWork
    BY <1>1
  <2> QED BY <2>2, <2>3, <2>4, <2>5, <2>6 DEF Joining
<1>8. Faithful
  BY DEF Plainly
<1> QED BY <1>1, <1>4, <1>5, <1>7, <1>8, LeavesRecord DEF Faithful

\* What has the last message that was sent is not the beginning of what was
\* known before.
LEMMA EndsWithPrompt ==
  ASSUME PlainRows(host), host # <<>>, Last(host).role # "assistant",
         NEW v, NEW w, Follows(v, Known(w, host)), IsSequence(v)
  PROVE  Prompt \in UserTexts /\ (~ Without(v, {Prompt}) => v = Known(w, host))
<1> DEFINE n == Len(host) - 1
           h == SubSeq(host, 1, n)
           row == host[n + 1]
           text == row.text
           k == Known(w, h)
<1>1. HostTable(host) /\ IsSequence(host) /\ n \in Nat /\ n + 1 = Len(host)
      /\ n \in 0..(Len(host) - 1) /\ DOMAIN host = 1..(n + 1)
  <2>1. HostTable(host) /\ IsSequence(host)
    BY DEF PlainRows, HostTable
  <2>2. Len(host) \in Nat /\ Len(host) # 0 /\ DOMAIN host = 1..Len(host)
    BY <2>1, SequenceIs, EmptySeq
  <2> QED BY <2>1, <2>2
<1>2. row = Last(host) /\ row.role = "user" /\ text = <<Piece("user", row.turn)>>
      /\ row.turn \in Turn /\ row.turn \in Nat
  <2>1. row = Last(host)
    BY <1>1 DEF Last
  <2>2. row.role = "user" /\ row.turn \in Turn
    BY <1>1, <2>1 DEF HostTable
  <2>3. PlainRow(row)
    BY <1>1 DEF PlainRows
  <2> HIDE DEF row
  <2> QED BY <2>1, <2>2, <2>3, TurnIs DEF PlainRow
<1>3. host = Append(h, row) /\ IsSequence(h) /\ Len(h) = n /\ DOMAIN h = 1..n
      /\ \A i \in 1..n : h[i] = host[i]
  <2> HIDE DEF n
  <2>0. n \in 0..Len(host) /\ 1 \in Nat \ {0} /\ (1 <= n => n - 1 + 1 = n)
    BY <1>1
  <2>1. SubSeq(host, 1, n + 1) = h \o <<row>>
    BY <1>1, NextPrefix
  <2>2. /\ IsSequence(h) /\ Len(h) = IF 1 <= n THEN n - 1 + 1 ELSE 0
        /\ \A i \in 1..Len(h) : h[i] = host[1 + i - 1]
    BY <1>1, <2>0, Cut
  <2>3. SubSeq(host, 1, n + 1) = host
    BY <1>1, WholePrefix
  <2>4. Append(h, row) = h \o <<row>>
    BY <2>2, AppendJoins
  <2>5. Len(h) = n /\ \A i \in 1..n : 1 + i - 1 = i
    <3> HIDE DEF h
    <3> QED BY <1>1, <2>2
  <2>6. DOMAIN h = 1..Len(h)
    BY <2>2, SequenceIs
  <2> QED BY <2>1, <2>2, <2>3, <2>4, <2>5, <2>6
<1> HIDE DEF n, h
<1>4. Prompt = text
  BY <1>2, <1>3, PromptIsLast
<1>5. text \in UserTexts
  BY <1>2 DEF UserTexts
<1>6. ASSUME NEW i \in 1..n PROVE h[i].text # text
  <2>1. i \in DOMAIN host /\ n + 1 \in DOMAIN host /\ i # n + 1 /\ h[i] = host[i]
    BY <1>1, <1>3
  <2>2. PlainRow(host[i]) /\ (host[i].role = "user" => host[i].turn # row.turn)
    BY <1>2, <2>1 DEF PlainRows
  <2>3. CASE host[i].role = "user"
    <3>1. host[i].text = <<Piece("user", host[i].turn)>>
      BY <2>2, <2>3 DEF PlainRow
    <3>2. Piece("user", host[i].turn) # Piece("user", row.turn)
      BY <2>2, <2>3 DEF Piece
    <3> QED BY <1>2, <2>1, <3>1, <3>2
  <2>4. CASE host[i].role # "user"
    <3>1. host[i].text \in SaidTexts
      BY <2>2, <2>4 DEF PlainRow
    <3> QED BY <1>5, <2>1, <3>1, SaidIsNot
  <2> QED BY <2>3, <2>4
<1> HIDE DEF text
<1>7. Without(k, {text}) /\ IsSequence(k)
  <2>1. {text} \in SUBSET UserTexts
    BY <1>5
  <2>2. \A i \in DOMAIN h : h[i].text \notin {text}
    BY <1>3, <1>6
  <2> QED BY <1>3, <2>1, <2>2, KnownWithout, KnownIs
<1> DEFINE last == <<Item("user", text)>>
<1>8. Known(w, host) = k \o last
  <2> HIDE DEF row
  <2>1. Known(w, Append(h, row)) = k \o Told(row)
    BY <1>3, KnownMore
  <2>2. text # <<>>
    BY <1>2 DEF text
  <2>3. Told(row) = last
    BY <1>2, <2>2 DEF Told, text
  <2> QED BY <1>3, <2>1, <2>3
<1>9. PICK rest : IsSequence(rest) /\ Known(w, host) = v \o rest /\ NoReply(rest)
  BY DEF Follows
<1> HIDE DEF k, last, row
<1>10. IsSequence(last) /\ Len(last) = 1
  BY Single DEF last
<1> DEFINE a == Len(k)
           b == Len(v)
           c == Len(rest)
<1>11. a \in Nat /\ b \in Nat /\ c \in Nat /\ a + 1 = b + c
  <2>1. Len(k \o last) = Len(k) + Len(last)
    BY <1>7, <1>10, Joined
  <2>2. Len(v \o rest) = b + c
    BY <1>9, Joined
  <2> QED BY <1>7, <1>8, <1>9, <1>10, <2>1, <2>2, SequenceIs
<1>12. ASSUME c = 0 PROVE v = Known(w, host)
  <2>1. rest = <<>>
    BY <1>9, <1>12, EmptySeq
  <2>2. v \o <<>> = v
    BY JoinedToNone
  <2> QED BY <1>9, <2>1, <2>2
<1>13. ASSUME c # 0 PROVE Without(v, {Prompt})
  <2> HIDE DEF a, b, c
  <2>1. b <= a
    BY <1>11, <1>13
  <2>2. ASSUME NEW i \in 1..b PROVE v[i] = k[i] /\ i \in 1..a
    <3>1. i \in 1..a
      BY <1>11, <2>1
    <3>2. (k \o last)[i] = k[i]
      BY <1>7, <1>10, <3>1, Joined DEF a
    <3>3. (v \o rest)[i] = v[i]
      BY <1>9, Joined DEF b
    <3> QED BY <1>8, <1>9, <3>1, <3>2, <3>3
  <2>3. DOMAIN v = 1..b /\ DOMAIN k = 1..a
    BY <1>7, SequenceIs DEF a, b
  <2>4. Without(v, {text})
    BY <1>7, <2>2, <2>3 DEF Without
  <2> QED BY <1>4, <2>4
<1> QED BY <1>4, <1>5, <1>12, <1>13

\* A turn is resumed.
LEMMA ResumeFaithful ==
  ASSUME Plainly, NEW t \in Turn, Resume(t), plain'
  PROVE  Faithful'
<1>1. /\ Fresh(t) /\ run = NoWork /\ Begin(t, "resume")
      /\ \A s \in 1..(t - 1) : Over(s)
      /\ host # <<>> /\ Last(host).role # "assistant"
      /\ Prompt \in Texts(record)
      /\ UNCHANGED <<host, record, run, unwound, inbox, system, overlapped>>
  BY DEF Resume, Interrupted
<1>2. Turns /\ Tidy /\ PlainRows(host) /\ Joining
  BY DEF Plainly, Faithful
<1>3. \A s \in Turn : turn[s].phase \in {"unsent", "done", "dead"}
  BY <1>1, <1>2, AllRest
<1>4. /\ Tidy' /\ turn'[t].phase = "said" /\ turn'[t].mode = "resume"
      /\ \A s \in Turn : s # t => turn'[s] = turn[s]
  BY <1>1, <1>2, BeginsTidy
<1>5. Follows(LoopView(record), Known(system, host))
  BY <1>1, <1>2, <1>3 DEF Joining
<1>6. LoopView(record) = Known(system, host)
  <2> DEFINE v == LoopView(record)
             lead == SystemItem(system)
  <2>1. Viewed(record, v, lead)
    BY DEF Plainly, Faithful
  <2> HIDE DEF lead
  <2>2. IsSequence(v)
    BY <2>1, ViewIs
  <2>3. Follows(v, Known(system, host))
    BY <1>5
  <2> HIDE DEF v
  <2>4. Prompt \in UserTexts /\ (~ Without(v, {Prompt}) => v = Known(system, host))
    BY <1>1, <1>2, <2>2, <2>3, EndsWithPrompt
  <2>5. ASSUME Without(v, {Prompt}) PROVE FALSE
    <3>1. {Prompt} \in SUBSET UserTexts
      BY <2>4
    <3>2. RowsWithout(record, {Prompt})
      BY <2>1, <2>5, <3>1 DEF Viewed
    <3>3. Texts(record) \cap {Prompt} = {}
      BY <3>2, TextsWithout
    <3> QED BY <1>1, <3>3
  <2> QED BY <2>4, <2>5 DEF v
<1>7. Joining'
  <2>1. ASSUME NEW s \in Turn
        PROVE  /\ turn'[s].phase # "ended"
               /\ turn'[s].phase = "said" => turn'[s].mode = "resume"
    BY <1>3, <1>4
  <2>2. ~ (\A s \in Turn : turn'[s].phase \notin {"said", "ended"})
    BY <1>4
  <2>3. run' = NoWork
    BY <1>1
  <2>4. LoopView(record') = Known(system', host')
    BY <1>1, <1>6
  <2> QED BY <2>1, <2>2, <2>3, <2>4 DEF Joining
<1>8. Faithful /\ PlainRows(host')
  BY <1>1, <1>2 DEF Plainly
<1> QED BY <1>1, <1>4, <1>7, <1>8, LeavesRecord DEF Faithful

\* What a host may send for messages that a plain table tells.
LEMMA AlikeShown ==
  ASSUME NEW w, NEW k, In(k, Shown(w)), NEW m, Alike(k, m), NEW covered
  PROVE  \A i \in 1..Len(m) :
           HostVisible(m[i]) /\ (m[i].kind = "user" => m[i].text # <<Summary(covered)>>)
<1> SUFFICES ASSUME NEW i \in 1..Len(m)
             PROVE  HostVisible(m[i]) /\ (m[i].kind = "user" => m[i].text # <<Summary(covered)>>)
  OBVIOUS
<1>1. i \in 1..Len(k) /\ DOMAIN k = 1..Len(k)
  BY SequenceIs DEF Alike
<1>2. k[i] \in Shown(w) /\ m[i].kind = k[i].kind /\ (k[i].kind # "assistant" => m[i] = k[i])
  BY <1>1 DEF In, Alike, Agrees
<1>3. HostVisible(k[i]) /\ (k[i].kind = "user" => k[i].text # <<Summary(covered)>>)
  BY <1>2, ShownIs
<1> QED BY <1>2, <1>3 DEF HostVisible

\* What a record gives back is led by the prompt if its messages are.
LEMMA PriorLed ==
  ASSUME NEW rec, Ordered(rec), NEW v, Led(LoadItems(rec), SystemItem(v))
  PROVE  Led(Bares(LoadItems(rec)), SystemItem(v))
<1> DEFINE items == LoadItems(rec)
<1>1. /\ IsSequence(items) /\ Len(items) \in Nat /\ \A i \in 1..Len(items) : Bares(items)[i] = Bare(items[i])
      /\ (Bares(items) = <<>> <=> items = <<>>)
  BY PriorIs
<1>2. items # <<>> /\ items[1] = SystemItem(v)
  BY DEF Led
<1> HIDE DEF items
<1>3. 1 \in 1..Len(items)
  BY <1>1, <1>2, EmptySeq
<1>4. Bare(SystemItem(v)) = SystemItem(v)
  BY DEF Bare, SystemItem, Item
<1>5. Bares(items) # <<>> /\ Bares(items)[1] = SystemItem(v)
  BY <1>1, <1>2, <1>3, <1>4
<1> QED BY <1>5 DEF Led, items

\* What is left when the first message is put before the others again.
LEMMA LedAgain ==
  ASSUME NEW s, IsSequence(s), NEW x, Led(s, x)
  PROVE  <<x>> \o Tail(s) = s
<1>1. Len(s) \in Nat /\ Len(s) # 0 /\ s[1] = x /\ s # <<>>
  BY SequenceIs, EmptySeq DEF Led
<1>2. IsSequence(Tail(s)) /\ Len(Tail(s)) = Len(s) - 1
      /\ \A i \in 1..(Len(s) - 1) : Tail(s)[i] = s[i + 1]
  BY <1>1, TailIs DEF IsSequence
<1> DEFINE one == <<x>>
           t == Tail(s)
           both == one \o t
<1>3. IsSequence(one) /\ Len(one) = 1 /\ one[1] = x
  BY Single
<1>4. IsSequence(t) /\ Len(t) = Len(s) - 1 /\ \A i \in 1..(Len(s) - 1) : t[i] = s[i + 1]
  BY <1>2
<1> HIDE DEF one, t
<1>5. /\ IsSequence(both) /\ Len(both) = Len(one) + Len(t)
      /\ \A i \in 1..Len(one) : both[i] = one[i]
      /\ \A i \in 1..Len(t) : both[Len(one) + i] = t[i]
  <2>1. IsSequence(one) /\ IsSequence(t)
    BY <1>3, <1>4
  <2> QED BY <2>1, Joined
<1> HIDE DEF both
<1>6. Len(both) = Len(s)
  BY <1>1, <1>3, <1>4, <1>5
<1>7. ASSUME NEW i \in 1..Len(s) PROVE both[i] = s[i]
  <2>1. CASE i = 1
    BY <1>1, <1>3, <1>5, <2>1
  <2>2. CASE i # 1
    <3>1. i - 1 \in 1..Len(t) /\ 1 + (i - 1) = i /\ (i - 1) + 1 = i
      BY <1>1, <1>4, <2>2
    <3>2. both[1 + (i - 1)] = t[i - 1] /\ t[i - 1] = s[(i - 1) + 1]
      BY <1>3, <1>4, <1>5, <3>1
    <3> QED BY <3>1, <3>2
  <2> QED BY <2>1, <2>2
<1>8. both = s
  BY <1>5, <1>6, <1>7, SameSequence
<1> QED BY <1>8 DEF both, one, t

\* The second of two sequences joined.
LEMMA LastPart ==
  ASSUME NEW s, NEW t, IsSequence(s), IsSequence(t)
  PROVE  SubSeq(s \o t, Len(s) + 1, Len(s \o t)) = t
<1> DEFINE w == s \o t
           n == Len(s)
           l == Len(w)
           c == SubSeq(w, n + 1, l)
<1>1. /\ IsSequence(w) /\ l = n + Len(t) /\ \A i \in 1..Len(t) : w[n + i] = t[i]
      /\ n \in Nat /\ Len(t) \in Nat
  BY Joined, SequenceIs
<1> HIDE DEF w, n
<1>2. n + 1 \in Nat \ {0} /\ l \in 0..Len(w) /\ l \in Nat
  BY <1>1
<1> HIDE DEF l
<1>3. /\ IsSequence(c) /\ Len(c) = IF n + 1 <= l THEN l - (n + 1) + 1 ELSE 0
      /\ \A i \in 1..Len(c) : c[i] = w[(n + 1) + i - 1]
  BY <1>1, <1>2, Cut
<1> HIDE DEF c
<1>4. Len(c) = Len(t) /\ \A i \in 1..Len(c) : (n + 1) + i - 1 = n + i /\ i \in 1..Len(t)
  BY <1>1, <1>3
<1>5. c = t
  BY <1>1, <1>3, <1>4, SameSequence
<1> QED BY <1>5 DEF c, l, n, w

\* A run that starts from the record and what waits.
LEMMA OpensWorking ==
  ASSUME Plainly, NEW t \in Turn, Open(t), UNCHANGED <<host, system>>,
         \E i \in DOMAIN host : host[i].role = "user",
         NEW messages, IsSequence(messages), NEW plan, plan = PlanSeeding(record, messages),
         record' = record \o plan.boundary, run' = StartedRun(t, messages, plan),
         NEW rest, IsSequence(rest), NoReply(rest),
         plan = Seeding(Bares(LoadItems(record)) \o rest, NextSeq(record),
                        Len(Bares(LoadItems(record))), <<>>),
         LoopView(record) \o rest = Known(system, host)
  PROVE  Working' /\ run' # NoWork /\ UNCHANGED record
<1> DEFINE prior == Bares(LoadItems(record))
           v == LoopView(record)
           lead == SystemItem(system)
<1>1. Ordered(record) /\ IsSequence(record) /\ Viewed(record, v, lead) /\ IsSequence(v)
      /\ HostTable(host) /\ IsSequence(host) /\ Tidy /\ Mirrors
  <2>1. Viewed(record, v, lead) /\ Ordered(record) /\ HostTable(host) /\ Tidy /\ Mirrors
    BY DEF Plainly, Mirrors, Faithful, PlainRows
  <2> HIDE DEF v, lead
  <2> QED BY <2>1, ViewIs DEF Ordered, Entries, HostTable
<1>2. /\ plan.items = prior \o rest /\ plan.durable = Len(prior) /\ plan.boundary = <<>>
  BY DEF Seeding
<1>3. UNCHANGED record
  BY <1>1, <1>2, JoinedToNone
<1>4. Durable(run') = Len(prior)
  <2>1. Planned(record, plan)
    BY <1>1, PlansWell
  <2>2. Durable(StartedRun(t, messages, plan)) = plan.durable
    BY <2>1, RunStarts
  <2> QED BY <1>2, <2>2
<1>5. run'.items = prior \o rest /\ run'.rounds = 0 /\ run'.step = "gather"
  BY <1>2 DEF StartedRun
<1>6. run' # NoWork
  BY <1>5 DEF NoWork
<1>7. IsSequence(prior)
  BY <1>1, LoadedIs, BaresOf DEF Ordered
<1>8. Waiting(run') = rest
  <2> HIDE DEF prior
  <2>1. Waiting(run') = SubSeq(prior \o rest, Len(prior) + 1, Len(prior \o rest))
    BY <1>4, <1>5 DEF Waiting
  <2>2. SubSeq(prior \o rest, Len(prior) + 1, Len(prior \o rest)) = rest
    BY <1>7, LastPart
  <2> QED BY <2>1, <2>2
<1>9. Led(run'.items, lead)
  <2>1. CASE record # <<>>
    <3>1. Led(LoadItems(record), lead)
      BY <1>1, <2>1 DEF Viewed
    <3>2. Led(prior, lead)
      BY <1>1, <3>1, PriorLed
    <3> HIDE DEF prior, lead
    <3> QED BY <1>5, <1>7, <3>2, LedJoined
  <2>2. CASE record = <<>>
    <3>1. prior = <<>>
      BY <2>2, LoadedNone DEF Bares
    <3>2. v = <<>>
      BY <2>2, FoldedNone DEF LoopView, Folded
    <3>3. rest = Known(system, host)
      BY <3>2, JoinedToNone
    <3>4. Led(rest, lead)
      BY <1>1, <3>3, KnownIs
    <3> HIDE DEF prior, lead
    <3> QED BY <1>5, <1>7, <3>1, <3>4, LedJoined
  <2> QED BY <2>1, <2>2
<1>10. ASSUME NEW B \in SUBSET UserTexts, Without(Known(system, host), B)
       PROVE  RunWithout(run', B)
  <2>1. RowsWithout(record, B)
    <3> HIDE DEF v, lead
    <3>1. v \o rest = Known(system, host)
      BY DEF v
    <3>2. Without(v \o rest, B) /\ IsSequence(v)
      BY <1>1, <1>10, <3>1
    <3>3. Without(v, B)
      BY <3>2, WithoutFirst
    <3> QED BY <1>1, <3>3 DEF Viewed
  <2>2. \A i \in DOMAIN host : host[i].text \notin B
    BY <1>1, <1>10, KnownTells
  <2>3. run = NoWork
    BY DEF Open
  <2>4. Unheard(record, unwound, inbox, run, B)
    BY <1>1, <2>1, <2>3, FaithUnheard
  <2>5. Unheard(record', unwound', inbox', run', B)
    BY <1>1, <2>2, <2>4, OpenUnheard
  <2> QED BY <1>6, <2>5 DEF Unheard
<1>11. Working'
  <2>1. LoopView(record') \o Waiting(run') = Known(system', host') /\ NoReply(Waiting(run'))
    BY <1>3, <1>8
  <2>2. Led(run'.items, SystemItem(system'))
    BY <1>9
  <2>3. run'.rounds > 0 => run'.pending = <<>>
    BY <1>5
  <2>4. \A B \in SUBSET UserTexts : Without(Known(system', host'), B) => RunWithout(run', B)
    BY <1>10
  <2> QED BY <2>1, <2>2, <2>3, <2>4 DEF Working
<1> QED BY <1>3, <1>6, <1>11

\* What a run joins that the host's new message starts: the view, what is not
\* durable of an earlier turn, and the message.
LEMMA SendsJoin ==
  ASSUME Mirrors, PlainRows(host), NEW w, NEW v, NEW lead, Viewed(record, v, lead),
         NEW t \in Turn, turn[t].mode = "send", NEW h, IsSequence(h), host = Append(h, UserRow(t)),
         Follows(v, Known(w, h))
  PROVE  \E rest : LET messages == SeedMessages(t, w, <<>>)
                       prior == Bares(LoadItems(record))
                   IN  /\ IsSequence(rest) /\ NoReply(rest) /\ v \o rest = Known(w, host)
                       /\ IsSequence(messages)
                       /\ PlanSeeding(record, messages)
                            = Seeding(prior \o rest, NextSeq(record), Len(prior), <<>>)
<1> DEFINE messages == SeedMessages(t, w, <<>>)
           prior == Bares(LoadItems(record))
           last == <<Item("user", <<Piece("user", t)>>)>>
           k == Known(w, host)
<1>1. Ordered(record) /\ IsSequence(v)
  BY ViewIs DEF Mirrors
<1>2. PICK rest0 : IsSequence(rest0) /\ Known(w, h) = v \o rest0 /\ NoReply(rest0)
  BY DEF Follows
<1>3. Alike(k, messages) /\ k = Known(w, h) \o last
  BY SendsAlike
<1>4. IsSequence(last) /\ Len(last) = 1 /\ last[1].kind = "user" /\ DOMAIN last = 1..1
  <2>1. Item("user", <<Piece("user", t)>>).kind = "user"
    BY DEF Item
  <2>2. IsSequence(last) /\ Len(last) = 1 /\ last[1] = Item("user", <<Piece("user", t)>>)
    BY Single
  <2>3. DOMAIN last = 1..Len(last)
    BY <2>2, SequenceIs
  <2> HIDE DEF last
  <2> QED BY <2>1, <2>2, <2>3
<1>5. In(k, Shown(w))
  BY KnownShown
<1> DEFINE rest == rest0 \o last
<1> HIDE DEF messages, last, k
<1>6. k = v \o rest
  <2>1. IsSequence(v) /\ IsSequence(rest0) /\ IsSequence(last)
    BY <1>1, <1>2, <1>4
  <2>2. (v \o rest0) \o last = v \o (rest0 \o last)
    BY <2>1, JoinedTwice
  <2> QED BY <1>2, <1>3, <2>2
<1>7. IsSequence(rest) /\ rest # <<>> /\ NoReply(rest)
  <2>1. /\ Len(rest0) \in Nat /\ IsSequence(rest) /\ Len(rest) = Len(rest0) + Len(last)
    BY <1>2, <1>4, Joined, SequenceIs
  <2>2. rest # <<>>
    BY <1>4, <2>1, None
  <2>3. /\ \A i \in DOMAIN rest : rest[i] = IF i \in DOMAIN rest0 THEN rest0[i] ELSE last[i - Len(rest0)]
        /\ \A i \in DOMAIN rest : i \notin DOMAIN rest0 => i - Len(rest0) \in DOMAIN last
    BY <1>2, <1>4, JoinedDomain
  <2> HIDE DEF rest
  <2>4. NoReply(rest)
    <3>1. \A i \in DOMAIN last : last[i].kind # "assistant"
      BY <1>4
    <3> QED BY <1>2, <2>3, <3>1 DEF NoReply
  <2> QED BY <2>1, <2>2, <2>4
<1> HIDE DEF rest
<1>8. IsSequence(messages) /\ Extends(messages, v) /\ SubSeq(messages, Len(v) + 1, Len(messages)) = rest
  BY <1>1, <1>3, <1>6, <1>7, AlikeExtends
<1>9. PICK covered : RunsOwn(record, v, <<Summary(covered)>>)
  BY DEF Viewed
<1> DEFINE text == <<Summary(covered)>>
<1>10. \A i \in 1..Len(messages) :
         HostVisible(messages[i]) /\ (messages[i].kind = "user" => messages[i].text # text)
  BY <1>3, <1>5, AlikeShown
<1>11. PlanSeeding(record, messages)
        = Seeding(prior \o SubSeq(messages, Len(v) + 1, Len(messages)), NextSeq(record), Len(prior), <<>>)
  <2>1. RunsOwn(record, v, text)
    BY <1>9
  <2> HIDE DEF text
  <2> QED BY <1>1, <1>8, <1>10, <2>1, PlanJoins
<1>12. PlanSeeding(record, messages) = Seeding(prior \o rest, NextSeq(record), Len(prior), <<>>)
  BY <1>8, <1>11
<1> HIDE DEF prior
<1>13. /\ IsSequence(rest) /\ NoReply(rest) /\ v \o rest = k /\ IsSequence(messages)
       /\ PlanSeeding(record, messages) = Seeding(prior \o rest, NextSeq(record), Len(prior), <<>>)
  BY <1>6, <1>7, <1>8, <1>12
<1> QED BY <1>13 DEF messages, prior, k

\* A resumed run is given what the record has, and nothing waits.
LEMMA ResumesJoin ==
  ASSUME Mirrors, NEW w, NEW v, Viewed(record, v, SystemItem(w)),
         NEW t, turn[t].mode = "resume", IsSequence(host), v = Known(w, host)
  PROVE  LET messages == SeedMessages(t, w, <<>>)
             prior == Bares(LoadItems(record))
         IN  /\ record # <<>> /\ v \o <<>> = Known(w, host)
             /\ IsSequence(messages)
             /\ PlanSeeding(record, messages)
                  = Seeding(prior \o <<>>, NextSeq(record), Len(prior), <<>>)
<1> DEFINE messages == SeedMessages(t, w, <<>>)
           prior == Bares(LoadItems(record))
           lead == SystemItem(w)
<1>1. Ordered(record) /\ IsSequence(v) /\ LoopView(record) = v
  BY ViewIs DEF Mirrors
<1>2. v # <<>>
  BY KnownIs DEF Led
<1>3. record # <<>>
  <2>1. record = <<>> => LoopView(record) = <<>>
    BY FoldedNone DEF LoopView, Folded
  <2> QED BY <1>1, <1>2, <2>1
<1>4. Led(LoadItems(record), lead)
  BY <1>3 DEF Viewed
<1>5. Led(prior, lead) /\ IsSequence(prior) /\ LoadItems(record) # <<>>
  <2>1. Led(prior, lead)
    BY <1>1, <1>4, PriorLed
  <2>2. IsSequence(prior)
    BY <1>1, LoadedIs, BaresOf DEF Ordered
  <2> QED BY <1>4, <2>1, <2>2 DEF Led
<1>6. messages = prior
  <2>1. lead.kind = "system"
    BY DEF SystemItem, Item
  <2>2. prior # <<>> /\ prior[1] = lead
    BY <1>5 DEF Led
  <2>3. messages = <<lead>> \o (IF prior # <<>> /\ prior[1].kind = "system" THEN Tail(prior) ELSE prior)
    BY DEF SeedMessages
  <2> HIDE DEF messages, prior, lead
  <2>4. <<lead>> \o Tail(prior) = prior
    BY <1>5, LedAgain
  <2> QED BY <2>1, <2>2, <2>3, <2>4
<1>7. PlanSeeding(record, prior) = Seeding(prior, NextSeq(record), Len(prior), <<>>)
  BY <1>1, <1>3, <1>5, PlanReplays
<1>8. prior \o <<>> = prior /\ v \o <<>> = v
  <2> HIDE DEF prior
  <2> QED BY <1>1, <1>5, JoinedToNone
<1> HIDE DEF prior, messages
<1>9. /\ record # <<>> /\ v \o <<>> = Known(w, host) /\ IsSequence(messages)
      /\ PlanSeeding(record, messages) = Seeding(prior \o <<>>, NextSeq(record), Len(prior), <<>>)
  BY <1>3, <1>5, <1>6, <1>7, <1>8
<1> QED BY <1>9 DEF messages, prior

\* A run starts.
LEMMA OpenFaithful ==
  ASSUME Plainly, NEW t \in Turn, Open(t), plain'
  PROVE  Faithful'
<1> DEFINE messages == SeedMessages(t, system, <<>>)
           plan == PlanSeeding(record, messages)
           prior == Bares(LoadItems(record))
           v == LoopView(record)
           lead == SystemItem(system)
<1>1. /\ turn[t].phase = "said" /\ run = NoWork
      /\ UNCHANGED <<host, unwound, inbox, system, overlapped>>
      /\ ~ (turn[t].mode = "resume" /\ record = <<>>) =>
           /\ turn' = [turn EXCEPT ![t].phase = "open"]
           /\ record' = record \o plan.boundary
           /\ run' = StartedRun(t, messages, plan)
  BY DEF Open
<1>2. Turns /\ Tidy /\ PlainRows(host) /\ Joining /\ HostTable(host) /\ HostRows /\ Mirrors
      /\ Viewed(record, v, lead) /\ IsSequence(host)
  BY DEF Plainly, Faithful, PlainRows, HostTable
<1>3. turn[t] \in TurnRecord /\ turn[t].mode \in {"send", "resume"}
  <2>1. Quiet(turn[t])
    BY <1>2 DEF Tidy
  <2> QED BY <1>1, <1>2, <2>1 DEF Quiet, Turns
<1>4. \E rest : /\ IsSequence(rest) /\ NoReply(rest) /\ v \o rest = Known(system, host)
                /\ IsSequence(messages)
                /\ plan = Seeding(prior \o rest, NextSeq(record), Len(prior), <<>>)
                /\ turn[t].mode = "resume" => record # <<>>
  <2>1. CASE turn[t].mode = "send"
    <3>1. PICK h : IsSequence(h) /\ host = Append(h, UserRow(t)) /\ Follows(v, Known(system, h))
      BY <1>1, <1>2, <2>1 DEF Joining
    <3>2. \E rest : /\ IsSequence(rest) /\ NoReply(rest) /\ v \o rest = Known(system, host)
                    /\ IsSequence(messages)
                    /\ plan = Seeding(prior \o rest, NextSeq(record), Len(prior), <<>>)
      <4> DEFINE w == system
      <4>1. Viewed(record, v, lead) /\ Follows(v, Known(w, h))
        BY <1>2, <3>1
      <4> HIDE DEF v, lead, w
      <4>2. \E rest : LET ms == SeedMessages(t, w, <<>>)
                          pr == Bares(LoadItems(record))
                      IN  /\ IsSequence(rest) /\ NoReply(rest) /\ v \o rest = Known(w, host)
                          /\ IsSequence(ms)
                          /\ PlanSeeding(record, ms)
                               = Seeding(pr \o rest, NextSeq(record), Len(pr), <<>>)
        BY <1>2, <2>1, <3>1, <4>1, SendsJoin
      <4> QED BY <4>2 DEF w
    <3> QED BY <2>1, <3>2
  <2>2. CASE turn[t].mode = "resume"
    <3>1. v = Known(system, host)
      BY <1>1, <1>2, <2>2 DEF Joining
    <3>2. /\ record # <<>> /\ v \o <<>> = Known(system, host)
          /\ IsSequence(messages)
          /\ plan = Seeding(prior \o <<>>, NextSeq(record), Len(prior), <<>>)
      <4> DEFINE w == system
      <4>1. Viewed(record, v, SystemItem(w)) /\ v = Known(w, host)
        BY <1>2, <3>1
      <4> HIDE DEF v, w
      <4>2. LET ms == SeedMessages(t, w, <<>>)
                pr == Bares(LoadItems(record))
            IN  /\ record # <<>> /\ v \o <<>> = Known(w, host)
                /\ IsSequence(ms)
                /\ PlanSeeding(record, ms)
                     = Seeding(pr \o <<>>, NextSeq(record), Len(pr), <<>>)
        BY <1>2, <2>2, <4>1, ResumesJoin
      <4> QED BY <4>2 DEF w
    <3>3. IsSequence(<<>>) /\ NoReply(<<>>)
      BY None DEF NoReply
    <3> QED BY <3>2, <3>3
  <2> QED BY <1>3, <2>1, <2>2
<1>5. PICK rest : /\ IsSequence(rest) /\ NoReply(rest) /\ v \o rest = Known(system, host)
                  /\ IsSequence(messages)
                  /\ plan = Seeding(prior \o rest, NextSeq(record), Len(prior), <<>>)
                  /\ turn[t].mode = "resume" => record # <<>>
  BY <1>4
<1>6. /\ turn' = [turn EXCEPT ![t].phase = "open"]
      /\ record' = record \o plan.boundary
      /\ run' = StartedRun(t, messages, plan)
  BY <1>1, <1>5
<1>7. \E i \in DOMAIN host : host[i].role = "user"
  BY <1>1, <1>2 DEF HostRows
<1>8. Working' /\ run' # NoWork /\ UNCHANGED record
  <2> HIDE DEF messages
  <2>1. plan = PlanSeeding(record, messages) /\ LoopView(record) \o rest = Known(system, host)
        /\ plan = Seeding(Bares(LoadItems(record)) \o rest, NextSeq(record),
                          Len(Bares(LoadItems(record))), <<>>)
        /\ UNCHANGED <<host, system>>
    BY <1>1, <1>5
  <2> HIDE DEF plan
  <2> QED BY <1>5, <1>6, <1>7, <2>1, OpensWorking
<1>9. Tidy' /\ turn'[t].phase = "open" /\ \A s \in Turn : s # t => turn'[s] = turn[s]
  <2> DEFINE r == [turn[t] EXCEPT !.phase = "open"]
  <2>1. turn' = [turn EXCEPT ![t] = r] /\ r.phase = "open" /\ r.mode = turn[t].mode
        /\ r.said = turn[t].said
    BY <1>2, <1>3, <1>6 DEF TurnRecord, Turns
  <2>2. Quiet(r)
    <3>1. Quiet(turn[t])
      BY <1>2 DEF Tidy
    <3> HIDE DEF r
    <3> QED BY <1>1, <2>1, <3>1 DEF Quiet
  <2> HIDE DEF r
  <2>3. inbox' = <<>>
    BY <1>1, <1>2 DEF Tidy
  <2>4. UNCHANGED <<unwound, overlapped>>
    BY <1>1
  <2> QED BY <1>2, <2>1, <2>2, <2>3, <2>4, TidyMoves
<1>10. Joining'
  BY <1>1, <1>2, <1>8, <1>9, MoveJoins
<1>11. Faithful /\ PlainRows(host') /\ UNCHANGED system
  BY <1>1, <1>2 DEF Plainly
<1> QED BY <1>8, <1>9, <1>10, <1>11, LeavesRecord DEF Faithful

\* A run with nothing waiting.
LEMMA NothingWaits ==
  ASSUME NEW r, IsSequence(r.items), r.pending = <<>>
  PROVE  Waiting(r) = <<>> /\ Durable(r) = Len(r.items)
<1>1. Durable(r) = Len(r.items)
  BY None, SequenceIs DEF Durable
<1> QED BY <1>1, NothingLeft DEF Waiting

\* What is known of a run that is at work.
LEMMA AtWork ==
  ASSUME Plainly, run # NoWork
  PROVE  /\ Turns /\ Tidy /\ Mirrors /\ PlainRows(host) /\ IsSequence(host) /\ Working
         /\ Kept(record, run) /\ IsSequence(run.items) /\ DOMAIN run = DOMAIN NoWork
         /\ run.next \in Nat
         /\ run.turn \in Turn /\ turn[run.turn].phase = "open" /\ turn[run.turn] \in TurnRecord
         /\ Said = <<>> /\ Acted \in BOOLEAN
         /\ Ordered(record) /\ IsSequence(record) /\ unwound = <<>> /\ inbox = <<>>
         /\ Viewed(record, LoopView(record), SystemItem(system)) /\ IsSequence(LoopView(record))
<1>1. /\ Turns /\ Tidy /\ Mirrors /\ PlainRows(host) /\ Working
      /\ Viewed(record, LoopView(record), SystemItem(system))
  BY DEF Plainly, Faithful, Joining
<1>2. Kept(record, run) /\ Ordered(record) /\ unwound = <<>> /\ inbox = <<>> /\ IsSequence(host)
  BY <1>1 DEF Mirrors, Tidy
<1>3. run.turn \in Turn /\ turn[run.turn].phase = "open" /\ turn[run.turn] \in TurnRecord
      /\ Acted \in BOOLEAN
  BY <1>1, RunSays
<1>4. Said = <<>>
  BY <1>1, <1>3 DEF Tidy, Quiet, Said
<1>5. IsSequence(LoopView(record))
  <2> DEFINE v == LoopView(record)
             lead == SystemItem(system)
  <2>1. Viewed(record, v, lead)
    BY <1>1
  <2> HIDE DEF v, lead
  <2>2. IsSequence(v)
    BY <2>1, ViewIs
  <2> QED BY <2>2 DEF v
<1>6. IsSequence(run.items) /\ DOMAIN run = DOMAIN NoWork /\ run.next \in Nat
  BY <1>2 DEF Kept
<1>7. IsSequence(record)
  BY <1>2 DEF Ordered, Entries
<1> QED BY <1>1, <1>2, <1>3, <1>4, <1>5, <1>6, <1>7

\* What the record of a run at work has, and what waits.
LEMMA WorkKnown ==
  ASSUME Plainly, run # NoWork
  PROVE  /\ \A B \in SUBSET UserTexts : Without(Known(system, host), B) =>
              /\ Without(LoopView(record), B) /\ RowsWithout(record, B) /\ RunWithout(run, B)
         /\ IsSequence(Waiting(run)) /\ In(Waiting(run), Shown(system))
         /\ record = <<>> => Led(Waiting(run), SystemItem(system))
         /\ Behind(run) \in Nat /\ run.pending = Numbered(Behind(run), Waiting(run))
<1> DEFINE v == LoopView(record)
           s == Waiting(run)
           k == Known(system, host)
           lead == SystemItem(system)
<1>1. /\ v \o s = k /\ IsSequence(v) /\ Kept(record, run) /\ Viewed(record, v, lead)
      /\ IsSequence(run.items) /\ PlainRows(host) /\ IsSequence(host)
      /\ \A B \in SUBSET UserTexts : Without(k, B) => RunWithout(run, B)
  BY AtWork DEF Working
<1>2. Behind(run) \in Nat /\ run.pending = Numbered(Behind(run), s) /\ Durable(run) \in Nat
      /\ Len(run.items) \in Nat
  BY <1>1, SequenceIs DEF Kept, Behind, Waiting
<1>3. IsSequence(s)
  <2>1. Durable(run) + 1 \in Nat \ {0} /\ Len(run.items) \in 0..Len(run.items)
    BY <1>2
  <2> QED BY <1>1, <2>1, Cut DEF Waiting
<1>4. In(k, Shown(system))
  BY <1>1, KnownShown
<1>5. Led(k, lead)
  BY <1>1, KnownIs
<1> HIDE DEF v, s, k, lead
<1>6. In(s, Shown(system))
  <2>1. IsSequence(v) /\ IsSequence(s)
    BY <1>1, <1>3
  <2>2. /\ Len(v \o s) = Len(v) + Len(s) /\ IsSequence(v \o s)
        /\ \A i \in 1..Len(s) : (v \o s)[Len(v) + i] = s[i]
    BY <2>1, Joined
  <2>3. DOMAIN s = 1..Len(s) /\ DOMAIN (v \o s) = 1..Len(v \o s) /\ Len(s) \in Nat /\ Len(v) \in Nat
    BY <2>1, <2>2, SequenceIs
  <2>4. \A i \in 1..Len(s) : Len(v) + i \in DOMAIN (v \o s)
    BY <2>2, <2>3
  <2>5. In(v \o s, Shown(system))
    BY <1>1, <1>4
  <2> QED BY <2>1, <2>2, <2>3, <2>4, <2>5 DEF In
<1>7. ASSUME record = <<>> PROVE Led(s, lead)
  <2>1. v = <<>>
    BY <1>7, FoldedNone DEF LoopView, Folded, v
  <2>2. s = k
    BY <1>1, <1>3, <2>1, JoinedToNone
  <2> QED BY <1>5, <2>2
<1>8. ASSUME NEW B \in SUBSET UserTexts, Without(k, B)
      PROVE  Without(v, B) /\ RowsWithout(record, B) /\ RunWithout(run, B)
  <2>1. Without(v \o s, B)
    BY <1>1, <1>8
  <2>2. Without(v, B)
    BY <1>1, <1>3, <2>1, WithoutFirst
  <2> QED BY <1>1, <1>8, <2>2 DEF Viewed
<1> QED BY <1>2, <1>3, <1>6, <1>7, <1>8 DEF v, s, k, lead

\* When what waits is stored, the view is all that is known.
LEMMA FlushShows ==
  ASSUME Plainly, run # NoWork
  PROVE  LET batch == Batch(run, <<>>)
             lead == SystemItem(system)
             k == Known(system, host)
         IN  /\ Ordered(record \o batch) /\ IsSequence(record \o batch) /\ IsSequence(batch)
             /\ Appended(record, batch) = record \o batch /\ ~ Refused(record, batch)
             /\ Viewed(record \o batch, k, lead) /\ LoopView(record \o batch) = k
             /\ \A B \in SUBSET UserTexts : Without(k, B) => RowsWithout(record \o batch, B)
<1> DEFINE batch == Batch(run, <<>>)
           lead == SystemItem(system)
           k == Known(system, host)
           v == LoopView(record)
           s == Waiting(run)
           n == Behind(run)
<1>1. /\ Kept(record, run) /\ Ordered(record) /\ IsSequence(record) /\ Viewed(record, v, lead)
      /\ IsSequence(v) /\ v \o s = k /\ run.next \in Nat
  BY AtWork DEF Working
<1>2. /\ IsSequence(s) /\ n \in Nat /\ run.pending = Numbered(n, s) /\ In(s, Shown(system))
      /\ record = <<>> => Led(s, lead)
      /\ \A B \in SUBSET UserTexts : Without(k, B) => RowsWithout(record, B) /\ RunWithout(run, B)
  BY WorkKnown
<1>3. batch = Numbered(n, s) /\ IsSequence(batch)
  <2>1. IsSequence(run.pending)
    BY <1>1 DEF Kept
  <2>2. Numbered(run.next, <<>>) = <<>>
    BY DEF Numbered
  <2>3. run.pending \o <<>> = run.pending
    BY <2>1, JoinedToNone
  <2> QED BY <1>2, <2>1, <2>2, <2>3 DEF Batch
<1>4. /\ Appended(record, batch) = record \o batch /\ ~ Refused(record, batch)
      /\ Ordered(record \o batch)
  <2>1. IsSequence(<<>>)
    BY None
  <2>2. /\ Appended(record, batch) = record \o batch /\ ~ Refused(record, batch)
        /\ Spans(record \o batch, 0, After(run, <<>>))
    BY <1>1, <2>1, Flushed
  <2> HIDE DEF batch
  <2> QED BY <2>2 DEF Spans
<1> HIDE DEF batch, lead, k, v, s, n
<1>5. \A i \in DOMAIN s : HostVisible(s[i]) /\ s[i].kind # "steer"
  <2>1. \A i \in DOMAIN s : s[i] \in Shown(system)
    BY <1>2 DEF In
  <2> QED BY <2>1, ShownIs
<1>6. HostView(s) = s
  BY <1>2, <1>5, ViewWhole
<1>7. \A B \in SUBSET UserTexts : Without(k, B) => RowsWithout(record \o batch, B)
  <2>1. \A B : RunWithout(run, B) => RowsWithout(batch, B)
    BY <1>2, <1>3 DEF RunWithout
  <2> QED BY <1>2, <2>1, RowsJoined
<1>8. Viewed(record \o batch, k, lead)
  <2>1. \A B \in SUBSET UserTexts :
           Without(v \o HostView(s), B) => RowsWithout(record \o Numbered(n, s), B)
    BY <1>1, <1>3, <1>6, <1>7
  <2>2. Viewed(record \o Numbered(n, s), v \o HostView(s), lead)
    BY <1>1, <1>2, <1>5, <2>1, ViewGrows
  <2> QED BY <1>1, <1>3, <1>6, <2>2
<1>9. LoopView(record \o batch) = k
  BY <1>8, ViewIs
<1>10. IsSequence(record \o batch)
  BY <1>4 DEF Ordered, Entries
<1> QED BY <1>3, <1>4, <1>7, <1>8, <1>9, <1>10 DEF batch, lead, k

\* A run at work whose record was brought up to date.
LEMMA StaysAtWork ==
  ASSUME Plainly, run # NoWork, Mirrors', run' # NoWork, run'.pending = <<>>,
         UNCHANGED <<host, system, unwound, overlapped>>, inbox' = <<>>,
         NEW r, turn' = [turn EXCEPT ![run.turn] = r], Quiet(r), r.phase = "open",
         Viewed(record', Known(system, host), SystemItem(system)),
         Led(run'.items, SystemItem(system)),
         \A B \in SUBSET UserTexts : Without(Known(system, host), B) => RunWithout(run', B)
  PROVE  Faithful'
<1> DEFINE t == run.turn
<1>1. /\ Turns /\ Tidy /\ PlainRows(host) /\ IsSequence(host) /\ t \in Turn /\ turn[t].phase = "open"
  BY AtWork
<1> HIDE DEF t
<1>2. Tidy' /\ turn'[t] = r /\ \A s \in Turn : s # t => turn'[s] = turn[s]
  <2>1. turn' = [turn EXCEPT ![t] = r]
    BY DEF t
  <2>2. UNCHANGED <<unwound, overlapped>>
    OBVIOUS
  <2> QED BY <1>1, <2>1, <2>2, TidyMoves
<1>3. LoopView(record') = Known(system, host)
  <2> DEFINE rec == record'
             k == Known(system, host)
             lead == SystemItem(system)
  <2>1. Viewed(rec, k, lead)
    OBVIOUS
  <2> HIDE DEF rec, k, lead
  <2>2. LoopView(rec) = k
    BY <2>1, ViewIs
  <2> QED BY <2>2 DEF rec, k
<1>4. Waiting(run') = <<>>
  <2> DEFINE a == run'
  <2>1. IsSequence(a.items) /\ a.pending = <<>>
    BY DEF Mirrors, Kept
  <2> HIDE DEF a
  <2>2. Waiting(a) = <<>>
    BY <2>1, NothingWaits
  <2> QED BY <2>2 DEF a
<1>5. Working'
  <2>1. LoopView(record') \o Waiting(run') = Known(system', host')
    <3> DEFINE k == Known(system, host)
    <3>1. IsSequence(k)
      BY <1>1, KnownIs
    <3> HIDE DEF k
    <3>2. k \o <<>> = k
      BY <3>1, JoinedToNone
    <3>3. Known(system', host') = k
      BY DEF k
    <3> QED BY <1>3, <1>4, <3>2, <3>3 DEF k
  <2>2. NoReply(Waiting(run'))
    BY <1>4 DEF NoReply
  <2>3. Led(run'.items, SystemItem(system')) /\ (run'.rounds > 0 => run'.pending = <<>>)
    OBVIOUS
  <2>4. \A B \in SUBSET UserTexts : Without(Known(system', host'), B) => RunWithout(run', B)
    OBVIOUS
  <2> QED BY <2>1, <2>2, <2>3, <2>4 DEF Working
<1>6. Joining'
  <2>1. turn'[t].phase = "open"
    BY <1>2
  <2> QED BY <1>1, <1>2, <1>5, <2>1, MoveJoins
<1>7. Viewed(record, LoopView(record), SystemItem(system))'
  BY <1>3
<1> QED BY <1>1, <1>2, <1>6, <1>7 DEF Faithful

\* The turn of a run that goes on without a word.
LEMMA TurnStays ==
  ASSUME Plainly, run # NoWork, UNCHANGED turn
  PROVE  \E r : turn' = [turn EXCEPT ![run.turn] = r] /\ Quiet(r) /\ r.phase = "open"
<1>1. run.turn \in Turn /\ turn[run.turn].phase = "open" /\ Tidy /\ Turns
  BY AtWork
<1>2. Quiet(turn[run.turn])
  BY <1>1 DEF Tidy
<1>3. turn' = [turn EXCEPT ![run.turn] = turn[run.turn]]
  BY <1>1 DEF Turns
<1> QED BY <1>1, <1>2, <1>3

\* A run of which nothing waits has none of the texts if its messages have
\* none.
LEMMA RunWithoutAll ==
  ASSUME NEW r, r.step \in {"gather", "asked"}, r.next \in Nat, r.pending = <<>>,
         NEW B, Without(r.items, B)
  PROVE  RunWithout(r, B)
BY NoneSpans, RowsNone DEF RunWithout

\* The flush before a request that does not compact.
LEMMA RequestFaithful ==
  ASSUME Plainly, Request(0)
  PROVE  Faithful'
<1> DEFINE steered == Numbered(run.next, inbox)
           grown == run.items \o Bares(inbox)
           batch == Batch(run, <<>>)
           lead == SystemItem(system)
           k == Known(system, host)
<1>1. /\ run.step = "gather" /\ UNCHANGED <<host, unwound, system, overlapped>>
      /\ Flush(run.pending \o steered,
               /\ run' = [run EXCEPT !.step = "asked", !.items = grown, !.pending = <<>>,
                                     !.next = @ + Len(inbox)]
               /\ inbox' = <<>> /\ UNCHANGED turn)
  <2>1. 0 \notin (HeadEnd(grown) + 1)..(Len(grown) - 1)
    BY DEF HeadEnd
  <2> QED BY <2>1 DEF Request
<1>2. run # NoWork
  BY <1>1 DEF NoWork
<1>3. /\ Mirrors /\ IsSequence(run.items) /\ DOMAIN run = DOMAIN NoWork /\ inbox = <<>> /\ Working
      /\ PlainRows(host)
  BY <1>2, AtWork
<1>4. /\ Appended(record, batch) = record \o batch /\ ~ Refused(record, batch)
      /\ Viewed(record \o batch, k, lead)
  BY <1>2, FlushShows
<1>5. run.pending \o steered = batch /\ grown = run.items
  <2>1. Bares(<<>>) = <<>>
    BY DEF Bares
  <2> QED BY <1>3, <2>1, JoinedToNone DEF Batch
<1>6. /\ record' = record \o batch
      /\ run' = [run EXCEPT !.step = "asked", !.items = run.items, !.pending = <<>>,
                            !.next = @ + Len(inbox)]
      /\ inbox' = <<>> /\ UNCHANGED turn
  <2> HIDE DEF batch, grown, steered
  <2> QED BY <1>1, <1>4, <1>5 DEF Flush
<1>7. /\ run'.step = "asked" /\ run'.items = run.items /\ run'.pending = <<>>
  <2>1. {"step", "items", "pending", "next"} \subseteq DOMAIN run
    BY <1>3 DEF NoWork
  <2> QED BY <1>6, <2>1
<1>8. run' # NoWork
  BY <1>7 DEF NoWork
<1>9. Mirrors'
  BY <1>3, RequestMirrors
<1>10. Led(run'.items, lead)
  BY <1>3, <1>7 DEF Working
<1>11. ASSUME NEW B \in SUBSET UserTexts, Without(k, B) PROVE RunWithout(run', B)
  <2>1. Without(run.items, B)
    BY <1>3, <1>11 DEF Working, RunWithout
  <2>2. run'.next \in Nat
    BY <1>8, <1>9 DEF Mirrors, Kept
  <2> DEFINE a == run'
  <2>3. a.step \in {"gather", "asked"} /\ a.next \in Nat /\ a.pending = <<>> /\ Without(a.items, B)
    BY <1>7, <2>1, <2>2
  <2> HIDE DEF a
  <2>4. RunWithout(a, B)
    BY <2>3, RunWithoutAll
  <2> QED BY <2>4 DEF a
<1>12. PICK r : turn' = [turn EXCEPT ![run.turn] = r] /\ Quiet(r) /\ r.phase = "open"
  BY <1>2, <1>6, TurnStays
<1>13. Viewed(record', k, lead)
  BY <1>4, <1>6
<1> QED BY <1>1, <1>2, <1>6, <1>7, <1>8, <1>9, <1>10, <1>11, <1>12, <1>13, StaysAtWork

\* A compaction keeps the prompt, and makes a summary of what it leaves out.
LEMMA RestatedKeeps ==
  ASSUME NEW items, IsSequence(items), NEW lead, Led(items, lead),
         NEW cut \in (HeadEnd(items) + 1)..(Len(items) - 1)
  PROVE  /\ Led(Restated(items, cut), lead)
         /\ \E covered : Holds(Restated(items, cut), Item("user", <<Summary(covered)>>))
<1> DEFINE h == HeadEnd(items)
           a == SubSeq(items, 1, h)
           x == Item("user", <<Summary(SubSeq(items, h + 1, cut))>>)
           b == <<x>>
           c == SubSeq(items, cut + 1, Len(items))
<1>1. Len(items) \in Nat /\ h \in {1, 2}
  BY SequenceIs DEF HeadEnd
<1>2. /\ h \in 0..Len(items) /\ cut + 1 \in Nat \ {0} /\ Len(items) \in 0..Len(items)
      /\ 1 \in Nat \ {0} /\ 1 <= h
  BY <1>1
<1>3. IsSequence(a) /\ IsSequence(b) /\ IsSequence(c)
  BY <1>2, SingleIs, Cut
<1>4. Led(a, lead)
  <2>1. /\ Len(a) = IF 1 <= h THEN h - 1 + 1 ELSE 0
        /\ \A i \in 1..Len(a) : a[i] = items[1 + i - 1]
    BY <1>2, Cut
  <2> HIDE DEF a, h
  <2>2. Len(a) = h /\ 1 \in 1..Len(a) /\ 1 + 1 - 1 = 1
    BY <1>1, <2>1
  <2>3. a[1] = items[1] /\ a # <<>>
    BY <1>1, <2>1, <2>2, None
  <2> QED BY <2>3 DEF Led
<1> HIDE DEF x
<1>5. Holds(b, x)
  <2>1. 1 \in DOMAIN b /\ b[1] = x
    OBVIOUS
  <2> QED BY <2>1 DEF Holds
<1>6. Restated(items, cut) = (a \o b) \o c
  BY DEF Restated, x
<1> HIDE DEF a, b, c, h
<1>7. IsSequence(a \o b) /\ Led(a \o b, lead) /\ Holds(a \o b, x)
  BY <1>3, <1>4, <1>5, JoinedIs, LedJoined, HoldsJoined
<1>8. Led((a \o b) \o c, lead) /\ Holds((a \o b) \o c, x)
  <2> DEFINE d == a \o b
  <2>1. IsSequence(d) /\ Led(d, lead) /\ Holds(d, x)
    BY <1>7
  <2> HIDE DEF d
  <2>2. Led(d \o c, lead) /\ Holds(d \o c, x)
    BY <1>3, <2>1, LedJoined, HoldsJoined
  <2> QED BY <2>2 DEF d
<1> QED BY <1>6, <1>8 DEF x

\* The flush before a request that compacts.
LEMMA CompactFaithful ==
  ASSUME Plainly, NEW cut \in Nat, cut # 0, Request(cut)
  PROVE  Faithful'
<1> DEFINE steered == Numbered(run.next, inbox)
           grown == run.items \o Bares(inbox)
           restated == Restated(grown, cut)
           boundary == Boundary(run.next + Len(inbox), "compact", Len(restated))
           rewrite == <<boundary>> \o Numbered(boundary.seq + 1, restated)
           batch == Batch(run, <<>>)
           rows == Rewrite(boundary, restated)
           lead == SystemItem(system)
           k == Known(system, host)
<1>1. /\ run.step = "gather" /\ UNCHANGED <<host, unwound, system, overlapped>>
      /\ cut \in (HeadEnd(grown) + 1)..(Len(grown) - 1)
      /\ Flush(run.pending \o steered \o rewrite,
               /\ run' = [run EXCEPT !.step = "asked", !.items = restated, !.pending = <<>>,
                                     !.next = @ + Len(inbox) + Len(rewrite)]
               /\ inbox' = <<>> /\ UNCHANGED turn)
  BY DEF Request
<1>2. run # NoWork
  BY <1>1 DEF NoWork
<1>3. /\ Mirrors /\ IsSequence(run.items) /\ DOMAIN run = DOMAIN NoWork /\ inbox = <<>> /\ Working
      /\ Kept(record, run) /\ IsSequence(record) /\ PlainRows(host)
  BY <1>2, AtWork
<1>4. /\ Viewed(record \o batch, k, lead) /\ Ordered(record \o batch) /\ IsSequence(batch)
      /\ \A B \in SUBSET UserTexts : Without(k, B) => RowsWithout(record \o batch, B)
  BY <1>2, FlushShows
<1>5. run.pending \o steered = batch /\ grown = run.items
  <2>1. Bares(<<>>) = <<>>
    BY DEF Bares
  <2> QED BY <1>3, <2>1, JoinedToNone DEF Batch
<1>6. cut \in (HeadEnd(run.items) + 1)..(Len(run.items) - 1) /\ restated = Restated(run.items, cut)
  <2> HIDE DEF grown
  <2> QED BY <1>1, <1>5
<1>7. IsSequence(restated) /\ Led(restated, lead)
      /\ \E covered : Holds(restated, Item("user", <<Summary(covered)>>))
  <2> HIDE DEF restated
  <2>1. Led(run.items, lead)
    BY <1>3 DEF Working
  <2> HIDE DEF lead
  <2> QED BY <1>3, <1>6, <2>1, RestatedIs, RestatedKeeps
<1>8. /\ boundary.seq = After(run, <<>>) /\ boundary.items = <<>> /\ boundary.seq \in Nat
      /\ boundary.type = "boundary" /\ OwnCompaction(boundary) /\ boundary.count = Len(restated)
  <2>1. /\ boundary.seq = After(run, <<>>) /\ boundary.items = <<>>
        /\ boundary.type = "boundary" /\ OwnCompaction(boundary) /\ boundary.count = Len(restated)
    BY <1>3 DEF Boundary, After, OwnCompaction
  <2>2. IsSequence(<<>>)
    BY None
  <2>3. After(run, <<>>) \in Nat
    BY <1>3, <2>2, BatchSpans
  <2> QED BY <2>1, <2>3
<1>9. rewrite = rows
  BY DEF Rewrite
<1> HIDE DEF restated, boundary
<1>10. /\ Appended(record, batch \o rows) = record \o (batch \o rows)
       /\ ~ Refused(record, batch \o rows)
  <2>1. IsSequence(<<>>)
    BY None
  <2> QED BY <1>3, <1>7, <1>8, <2>1, Rewritten
<1>11. Mirrors'
  BY <1>3, CompactMirrors
<1>12. /\ record' = record \o (batch \o rows)
       /\ run' = [run EXCEPT !.step = "asked", !.items = restated, !.pending = <<>>,
                             !.next = @ + Len(inbox) + Len(rewrite)]
       /\ inbox' = <<>> /\ UNCHANGED turn
  <2> DEFINE stored == batch \o rows
  <2>1. run.pending \o steered \o rewrite = stored /\ ~ Refused(record, stored)
        /\ Appended(record, stored) = record \o stored
    BY <1>5, <1>9, <1>10
  <2> HIDE DEF steered, rewrite, stored
  <2> QED BY <1>1, <2>1 DEF Flush, stored
<1>13. /\ run'.step = "asked" /\ run'.items = restated /\ run'.pending = <<>>
  <2>1. {"step", "items", "pending", "next"} \subseteq DOMAIN run
    BY <1>3 DEF NoWork
  <2> HIDE DEF rewrite
  <2> QED BY <1>3, <1>12, <2>1
<1>14. run' # NoWork
  BY <1>13 DEF NoWork
<1>15. IsSequence(rows)
  <2> DEFINE n == boundary.seq
  <2>1. n \in Nat
    BY <1>8
  <2> HIDE DEF n
  <2>2. Spans(rows, n, AfterRewrite(n, restated))
    BY <1>7, <1>8, <2>1, RewriteSpans DEF n
  <2> HIDE DEF rows
  <2> QED BY <2>2 DEF Spans, Ordered, Entries
<1>16. record' = (record \o batch) \o rows
  <2> HIDE DEF rows, batch
  <2> QED BY <1>3, <1>4, <1>12, <1>15, JoinedTwice
<1>17. ASSUME NEW B \in SUBSET UserTexts, Without(k, B)
       PROVE  RunWithout(run', B) /\ RowsWithout((record \o batch) \o rows, B)
  <2>1. Without(run.items, B)
    BY <1>3, <1>17 DEF Working, RunWithout
  <2>2. run'.next \in Nat
    BY <1>11, <1>14 DEF Mirrors, Kept
  <2>3. Without(restated, B)
    BY <1>6, <2>1, RestatedWithout
  <2>4. RunWithout(run', B)
    <3> DEFINE a == run'
    <3>1. a.step \in {"gather", "asked"} /\ a.next \in Nat /\ a.pending = <<>> /\ Without(a.items, B)
      BY <1>13, <2>2, <2>3
    <3> HIDE DEF a
    <3>2. RunWithout(a, B)
      BY <3>1, RunWithoutAll
    <3> QED BY <3>2 DEF a
  <2>5. RowsWithout(rows, B)
    BY <1>8, <2>3, RewriteWithout
  <2>6. RowsWithout(record \o batch, B)
    BY <1>4, <1>17
  <2> HIDE DEF rows, batch
  <2>7. RowsWithout((record \o batch) \o rows, B)
    BY <2>5, <2>6, RowsJoined
  <2> QED BY <2>4, <2>7
<1>18. Viewed(record', k, lead)
  <2> DEFINE rec == record \o batch
  <2>1. PICK covered : Holds(restated, Item("user", <<Summary(covered)>>))
    BY <1>7
  <2>2. /\ Viewed(rec, k, lead) /\ Ordered(rec)
        /\ \A B \in SUBSET UserTexts : Without(k, B) => RowsWithout(rec \o Rewrite(boundary, restated), B)
    BY <1>4, <1>17
  <2>3. record' = rec \o Rewrite(boundary, restated)
    BY <1>16
  <2> HIDE DEF rec, k, lead
  <2>4. Viewed(rec \o Rewrite(boundary, restated), k, lead)
    BY <1>7, <1>8, <2>1, <2>2, ViewRewritten
  <2> QED BY <2>3, <2>4
<1>19. PICK r : turn' = [turn EXCEPT ![run.turn] = r] /\ Quiet(r) /\ r.phase = "open"
  BY <1>2, <1>12, TurnStays
<1>20. Led(run'.items, lead) /\ \A B \in SUBSET UserTexts : Without(k, B) => RunWithout(run', B)
  BY <1>7, <1>13, <1>17
<1> QED BY <1>1, <1>2, <1>11, <1>12, <1>13, <1>14, <1>18, <1>19, <1>20, StaysAtWork

\* When nothing waits the view is all that is known, and the record is not
\* empty.
LEMMA NothingHidden ==
  ASSUME Plainly, run # NoWork, run.pending = <<>>
  PROVE  /\ Viewed(record, Known(system, host), SystemItem(system))
         /\ record # <<>> /\ Led(LoadItems(record), SystemItem(system))
<1> DEFINE v == LoopView(record)
           lead == SystemItem(system)
           k == Known(system, host)
<1>1. /\ v \o Waiting(run) = k /\ IsSequence(v) /\ IsSequence(run.items) /\ Mirrors
      /\ Viewed(record, v, lead) /\ Led(run.items, lead) /\ Kept(record, run) /\ Ordered(record)
  BY AtWork DEF Working
<1>2. Waiting(run) = <<>> /\ Durable(run) = Len(run.items)
  BY <1>1, NothingWaits
<1>3. v = k
  <2> HIDE DEF v, k
  <2> QED BY <1>1, <1>2, JoinedToNone
<1>4. record # <<>>
  <2>1. SubSeq(run.items, 1, Durable(run)) = run.items
    BY <1>1, <1>2, WholePrefix
  <2>2. Bares(LoadItems(record)) = Bares(run.items)
    BY <1>1, <2>1 DEF Kept
  <2>3. Len(Bares(run.items)) = Len(run.items) /\ run.items # <<>>
    BY <1>1, BaresOf DEF Led
  <2>4. Len(run.items) # 0
    BY <1>1, <2>3, EmptySeq
  <2>5. ASSUME record = <<>> PROVE FALSE
    <3>1. Bares(LoadItems(record)) = <<>>
      BY <2>5, LoadedNone DEF Bares
    <3> QED BY <2>2, <2>3, <2>4, <3>1, None
  <2> QED BY <2>5
<1>5. Viewed(record, k, lead) /\ Led(LoadItems(record), lead)
  BY <1>1, <1>3, <1>4 DEF Viewed
<1> QED BY <1>4, <1>5

\* A tool round without narration.
LEMMA RoundFaithful ==
  ASSUME Plainly, Round, plain'
  PROVE  Faithful'
<1> DEFINE item == Item("round", <<Piece("round", run.turn)>>)
           one == <<item>>
           batch == Numbered(run.next, one)
           t == run.turn
           lead == SystemItem(system)
           k == Known(system, host)
<1>1. /\ run.step = "asked" /\ UNCHANGED <<host, unwound, system, overlapped>>
      /\ record' = Appended(record, batch)
      /\ ~ Refused(record, batch) =>
           /\ run' = [run EXCEPT !.step = "gather", !.items = Append(@, item),
                                 !.next = @ + 1, !.rounds = @ + 1]
           /\ turn' = [turn EXCEPT ![t].said = @ \o <<>>, ![t].acted = TRUE]
           /\ UNCHANGED inbox
  BY DEF Round
<1>2. run # NoWork
  BY <1>1 DEF NoWork
<1>3. /\ Mirrors /\ IsSequence(run.items) /\ DOMAIN run = DOMAIN NoWork /\ inbox = <<>> /\ Working
      /\ Kept(record, run) /\ IsSequence(record) /\ Ordered(record) /\ PlainRows(host) /\ Tidy
      /\ Turns /\ IsSequence(host) /\ t \in Turn /\ turn[t] \in TurnRecord /\ turn[t].phase = "open"
      /\ Said = <<>> /\ run.next \in Nat
  BY <1>2, AtWork
<1>4. run.pending = <<>>
  BY <1>1, <1>3 DEF Kept
<1>5. Viewed(record, k, lead) /\ record # <<>>
  BY <1>2, <1>4, NothingHidden
<1>6. /\ Appended(record, batch) = record \o batch /\ ~ Refused(record, batch)
  <2>1. Kept(record, run) /\ run.step = "asked"
    BY <1>1, <1>3
  <2> HIDE DEF item
  <2>2. /\ Appended(record, batch) = record \o batch /\ ~ Refused(record, batch)
        /\ run.next \in Nat /\ Spans(record \o batch, 0, run.next + 1)
        /\ Bares(LoadItems(record \o batch)) = Bares(run.items \o <<item>>)
    BY <2>1, StoredAtOnce
  <2> QED BY <2>2
<1>7. /\ record' = record \o batch
      /\ run' = [run EXCEPT !.step = "gather", !.items = Append(@, item),
                            !.next = @ + 1, !.rounds = @ + 1]
      /\ turn' = [turn EXCEPT ![t].said = @ \o <<>>, ![t].acted = TRUE]
      /\ inbox' = <<>>
  <2> HIDE DEF batch, item, t
  <2> QED BY <1>1, <1>3, <1>6
<1>8. /\ run'.step = "gather" /\ run'.items = Append(run.items, item) /\ run'.pending = <<>>
  <2> HIDE DEF item
  <2>1. {"step", "items", "pending", "next", "rounds"} \subseteq DOMAIN run
    BY <1>3 DEF NoWork
  <2> QED BY <1>4, <1>7, <2>1
<1>9. run' # NoWork
  BY <1>8 DEF NoWork
<1>10. Mirrors'
  BY <1>3, RoundMirrors
<1>11. ASSUME NEW B \in SUBSET UserTexts, Without(k, B)
       PROVE  RunWithout(run', B) /\ RowsWithout(record', B)
  <2>1. RowsWithout(record, B) /\ RunWithout(run, B)
    BY <1>2, <1>11, WorkKnown
  <2>2. Unheard(record, unwound, inbox, run, B)
    BY <1>3, <2>1, FaithUnheard
  <2>3. Unheard(record', unwound', inbox', run', B)
    BY <1>3, <2>2, RoundUnheard
  <2> QED BY <1>9, <2>3 DEF Unheard
<1>12. IsSequence(one) /\ HostView(one) = <<>> /\ \A i \in DOMAIN one : one[i].kind # "steer"
  <2>1. item.kind = "round"
    BY DEF Item
  <2> HIDE DEF item
  <2>2. IsSequence(one) /\ HostView(one) = <<>>
    BY <2>1, Single, ViewOne DEF HostVisible
  <2> QED BY <2>1, <2>2
<1>13. Viewed(record', k, lead)
  <2>0. IsSequence(k)
    BY <1>3, KnownIs
  <2> HIDE DEF one, k, lead
  <2>1. k \o HostView(one) = k
    BY <1>12, <2>0, JoinedToNone
  <2>2. \A B \in SUBSET UserTexts :
           Without(k \o HostView(one), B) => RowsWithout(record \o Numbered(run.next, one), B)
    BY <1>7, <1>11, <2>1
  <2>3. Viewed(record \o Numbered(run.next, one), k \o HostView(one), lead)
    BY <1>3, <1>5, <1>12, <2>2, ViewGrows
  <2> QED BY <1>7, <2>1, <2>3
<1>14. Led(run'.items, lead)
  <2> HIDE DEF item
  <2>1. Led(run.items, lead)
    BY <1>3 DEF Working
  <2>2. Append(run.items, item) = run.items \o one
    BY <1>3, AppendJoins
  <2> HIDE DEF one, lead
  <2> QED BY <1>3, <1>8, <1>12, <2>1, <2>2, LedJoined
<1> DEFINE r == [turn[t] EXCEPT !.said = @ \o <<>>, !.acted = TRUE]
<1>15. turn' = [turn EXCEPT ![t] = r] /\ r.phase = "open" /\ Quiet(r)
  <2>1. r.phase = "open" /\ r.mode = turn[t].mode /\ r.said = <<>>
    <3>1. turn[t].said = <<>>
      BY <1>3 DEF Said
    <3>2. turn[t].said \o <<>> = <<>>
      BY <3>1, None, JoinedToNone
    <3> HIDE DEF t
    <3> QED BY <1>3, <3>2 DEF TurnRecord
  <2>2. turn' = [turn EXCEPT ![t] = r]
    <3> HIDE DEF t
    <3> QED BY <1>3, <1>7 DEF Turns
  <2>3. Quiet(turn[t])
    BY <1>3 DEF Tidy
  <2> HIDE DEF r, t
  <2> QED BY <1>3, <2>1, <2>2, <2>3 DEF Quiet
<1>16. turn' = [turn EXCEPT ![run.turn] = r]
  BY <1>15
<1> HIDE DEF r
<1> QED BY <1>1, <1>2, <1>7, <1>8, <1>9, <1>10, <1>11, <1>13, <1>14, <1>15, <1>16, StaysAtWork

\* A new loop goes on where the record is.
LEMMA ContinueFaithful ==
  ASSUME Plainly, Continue
  PROVE  Faithful'
<1> DEFINE prior == Bares(LoadItems(record))
           plan == PlanSeeding(record, prior)
           started == StartedRun(run.turn, prior, plan)
           lead == SystemItem(system)
           k == Known(system, host)
<1>1. /\ run.step = "gather" /\ run.rounds > 0
      /\ UNCHANGED <<host, turn, unwound, system, overlapped>>
      /\ inbox' = <<>>
      /\ record' = record \o plan.boundary /\ run' = [started EXCEPT !.sent = run.sent]
  BY DEF Continue
<1>2. run # NoWork
  BY <1>1 DEF NoWork
<1>3. /\ Mirrors /\ Working /\ IsSequence(record) /\ Ordered(record) /\ Tidy
  BY <1>2, AtWork
<1>4. run.pending = <<>>
  BY <1>1, <1>3 DEF Working
<1>5. Viewed(record, k, lead) /\ record # <<>> /\ Led(LoadItems(record), lead)
  BY <1>2, <1>4, NothingHidden
<1>6. Led(prior, lead) /\ LoadItems(record) # <<>>
  BY <1>3, <1>5, PriorLed DEF Led
<1>7. plan.boundary = <<>> /\ plan.items = prior /\ plan.durable = Len(prior)
  <2>1. plan = Seeding(prior, NextSeq(record), Len(prior), <<>>)
    BY <1>3, <1>5, <1>6, PlanReplays
  <2> QED BY <2>1 DEF Seeding
<1>8. UNCHANGED record
  BY <1>1, <1>3, <1>7, JoinedToNone
<1>9. run'.step = "gather" /\ run'.items = prior /\ run'.pending = <<>>
  <2>1. started.step = "gather" /\ started.items = prior
        /\ started.pending = SubSeq(Numbered(plan.first, prior), Len(prior) + 1,
                                    Len(Numbered(plan.first, prior)))
    BY <1>7 DEF StartedRun
  <2>2. started.pending = <<>>
    <3>1. IsSequence(prior)
      BY <1>3, LoadedIs, BaresOf DEF Ordered
    <3>2. plan.first \in Nat
      <4>1. IsSequence(prior)
        BY <3>1
      <4>2. Planned(record, plan)
        BY <1>3, <4>1, PlansWell
      <4> QED BY <4>2 DEF Planned
    <3> DEFINE e == Numbered(plan.first, prior)
               first == plan.first
    <3> HIDE DEF prior, first
    <3>3. IsSequence(Numbered(first, prior)) /\ Len(Numbered(first, prior)) = Len(prior)
      BY <3>1, <3>2, NumberedIs DEF first
    <3>4. IsSequence(e) /\ Len(e) = Len(prior)
      BY <3>3 DEF first
    <3> HIDE DEF e
    <3>5. SubSeq(e, Len(prior) + 1, Len(e)) = <<>>
      BY <3>4, NothingLeft
    <3> QED BY <2>1, <3>5 DEF e
  <2>3. run'.step = started.step /\ run'.items = started.items /\ run'.pending = started.pending
    BY <1>1 DEF StartedRun
  <2> QED BY <2>1, <2>2, <2>3
<1>10. run' # NoWork
  BY <1>9 DEF NoWork
<1>11. Mirrors'
  <2>1. MirrorInv
    BY <1>3 DEF Mirrors, MirrorInv
  <2>2. MirrorInv'
    BY <2>1, ContinueMirrors
  <2>3. ~ overlapped'
    BY <1>1, <1>3 DEF Tidy
  <2> QED BY <2>2, <2>3 DEF MirrorInv, Mirrors
<1>12. ASSUME NEW B \in SUBSET UserTexts, Without(k, B) PROVE RunWithout(run', B)
  <2>1. RowsWithout(record, B) /\ RunWithout(run, B)
    BY <1>2, <1>12, WorkKnown
  <2>2. Unheard(record, unwound, inbox, run, B)
    BY <1>3, <2>1, FaithUnheard
  <2>3. Unheard(record', unwound', inbox', run', B)
    BY <2>2, ContinueUnheard
  <2> QED BY <1>10, <2>3 DEF Unheard
<1>13. PICK r : turn' = [turn EXCEPT ![run.turn] = r] /\ Quiet(r) /\ r.phase = "open"
  BY <1>1, <1>2, TurnStays
<1>14. Viewed(record', k, lead) /\ Led(run'.items, lead)
  BY <1>5, <1>6, <1>8, <1>9
<1> QED BY <1>1, <1>2, <1>9, <1>10, <1>11, <1>12, <1>13, <1>14, StaysAtWork

\* The stream of the run's turn ends.
LEMMA EndFaithful ==
  ASSUME Plainly, run # NoWork, UNCHANGED <<host, system, unwound, overlapped>>,
         NEW said, NEW acted, EndRun(said, acted), said = <<>> => ~ acted,
         NEW v, Viewed(record', v, SystemItem(system)),
         Follows(v, Known(system, Append(host, Row(run.turn, "assistant", said, acted))))
  PROVE  Faithful'
<1>0. PICK t \in Turn : t = run.turn
  BY AtWork
<1> DEFINE r == [turn[t] EXCEPT !.phase = "ended", !.said = said, !.acted = acted]
<1>1. /\ Turns /\ Tidy /\ PlainRows(host) /\ t \in Turn /\ turn[t].phase = "open"
      /\ turn[t] \in TurnRecord
  BY <1>0, AtWork
<1>2. run' = NoWork /\ inbox' = <<>>
      /\ turn' = [turn EXCEPT ![t].phase = "ended", ![t].said = said, ![t].acted = acted]
  BY <1>0 DEF EndRun
<1>3. /\ turn' = [turn EXCEPT ![t] = r] /\ r.phase = "ended" /\ r.mode = turn[t].mode
      /\ r.said = said /\ r.acted = acted
  BY <1>1, <1>2 DEF TurnRecord, Turns
<1>4. Quiet(r)
  <2>1. Quiet(turn[t])
    BY <1>1 DEF Tidy
  <2> HIDE DEF r
  <2> QED BY <1>1, <1>3, <2>1 DEF Quiet
<1> HIDE DEF r
<1>5. Tidy' /\ turn'[t] = r /\ \A s \in Turn : s # t => turn'[s] = turn[s]
  <2>1. UNCHANGED <<unwound, overlapped>>
    OBVIOUS
  <2> QED BY <1>1, <1>2, <1>3, <1>4, <2>1, TidyMoves
<1>6. LoopView(record') = v
  <2> DEFINE rec == record'
             lead == SystemItem(system)
  <2>1. Viewed(rec, v, lead)
    OBVIOUS
  <2> HIDE DEF rec, lead
  <2>2. LoopView(rec) = v
    BY <2>1, ViewIs
  <2> QED BY <2>2 DEF rec
<1>7. Joining'
  <2>1. ReplyRow(t)' = Row(t, "assistant", said, acted)
    BY <1>3, <1>5 DEF ReplyRow
  <2>2. turn'[t].phase = "ended"
    BY <1>3, <1>5
  <2>3. Follows(LoopView(record'), Known(system', Append(host', ReplyRow(t)')))
    BY <1>0, <1>6, <2>1
  <2> QED BY <1>1, <1>2, <1>5, <2>2, <2>3, MoveJoins
<1>8. Viewed(record, LoopView(record), SystemItem(system))' /\ PlainRows(host')
  BY <1>1, <1>6
<1> QED BY <1>5, <1>7, <1>8 DEF Faithful

\* The model replies.
LEMMA ReplyFaithful ==
  ASSUME Plainly, Reply
  PROVE  Faithful'
<1> DEFINE t == run.turn
           text == <<Piece("reply", t)>>
           item == Item("assistant", text)
           one == <<item>>
           batch == Numbered(run.next, one)
           lead == SystemItem(system)
           k == Known(system, host)
<1>1. /\ run.step = "asked" /\ UNCHANGED <<host, unwound, system, overlapped>>
      /\ record' = Appended(record, batch) /\ EndRun(Said \o text, Acted)
  BY DEF Reply
<1>2. run # NoWork
  BY <1>1 DEF NoWork
<1>3. /\ Mirrors /\ Kept(record, run) /\ IsSequence(record) /\ Ordered(record) /\ PlainRows(host)
      /\ Tidy /\ IsSequence(host) /\ Said = <<>> /\ run.next \in Nat
  BY <1>2, AtWork
<1>4. run.pending = <<>>
  BY <1>1, <1>3 DEF Kept
<1>5. Viewed(record, k, lead) /\ record # <<>>
  BY <1>2, <1>4, NothingHidden
<1>6. record' = record \o batch
  <2>1. Kept(record, run) /\ run.step = "asked"
    BY <1>1, <1>3
  <2> HIDE DEF item
  <2>2. /\ Appended(record, batch) = record \o batch /\ ~ Refused(record, batch)
        /\ run.next \in Nat /\ Spans(record \o batch, 0, run.next + 1)
        /\ Bares(LoadItems(record \o batch)) = Bares(run.items \o <<item>>)
    BY <2>1, StoredAtOnce
  <2> HIDE DEF batch
  <2> QED BY <1>1, <2>2
<1>7. IsSequence(text) /\ text # <<>> /\ Said \o text = text
  <2>1. IsSequence(text) /\ text # <<>>
    BY Single, None
  <2> HIDE DEF text
  <2> QED BY <1>3, <2>1, JoinedToNone
<1>8. IsSequence(one) /\ HostView(one) = one /\ \A i \in DOMAIN one : one[i].kind # "steer"
  <2>1. item.kind = "assistant"
    BY DEF Item
  <2> HIDE DEF item
  <2>2. IsSequence(one) /\ HostView(one) = one
    BY <2>1, Single, ViewOne DEF HostVisible
  <2> QED BY <2>1, <2>2
<1>9. ASSUME NEW B \in SUBSET UserTexts, Without(k \o one, B) PROVE RowsWithout(record', B)
  <2>0. IsSequence(k)
    BY <1>3, KnownIs
  <2>1. Without(k, B)
    <3> HIDE DEF k, one
    <3> QED BY <1>8, <1>9, <2>0, WithoutFirst
  <2>2. RowsWithout(record, B) /\ RunWithout(run, B)
    BY <1>2, <2>1, WorkKnown
  <2>3. Unheard(record, unwound, inbox, run, B)
    BY <1>3, <2>2, FaithUnheard
  <2>4. Unheard(record', unwound', inbox', run', B)
    BY <2>3, EndingUnheard
  <2> QED BY <2>4 DEF Unheard
<1> DEFINE w == k \o one
<1>10. Viewed(record', w, lead)
  <2> HIDE DEF one, k, lead
  <2>1. \A B \in SUBSET UserTexts :
           Without(k \o HostView(one), B) => RowsWithout(record \o Numbered(run.next, one), B)
    BY <1>6, <1>8, <1>9
  <2>2. Viewed(record \o Numbered(run.next, one), k \o HostView(one), lead)
    BY <1>3, <1>5, <1>8, <2>1, ViewGrows
  <2> QED BY <1>6, <1>8, <2>2
<1> DEFINE row == Row(t, "assistant", text, Acted)
<1>11. Follows(w, Known(system, Append(host, row)))
  <2>1. Told(row) = one
    <3>1. row.role = "assistant" /\ row.text = text
      BY DEF Row
    <3> HIDE DEF row, text
    <3> QED BY <1>7, <3>1 DEF Told
  <2> HIDE DEF row
  <2>2. Known(system, Append(host, row)) = k \o Told(row)
    BY <1>3, KnownMore
  <2>3. IsSequence(k)
    BY <1>3, KnownIs
  <2> HIDE DEF k, one
  <2>4. IsSequence(w) /\ IsSequence(<<>>) /\ NoReply(<<>>)
    BY <1>8, <2>3, JoinedIs, None DEF NoReply
  <2>5. Known(system, Append(host, row)) = w
    BY <2>1, <2>2
  <2> HIDE DEF w
  <2>6. w = w \o <<>>
    BY <2>4, JoinedToNone
  <2> QED BY <2>4, <2>5, <2>6 DEF Follows
<1>12. EndRun(text, Acted)
  BY <1>1, <1>7
<1>13. Viewed(record', w, SystemItem(system)) /\ Follows(w, Known(system, Append(host, Row(t, "assistant", text, Acted))))
  BY <1>10, <1>11
<1> HIDE DEF w, text
<1> QED BY <1>1, <1>2, <1>7, <1>12, <1>13, EndFaithful

\* The run fails, and nothing was said or called.
LEMMA FailFaithful ==
  ASSUME Plainly, Fail, plain'
  PROVE  Faithful'
<1> DEFINE v == LoopView(record)
           k == Known(system, host)
<1>1. run # NoWork /\ UNCHANGED <<host, record, unwound, system, overlapped>>
      /\ \E part : EndRun(Said \o part, Acted) /\ Said \o part = <<>> /\ ~ Acted
  BY DEF Fail
<1>2. EndRun(<<>>, Acted) /\ ~ Acted
  BY <1>1
<1>3. Working /\ IsSequence(host) /\ Viewed(record, v, SystemItem(system))
  BY <1>1, AtWork
<1> DEFINE row == Row(run.turn, "assistant", <<>>, Acted)
<1>4. Follows(v, Known(system, Append(host, row)))
  <2>1. Told(row) = <<>>
    BY DEF Row, Told
  <2> HIDE DEF row
  <2>2. Known(system, Append(host, row)) = k \o Told(row)
    BY <1>3, KnownMore
  <2>3. IsSequence(k)
    BY <1>3, KnownIs
  <2>4. IsSequence(Waiting(run)) /\ k = v \o Waiting(run) /\ NoReply(Waiting(run))
    BY <1>1, <1>3, WorkKnown DEF Working
  <2> HIDE DEF k
  <2>5. k \o <<>> = k
    BY <2>3, JoinedToNone
  <2> QED BY <2>1, <2>2, <2>4, <2>5 DEF Follows
<1>5. Viewed(record', v, SystemItem(system))
      /\ Follows(v, Known(system, Append(host, Row(run.turn, "assistant", <<>>, Acted))))
  BY <1>1, <1>3, <1>4
<1> HIDE DEF v
<1> QED BY <1>1, <1>2, <1>5, EndFaithful

\* Both processes die, and no word that was streamed is lost.
LEMMA CrashFollows ==
  ASSUME Plainly, NEW t \in Turn, turn[t].phase \in {"said", "open", "ended", "stored"},
         turn[t].phase = "ended" => turn[t].said = <<>>
  PROVE  Follows(LoopView(record), Known(system, host))
<1> DEFINE v == LoopView(record)
           k == Known(system, host)
           w == system
<1>1. Turns /\ Tidy /\ PlainRows(host) /\ Joining /\ IsSequence(host) /\ IsSequence(k)
  <2>1. Turns /\ Tidy /\ PlainRows(host) /\ Joining /\ IsSequence(host)
    BY DEF Plainly, Faithful, PlainRows, HostTable
  <2> QED BY <2>1, KnownIs
<1>2. IsSequence(v)
  <2> DEFINE lead == SystemItem(system)
  <2>1. Viewed(record, v, lead)
    BY DEF Plainly, Faithful
  <2> HIDE DEF lead
  <2> QED BY <2>1, ViewIs
<1>3. k \o <<>> = k
  <2> HIDE DEF k
  <2> QED BY <1>1, JoinedToNone
<1>4. Quiet(turn[t])
  BY <1>1 DEF Tidy
<1>5. CASE turn[t].phase = "said" /\ turn[t].mode = "send"
  <2>1. PICK h : IsSequence(h) /\ host = Append(h, UserRow(t)) /\ Follows(v, Known(w, h))
    BY <1>1, <1>5 DEF Joining
  <2>2. PICK rest : IsSequence(rest) /\ Known(w, h) = v \o rest /\ NoReply(rest)
    BY <2>1 DEF Follows
  <2> DEFINE last == <<Item("user", <<Piece("user", t)>>)>>
             all == rest \o last
  <2>3. k = Known(w, h) \o last
    BY <1>1, <1>5, <2>1, SendsAlike
  <2>4. IsSequence(last) /\ \A i \in DOMAIN last : last[i].kind # "assistant"
    BY Single DEF Item
  <2> HIDE DEF k, v, last
  <2>5. k = v \o all
    BY <1>2, <2>2, <2>3, <2>4, JoinedTwice
  <2>6. IsSequence(all)
    BY <2>2, <2>4, JoinedIs
  <2>7. NoReply(all)
    <3>1. /\ \A i \in DOMAIN all : all[i] = IF i \in DOMAIN rest THEN rest[i] ELSE last[i - Len(rest)]
          /\ \A i \in DOMAIN all : i \notin DOMAIN rest => i - Len(rest) \in DOMAIN last
      BY <2>2, <2>4, JoinedDomain
    <3> HIDE DEF all
    <3> QED BY <2>2, <2>4, <3>1 DEF NoReply
  <2> HIDE DEF all
  <2>8. Follows(v, k)
    BY <2>5, <2>6, <2>7 DEF Follows
  <2> QED BY <2>8 DEF v, k
<1>6. CASE turn[t].phase = "said" /\ turn[t].mode # "send"
  <2>1. turn[t].mode = "resume"
    BY <1>4, <1>6 DEF Quiet
  <2>2. v = k
    BY <1>1, <1>6, <2>1 DEF Joining
  <2> HIDE DEF k, v
  <2>3. k = v \o <<>> /\ IsSequence(<<>>) /\ NoReply(<<>>)
    BY <1>3, <2>2, None DEF NoReply
  <2>4. Follows(v, k)
    BY <2>3 DEF Follows
  <2> QED BY <2>4 DEF v, k
<1>7. CASE run # NoWork
  <2>1. v \o Waiting(run) = k /\ NoReply(Waiting(run)) /\ IsSequence(Waiting(run))
    BY <1>7, AtWork, WorkKnown DEF Working
  <2> QED BY <2>1 DEF Follows
<1>8. CASE run = NoWork /\ turn[t].phase \in {"open", "stored"}
  <2>1. \A s \in Turn : turn[s].phase \notin {"said", "ended"}
    BY <1>1, <1>8, OnlyOne
  <2> QED BY <1>1, <1>8, <2>1 DEF Joining
<1>9. CASE turn[t].phase = "ended"
  <2>1. Follows(v, Known(w, Append(host, ReplyRow(t))))
    BY <1>1, <1>9 DEF Joining
  <2>2. Told(ReplyRow(t)) = <<>>
    BY <1>9 DEF ReplyRow, Row, Told
  <2> DEFINE row == ReplyRow(t)
  <2> HIDE DEF row
  <2>3. Known(w, Append(host, row)) = k \o Told(row)
    BY <1>1, KnownMore
  <2> QED BY <1>3, <2>1, <2>2, <2>3 DEF row
<1> QED BY <1>5, <1>6, <1>7, <1>8, <1>9

\* Both processes die and are started again: what the record lost of an open turn, the
\* host's rows never had, and the chat is joined as it was.
LEMMA CrashFaithful ==
  ASSUME Plainly, Crash, plain'
  PROVE  Faithful'
<1>1. PICK t \in Turn : turn[t].phase \in {"said", "open", "ended", "stored"}
  BY DEF Crash
<1>2. /\ UNCHANGED <<host, record, system, overlapped>>
      /\ run' = NoWork /\ unwound' = <<>> /\ inbox' = <<>>
      /\ \A s \in Turn : turn[s].phase = "ended" => turn[s].said = <<>>
      /\ turn' = [s \in Turn |->
                IF turn[s].phase \in {"said", "open", "ended", "stored"}
                THEN [turn[s] EXCEPT !.phase = "dead", !.said = <<>>] ELSE turn[s]]
  BY DEF Crash
<1>3. Turns /\ Tidy /\ PlainRows(host)
  BY DEF Plainly, Faithful
<1>4. ASSUME NEW s \in Turn
      PROVE  Quiet(turn'[s]) /\ turn'[s].phase \notin {"said", "open", "ended", "stored"}
  <2>1. Quiet(turn[s]) /\ turn[s] \in TurnRecord
    BY <1>3 DEF Tidy, Turns
  <2>2. CASE turn[s].phase \in {"said", "open", "ended", "stored"}
    <3> DEFINE r == [turn[s] EXCEPT !.phase = "dead", !.said = <<>>]
    <3>1. turn'[s] = r /\ r.phase = "dead" /\ r.mode = turn[s].mode
      BY <1>2, <2>1, <2>2 DEF TurnRecord
    <3> HIDE DEF r
    <3> QED BY <2>1, <2>2, <3>1 DEF Quiet
  <2>3. CASE turn[s].phase \notin {"said", "open", "ended", "stored"}
    BY <1>2, <2>1, <2>3
  <2> QED BY <2>2, <2>3
<1>5. Tidy'
  BY <1>2, <1>3, <1>4 DEF Tidy
<1>6. Follows(LoopView(record'), Known(system', host'))
  BY <1>1, <1>2, CrashFollows
<1>7. Joining'
  BY <1>2, <1>4, <1>6 DEF Joining
<1>8. Faithful
  BY DEF Plainly
<1> QED BY <1>2, <1>3, <1>5, <1>7, <1>8, LeavesRecord DEF Faithful

-----------------------------------------------------------------------------
(* The theorem.                                                            *)

\* The inductive invariant, as long as the chat is plain.
FaithInv == plain => Faithful

\* It holds of the empty chat.
LEMMA FaithInitially == HistoryInit => FaithInv
<1> SUFFICES ASSUME HistoryInit PROVE Faithful
  BY DEF FaithInv
<1> DEFINE lead == SystemItem(system)
           none == <<Summary(<<>>)>>
<1>1. /\ host = <<>> /\ record = <<>> /\ run = NoWork /\ unwound = <<>> /\ inbox = <<>> /\ ~ overlapped
      /\ turn = [t \in Turn |-> [mode |-> "none", phase |-> "unsent", said |-> <<>>, acted |-> FALSE]]
  BY DEF HistoryInit
<1>2. \A t \in Turn : turn[t].phase = "unsent" /\ Quiet(turn[t])
  BY <1>1 DEF Quiet
<1>3. Tidy
  BY <1>1, <1>2 DEF Tidy
<1>4. PlainRows(host)
  BY <1>1, None DEF PlainRows, HostTable
<1>5. LoopView(record) = <<>> /\ Folded(record) = [skip |-> 0, items |-> <<>>]
  BY <1>1, FoldedNone DEF LoopView, Folded
<1>6. Viewed(record, <<>>, lead)
  <2>1. LoadItems(record) = <<>>
    BY <1>1, LoadedNone
  <2>2. HostView(<<>>) = <<>>
    <3>1. \A i \in DOMAIN <<>> : HostVisible(<<>>[i])
      OBVIOUS
    <3> QED BY <3>1, None, ViewWhole
  <2>3. NoBoundary(record)
    BY <1>1 DEF NoBoundary
  <2> HIDE DEF none
  <2>4. RunsOwn(record, <<>>, none)
    BY <1>1, <1>5, <2>1, <2>2, <2>3, None DEF RunsOwn
  <2>5. \A B \in SUBSET UserTexts : RowsWithout(record, B)
    BY <1>1, RowsNone
  <2> QED BY <1>1, <2>4, <2>5 DEF Viewed, none
<1>7. Joining
  <2>1. IsSequence(Known(system, host))
    BY <1>1, None, KnownIs
  <2> DEFINE k == Known(system, host)
  <2> HIDE DEF k
  <2>2. NoReply(k)
    <3>1. k = <<SystemItem(system)>>
      BY <1>1, TextedNone, SingleIs, JoinedToNone DEF Known, k
    <3>2. DOMAIN k = 1..1 /\ k[1].kind = "system"
      BY <3>1 DEF SystemItem, Item
    <3> QED BY <3>2 DEF NoReply
  <2>3. <<>> \o k = k /\ IsSequence(k)
    BY <2>1, JoinedToNone DEF k
  <2>4. Follows(LoopView(record), k)
    BY <1>5, <2>2, <2>3 DEF Follows
  <2> QED BY <1>1, <1>2, <2>4 DEF Joining, k
<1> QED BY <1>3, <1>4, <1>5, <1>6, <1>7 DEF Faithful

\* Every step keeps the chat so, or ends that it is plain.
LEMMA FaithStep ==
  MirrorInv /\ OfferInv /\ FaithInv /\ [HistoryNext]_historyVars => FaithInv'
<1> SUFFICES ASSUME MirrorInv, OfferInv, FaithInv, [HistoryNext]_historyVars, plain'
             PROVE  Faithful'
  BY DEF FaithInv
<1>1. plain => Plainly
  BY DEF FaithInv, OfferInv, Plainly, Faithful, Tidy, MirrorInv, Mirrors
<1>2. ASSUME NEW t \in Turn, Say(t) PROVE Faithful'
  <2>1. plain
    BY <1>2 DEF Say
  <2> QED BY <1>1, <1>2, <2>1, SayFaithful
<1>3. ASSUME NEW t \in Turn, Open(t) PROVE Faithful'
  <2>1. plain
    BY <1>3 DEF Open
  <2> QED BY <1>1, <1>3, <2>1, OpenFaithful
<1>4. ASSUME NEW t \in Turn, StoreReply(t) PROVE Faithful'
  <2>1. plain
    BY <1>4 DEF StoreReply
  <2> QED BY <1>1, <1>4, <2>1, StoreFaithful
<1>5. ASSUME NEW t \in Turn, ClearTurnActive(t) PROVE Faithful'
  <2>1. plain
    BY <1>5 DEF ClearTurnActive
  <2> QED BY <1>1, <1>5, <2>1, ClearFaithful
<1>6. ASSUME NEW t \in Turn, Resume(t) PROVE Faithful'
  <2>1. plain
    BY <1>6 DEF Resume
  <2> QED BY <1>1, <1>6, <2>1, ResumeFaithful
<1>7. ASSUME NEW t \in Turn, NEW i \in DOMAIN host, Regenerate(t, i) PROVE FALSE
  BY <1>7 DEF Regenerate
<1>8. CASE Steer
  BY <1>8 DEF Steer
<1>9. ASSUME NEW cut \in 0..Len(run.items), Request(cut) PROVE Faithful'
  <2>1. plain
    BY <1>9 DEF Request
  <2>2. cut \in Nat
    OBVIOUS
  <2>3. CASE cut = 0
    BY <1>1, <1>9, <2>1, <2>3, RequestFaithful
  <2>4. CASE cut # 0
    BY <1>1, <1>9, <2>1, <2>2, <2>4, CompactFaithful
  <2> QED BY <2>3, <2>4
<1>10. CASE Round
  <2>1. plain
    BY <1>10 DEF Round
  <2> QED BY <1>1, <1>10, <2>1, RoundFaithful
<1>11. CASE Reply
  <2>1. plain
    BY <1>11 DEF Reply
  <2> QED BY <1>1, <1>11, <2>1, ReplyFaithful
<1>12. CASE Continue
  <2>1. plain
    BY <1>12 DEF Continue
  <2> QED BY <1>1, <1>12, <2>1, ContinueFaithful
<1>13. CASE Fail
  <2>1. plain
    BY <1>13 DEF Fail
  <2> QED BY <1>1, <1>13, <2>1, FailFaithful
<1>14. CASE CancelHard
  BY <1>14 DEF CancelHard
<1>15. CASE LateFlush
  <2>1. plain /\ unwound # <<>>
    BY <1>15 DEF LateFlush
  <2> QED BY <1>1, <2>1 DEF Plainly, Faithful, Tidy
<1>16. CASE Crash
  <2>1. plain
    BY <1>16 DEF Crash
  <2> QED BY <1>1, <1>16, <2>1, CrashFaithful
<1>17. CASE UNCHANGED historyVars
  <2>1. plain /\ UNCHANGED <<host, record, turn, run, unwound, inbox, system, overlapped>>
    BY <1>17 DEF historyVars
  <2>2. Faithful
    BY <1>1, <2>1 DEF Plainly
  <2>3. Tidy' /\ PlainRows(host') /\ Viewed(record, LoopView(record), SystemItem(system))'
    BY <2>1, <2>2 DEF Faithful, Tidy
  <2>4. Joining'
    BY <2>1, <2>2 DEF Faithful, Joining, Working, ReplyRow
  <2> QED BY <2>3, <2>4 DEF Faithful
<1> QED BY <1>2, <1>3, <1>4, <1>5, <1>6, <1>7, <1>8, <1>9, <1>10, <1>11, <1>12, <1>13, <1>14,
           <1>15, <1>16, <1>17 DEF HistoryNext

\* No entry of a record that is faithful is a declared revision.
LEMMA FaithMeans == FaithInv => FaithfulChatsAreNeverRevised
<1> SUFFICES ASSUME FaithInv, plain PROVE Revisions = {}
  BY DEF FaithfulChatsAreNeverRevised
<1>1. \A i \in DOMAIN record : record[i].action # "host_revision"
  BY DEF FaithInv, Faithful, Viewed
<1> QED BY <1>1 DEF Revisions

\* In every chat, for all bounds: as long as the texts of the host's table
\* and the record were not made to differ, no run declares that the host
\* revised the history (_plan_record_seeding never starts anew).  Tool
\* rounds, the loop's own compactions, budget walls, turns that ended without
\* a word, crashes between any two steps and resumed turns all leave a record
\* that the next turn joins.
THEOREM FaithfulChatsStayJoined == HistorySpec => []FaithfulChatsAreNeverRevised
<1> QED BY MirrorInitially, MirrorStep, OfferInitially, OfferStep, FaithInitially, FaithStep,
           FaithMeans, PTL DEF HistorySpec
=============================================================================
