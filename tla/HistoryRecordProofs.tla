------------------------ MODULE HistoryRecordProofs -------------------------
(***************************************************************************)
(* Lemmas about the operators of HistoryRecord: what a record of any       *)
(* length gives back after an append, a rewrite or a seeding, whatever     *)
(* its messages are.                                                       *)
(*                                                                         *)
(* The operators go through sequences with FlattenSeq and a recursive      *)
(* function; what they compute is shown by induction over the length.      *)
(***************************************************************************)
EXTENDS HistoryRecord, FiniteSetTheorems, SequenceTheorems, TLAPS

-----------------------------------------------------------------------------
(* Sequences.                                                              *)

\* A sequence, of whatever its members are.
IsSequence(s) == s \in Seq(Range(s))

\* What a sequence is made of.
LEMMA SequenceIs ==
  ASSUME NEW s, IsSequence(s)
  PROVE  Len(s) \in Nat /\ DOMAIN s = 1..Len(s) /\ s = [i \in 1..Len(s) |-> s[i]]
BY DEF IsSequence

\* A function on 1..n is a sequence.
LEMMA IsASequence ==
  ASSUME NEW n \in Nat, NEW s, s = [i \in 1..n |-> s[i]]
  PROVE  IsSequence(s) /\ Len(s) = n /\ DOMAIN s = 1..n
<1>0. DOMAIN s = 1..n
  OBVIOUS
<1>1. s \in [1..n -> Range(s)]
  BY <1>0 DEF Range
<1>2. s \in Seq(Range(s)) 
  BY <1>1, IsASeq
<1> QED BY <1>0, <1>2, LenProperties DEF IsSequence

\* Two sequences of one length with the same members are one.
LEMMA SameSequence ==
  ASSUME NEW s, NEW t, IsSequence(s), IsSequence(t), Len(s) = Len(t),
         \A i \in 1..Len(s) : s[i] = t[i]
  PROVE  s = t
BY SequenceIs

\* Induction over the natural numbers, with the property given as the set of
\* the numbers that have it (the library states it with an operator
\* parameter).
LEMMA Induction ==
  ASSUME NEW S, 0 \in S, \A n \in Nat : n \in S => n + 1 \in S
  PROVE  Nat \subseteq S
<1> SUFFICES ASSUME ~ Nat \subseteq S PROVE FALSE
  OBVIOUS
<1> DEFINE T == {n \in Nat : n \notin S}
           R == OpToRel(<, Nat)
<1>1. T \subseteq Nat /\ T # {}
  OBVIOUS
<1>2. IsWellFoundedOn(R, Nat)
  BY NatLessThanWellFounded
<1>3. \E x \in T : \A y \in T : ~ (<<y, x>> \in R)
  <2> HIDE DEF R, T
  <2> QED BY <1>1, <1>2, WFMin
<1>4. PICK x \in T : \A y \in T : ~ (<<y, x>> \in R)
  BY <1>3
<1>5. x \in Nat /\ x \notin S /\ x # 0
  OBVIOUS
<1>6. x - 1 \in Nat /\ x - 1 < x
  BY <1>5
<1>7. x - 1 \in T
  BY <1>5, <1>6
<1>8. <<x - 1, x>> \in R
  BY <1>5, <1>6 DEF OpToRel
<1> QED BY <1>4, <1>7, <1>8

\* The empty sequence.
LEMMA None == IsSequence(<<>>) /\ Len(<<>>) = 0
BY DEF IsSequence

\* A sequence of one member.
LEMMA Single == ASSUME NEW x PROVE IsSequence(<<x>>) /\ Len(<<x>>) = 1 /\ <<x>>[1] = x
<1>1. <<x>> \in Seq({x}) /\ Len(<<x>>) = 1 /\ <<x>>[1] = x
  OBVIOUS
<1>2. <<x>> \in [1..1 -> {x}]
  BY <1>1, LenProperties
<1>3. <<x>> = [i \in 1..1 |-> <<x>>[i]]
  BY <1>2
<1> QED BY <1>1, <1>3, IsASequence

\* One member is a sequence.
LEMMA SingleIs == \A x : IsSequence(<<x>>)
BY Single

\* The members of two sequences joined.
LEMMA Joined ==
  ASSUME NEW s, NEW t, IsSequence(s), IsSequence(t)
  PROVE  /\ IsSequence(s \o t) /\ Len(s \o t) = Len(s) + Len(t)
         /\ \A i \in 1..Len(s) : (s \o t)[i] = s[i]
         /\ \A i \in 1..Len(t) : (s \o t)[Len(s) + i] = t[i]
<1> DEFINE S == Range(s) \cup Range(t)
<1>1. s \in Seq(S) /\ t \in Seq(S)
  BY SeqMonotonic DEF IsSequence
<1>2. s \o t \in Seq(S) /\ Len(s \o t) = Len(s) + Len(t)
  BY <1>1
<1>3. \A i \in 1..Len(s) + Len(t) : (s \o t)[i] = IF i <= Len(s) THEN s[i] ELSE t[i - Len(s)]
  BY <1>1
<1>4. IsSequence(s \o t)
  <2>1. s \o t \in [1..Len(s \o t) -> S] /\ Len(s \o t) \in Nat
    BY <1>2, LenProperties
  <2> HIDE DEF S
  <2> QED BY <2>1, IsASequence
<1>5. Len(s) \in Nat /\ Len(t) \in Nat
  BY SequenceIs
<1> QED BY <1>2, <1>3, <1>4, <1>5

\* Two sequences joined are a sequence.
LEMMA JoinedIs ==
  ASSUME NEW s, NEW t, IsSequence(s), IsSequence(t)
  PROVE  IsSequence(s \o t)
BY Joined

\* Where a member of two sequences joined comes from.
LEMMA JoinedDomain ==
  ASSUME NEW s, NEW t, IsSequence(s), IsSequence(t)
  PROVE  /\ Len(s) \in Nat /\ Len(t) \in Nat
         /\ DOMAIN s = 1..Len(s) /\ DOMAIN t = 1..Len(t)
         /\ DOMAIN (s \o t) = 1..(Len(s) + Len(t))
         /\ \A i \in DOMAIN (s \o t) :
              (s \o t)[i] = IF i \in DOMAIN s THEN s[i] ELSE t[i - Len(s)]
         /\ \A i \in DOMAIN (s \o t) : i \notin DOMAIN s => i - Len(s) \in DOMAIN t
<1>1. /\ IsSequence(s \o t) /\ Len(s \o t) = Len(s) + Len(t) /\ Len(s) \in Nat /\ Len(t) \in Nat
      /\ \A i \in 1..Len(s) : (s \o t)[i] = s[i]
      /\ \A i \in 1..Len(t) : (s \o t)[Len(s) + i] = t[i]
      /\ DOMAIN s = 1..Len(s) /\ DOMAIN t = 1..Len(t) /\ DOMAIN (s \o t) = 1..Len(s \o t)
  BY Joined, SequenceIs
<1>2. ASSUME NEW i \in 1..(Len(s) + Len(t)), i \notin 1..Len(s)
      PROVE  i - Len(s) \in 1..Len(t) /\ (s \o t)[i] = t[i - Len(s)]
  <2>1. i - Len(s) \in 1..Len(t) /\ i = Len(s) + (i - Len(s))
    BY <1>1, <1>2
  <2> QED BY <1>1, <2>1
<1> QED BY <1>1, <1>2

\* Joining the empty sequence changes nothing.
LEMMA JoinedToNone ==
  ASSUME NEW s, IsSequence(s)
  PROVE  <<>> \o s = s /\ s \o <<>> = s
BY DEF IsSequence

\* Joining is associative.
LEMMA JoinedTwice ==
  ASSUME NEW s, NEW t, NEW u, IsSequence(s), IsSequence(t), IsSequence(u)
  PROVE  (s \o t) \o u = s \o (t \o u)
<1> DEFINE S == Range(s) \cup Range(t) \cup Range(u)
<1>1. s \in Seq(S) /\ t \in Seq(S) /\ u \in Seq(S)
  BY SeqMonotonic DEF IsSequence
<1> QED BY <1>1, ConcatAssociative

\* The members of a part of a sequence.
LEMMA Cut ==
  ASSUME NEW s, IsSequence(s), NEW m \in Nat \ {0}, NEW n \in 0..Len(s)
  PROVE  /\ IsSequence(SubSeq(s, m, n))
         /\ Len(SubSeq(s, m, n)) = IF m <= n THEN n - m + 1 ELSE 0
         /\ \A i \in 1..Len(SubSeq(s, m, n)) : SubSeq(s, m, n)[i] = s[m + i - 1]
<1> DEFINE k == IF m <= n THEN n - m + 1 ELSE 0
           c == SubSeq(s, m, n)
<1>1. k \in Nat /\ c = [i \in 1..k |-> s[m + i - 1]]
  BY SequenceIs
<1>2. c = [i \in 1..k |-> c[i]]
  BY <1>1
<1> QED BY <1>1, <1>2, IsASequence

\* The shortest and the longest prefix.
LEMMA WholePrefix ==
  ASSUME NEW s, IsSequence(s)
  PROVE  SubSeq(s, 1, 0) = <<>> /\ SubSeq(s, 1, Len(s)) = s
<1>1. SubSeq(s, 1, 0) = <<>>
  BY SubSeqEmpty
<1>2. IsSequence(SubSeq(s, 1, Len(s))) /\ Len(SubSeq(s, 1, Len(s))) = Len(s)
      /\ \A i \in 1..Len(s) : SubSeq(s, 1, Len(s))[i] = s[i]
  BY Cut, SequenceIs
<1> QED BY <1>1, <1>2, SameSequence

\* A prefix is the one before it and one more member.
LEMMA NextPrefix ==
  ASSUME NEW s, IsSequence(s), NEW n \in 0..(Len(s) - 1)
  PROVE  SubSeq(s, 1, n + 1) = SubSeq(s, 1, n) \o <<s[n + 1]>>
<1> DEFINE a == SubSeq(s, 1, n + 1)
           b == SubSeq(s, 1, n)
           c == b \o <<s[n + 1]>>
<1>0. Len(s) \in Nat
  BY SequenceIs
<1>1. IsSequence(a) /\ Len(a) = n + 1 /\ \A i \in 1..(n + 1) : a[i] = s[i]
  BY <1>0, Cut
<1>2. IsSequence(b) /\ Len(b) = n /\ \A i \in 1..n : b[i] = s[i]
  BY <1>0, Cut
<1>3. IsSequence(c) /\ Len(c) = n + 1 /\ (\A i \in 1..n : c[i] = b[i])
      /\ c[n + 1] = s[n + 1]
  BY <1>2, Joined, Single
<1> HIDE DEF a, b, c
<1>4. \A i \in 1..(n + 1) : a[i] = c[i]
  BY <1>1, <1>2, <1>3
<1>5. a = c
  BY <1>1, <1>3, <1>4, SameSequence
<1> QED BY <1>5 DEF a, b, c

\* A sequence is a prefix of it and the rest.
LEMMA TwoParts ==
  ASSUME NEW s, IsSequence(s), NEW d \in 0..Len(s)
  PROVE  SubSeq(s, 1, d) \o SubSeq(s, d + 1, Len(s)) = s
<1>1. s \in Seq(Range(s)) /\ Len(s) \in Nat
  BY SequenceIs DEF IsSequence
<1>2. SubSeq(s, 1, d) \o SubSeq(s, d + 1, Len(s)) = SubSeq(s, 1, Len(s))
  <2>1. 1 \in 1..(Len(s) + 1) /\ d \in (1 - 1)..Len(s) /\ Len(s) \in d..Len(s)
    BY <1>1
  <2> QED BY <1>1, <2>1, ConcatAdjacentSubSeq
<1> QED BY <1>2, WholePrefix

\* The first of two sequences joined.
LEMMA FirstPart ==
  ASSUME NEW s, NEW t, IsSequence(s), IsSequence(t)
  PROVE  SubSeq(s \o t, 1, Len(s)) = s
<1> DEFINE u == s \o t
           c == SubSeq(u, 1, Len(s))
<1>1. /\ IsSequence(u) /\ Len(u) = Len(s) + Len(t) /\ Len(s) \in Nat /\ Len(t) \in Nat
      /\ \A i \in 1..Len(s) : u[i] = s[i]
  BY Joined, SequenceIs
<1> HIDE DEF u
<1>2. 1 \in Nat \ {0} /\ Len(s) \in 0..Len(u)
  BY <1>1
<1>3. /\ IsSequence(c) /\ Len(c) = IF 1 <= Len(s) THEN Len(s) - 1 + 1 ELSE 0
      /\ \A i \in 1..Len(c) : c[i] = u[1 + i - 1]
  BY <1>1, <1>2, Cut
<1> HIDE DEF c
<1>4. Len(c) = Len(s)
  BY <1>1, <1>3
<1>5. \A i \in 1..Len(c) : c[i] = s[i]
  <2>1. \A i \in 1..Len(s) : 1 + i - 1 = i
    BY <1>1
  <2> QED BY <1>1, <1>3, <1>4, <2>1
<1>6. c = s
  BY <1>3, <1>4, <1>5, SameSequence
<1> QED BY <1>6 DEF c, u

\* Appending is joining one member.
LEMMA AppendJoins ==
  ASSUME NEW s, IsSequence(s), NEW x
  PROVE  Append(s, x) = s \o <<x>>
<1>1. s \in Seq(Range(s) \cup {x}) /\ x \in Range(s) \cup {x}
  BY SeqMonotonic DEF IsSequence
<1> QED BY <1>1, AppendIsConcat

\* A sequence with one more member.
LEMMA Longer ==
  ASSUME NEW s, IsSequence(s), NEW x
  PROVE  IsSequence(Append(s, x))
<1>1. s \in Seq(Range(s) \cup {x})
  BY SeqMonotonic DEF IsSequence
<1>2. Append(s, x) \in Seq(Range(s) \cup {x})
  BY <1>1
<1>3. Append(s, x) \in [1..Len(Append(s, x)) -> Range(s) \cup {x}] /\ Len(Append(s, x)) \in Nat
  BY <1>2, LenProperties
<1> QED BY <1>3, IsASequence

\* A sequence without its first member.
LEMMA TailIs ==
  ASSUME NEW s, IsSequence(s), s # <<>>
  PROVE  IsSequence(Tail(s))
<1>1. Tail(s) = SubSeq(s, 2, Len(s))
  BY TailIsSubSeq DEF IsSequence
<1>2. 2 \in Nat \ {0} /\ Len(s) \in 0..Len(s)
  BY SequenceIs
<1> QED BY <1>1, <1>2, Cut

-----------------------------------------------------------------------------
(* Flattening.                                                             *)

\* f is what FlattenSeq computes of the first n members of q.
Flattens(f, q, n) ==
  f = [i \in 1..n |-> IF i = 1 THEN q[i] ELSE f[i - 1] \o q[i]]

\* There is such a function for every length, so that FlattenSeq's CHOOSE
\* picks one.
LEMMA FlatteningExists ==
  ASSUME NEW q, NEW n \in Nat
  PROVE  \E f : Flattens(f, q, n)
<1> DEFINE P(k) == \E f : Flattens(f, q, k)
           S == {k \in Nat : P(k)}
<1>1. P(0)
  <2>1. Flattens([i \in 1..0 |-> 0], q, 0)
    BY DEF Flattens
  <2> QED BY <2>1
<1>2. ASSUME NEW k \in Nat, P(k) PROVE P(k + 1)
  <2>1. PICK f : Flattens(f, q, k)
    BY <1>2
  <2> DEFINE g == [i \in 1..(k + 1) |-> IF i = k + 1
                     THEN (IF i = 1 THEN q[i] ELSE f[i - 1] \o q[i]) ELSE f[i]]
             h == [i \in 1..(k + 1) |-> IF i = 1 THEN q[i] ELSE g[i - 1] \o q[i]]
  <2>2. ASSUME NEW i \in 1..(k + 1) PROVE g[i] = h[i]
    <3>1. CASE i = k + 1
      BY <3>1
    <3>2. CASE i \in 1..k
      <4>1. f[i] = IF i = 1 THEN q[i] ELSE f[i - 1] \o q[i]
        BY <2>1, <3>2 DEF Flattens
      <4>2. i # 1 => g[i - 1] = f[i - 1]
        BY <3>2
      <4> QED BY <3>2, <4>1, <4>2
    <3> QED BY <3>1, <3>2
  <2>3. g = h
    BY <2>2
  <2>4. Flattens(g, q, k + 1)
    BY <2>3 DEF Flattens
  <2> QED BY <2>4
<1>3. Nat \subseteq S
  <2>1. 0 \in S /\ \A k \in Nat : k \in S => k + 1 \in S
    BY <1>1, <1>2
  <2> HIDE DEF S
  <2> QED BY <2>1, Induction
<1> QED BY <1>3

\* FlattenSeq is the last value of such a function.
LEMMA FlattenSeqIs ==
  ASSUME NEW q, Len(q) \in Nat, Len(q) # 0
  PROVE  \E f : Flattens(f, q, Len(q)) /\ FlattenSeq(q) = f[Len(q)]
<1> DEFINE f == CHOOSE g : g = [i \in 1..Len(q) |-> IF i = 1 THEN q[i] ELSE g[i - 1] \o q[i]]
<1>1. Flattens(f, q, Len(q))
  BY FlatteningExists DEF Flattens
<1>2. FlattenSeq(q) = f[Len(q)]
  BY DEF FlattenSeq
<1> QED BY <1>1, <1>2

\* Flattening two sequences that agree on their first n members gives the
\* same up to there.
LEMMA SameFlattening ==
  ASSUME NEW q, NEW r, NEW a \in Nat, NEW b \in Nat, NEW f, NEW g,
         Flattens(f, q, a), Flattens(g, r, b),
         NEW n \in Nat, n <= a, n <= b, \A i \in 1..n : q[i] = r[i]
  PROVE  \A i \in 1..n : f[i] = g[i]
<1> DEFINE P(k) == k \in 1..n => f[k] = g[k]
           S == {k \in Nat : P(k)}
<1>1. P(0)
  OBVIOUS
<1>2. ASSUME NEW k \in Nat, P(k) PROVE P(k + 1)
  <2> SUFFICES ASSUME k + 1 \in 1..n PROVE f[k + 1] = g[k + 1]
    OBVIOUS
  <2>1. k + 1 \in 1..a /\ k + 1 \in 1..b /\ q[k + 1] = r[k + 1]
    OBVIOUS
  <2>2. /\ f[k + 1] = IF k + 1 = 1 THEN q[k + 1] ELSE f[(k + 1) - 1] \o q[k + 1]
        /\ g[k + 1] = IF k + 1 = 1 THEN r[k + 1] ELSE g[(k + 1) - 1] \o r[k + 1]
    BY <2>1 DEF Flattens
  <2>3. k + 1 # 1 => f[(k + 1) - 1] = g[(k + 1) - 1]
    BY <1>2
  <2> QED BY <2>1, <2>2, <2>3
<1>3. Nat \subseteq S
  <2>1. 0 \in S /\ \A k \in Nat : k \in S => k + 1 \in S
    BY <1>1, <1>2
  <2> HIDE DEF S
  <2> QED BY <2>1, Induction
<1> QED BY <1>3

\* A single sequence is flattened to itself.
LEMMA FlattenOne == ASSUME NEW x PROVE FlattenSeq(<<x>>) = x
<1> DEFINE y == <<x>>
<1>1. Len(y) = 1 /\ y[1] = x
  BY Single
<1> HIDE DEF y
<1>0. Len(y) \in Nat /\ Len(y) # 0
  BY <1>1
<1>2. PICK f : Flattens(f, y, Len(y)) /\ FlattenSeq(y) = f[Len(y)]
  BY <1>0, FlattenSeqIs
<1>3. f = [i \in 1..1 |-> IF i = 1 THEN y[i] ELSE f[i - 1] \o y[i]]
  BY <1>1, <1>2 DEF Flattens
<1>4. f[1] = y[1]
  BY <1>3
<1> QED BY <1>1, <1>2, <1>4 DEF y

\* One more sequence is joined to what the others are flattened to.
LEMMA FlattenMore ==
  ASSUME NEW q, IsSequence(q), Len(q) # 0, NEW x
  PROVE  FlattenSeq(q \o <<x>>) = FlattenSeq(q) \o x
<1> DEFINE r == q \o <<x>>
           n == Len(q)
<1>0. n \in Nat /\ n # 0 /\ n + 1 \in Nat /\ n + 1 # 0
  BY SequenceIs
<1>1. Len(r) = n + 1 /\ (\A i \in 1..n : r[i] = q[i]) /\ r[n + 1] = x
  BY <1>0, Single, Joined
<1> HIDE DEF r, n
<1>2. PICK f : Flattens(f, q, n) /\ FlattenSeq(q) = f[n]
  BY <1>0, FlattenSeqIs DEF n
<1>3. PICK g : Flattens(g, r, n + 1) /\ FlattenSeq(r) = g[n + 1]
  BY <1>0, <1>1, FlattenSeqIs
<1>4. \A i \in 1..n : f[i] = g[i]
  BY <1>0, <1>1, <1>2, <1>3, SameFlattening
<1>5. g[n + 1] = g[n] \o x
  <2>1. g = [i \in 1..(n + 1) |-> IF i = 1 THEN r[i] ELSE g[i - 1] \o r[i]]
    BY <1>3 DEF Flattens
  <2>2. n + 1 \in 1..(n + 1) /\ n + 1 # 1 /\ (n + 1) - 1 = n
    BY <1>0
  <2>3. g[n + 1] = g[(n + 1) - 1] \o r[n + 1]
    BY <2>1, <2>2
  <2> QED BY <1>1, <2>2, <2>3
<1>6. f[n] = g[n]
  BY <1>0, <1>4
<1> QED BY <1>2, <1>3, <1>5, <1>6 DEF r

-----------------------------------------------------------------------------
(* Messages and entries.                                                   *)

\* Dropping the kinds of messages leaves their number and places.
LEMMA BaresOf ==
  ASSUME NEW s, IsSequence(s)
  PROVE  /\ IsSequence(Bares(s)) /\ Len(Bares(s)) = Len(s)
         /\ \A i \in 1..Len(s) : Bares(s)[i] = Bare(s[i])
<1>1. Len(s) \in Nat /\ Bares(s) = [i \in 1..Len(s) |-> Bare(s[i])]
  BY SequenceIs DEF Bares
<1> QED BY <1>1, IsASequence

\* The kinds are dropped message by message.
LEMMA BaresJoined ==
  ASSUME NEW s, NEW t, IsSequence(s), IsSequence(t)
  PROVE  Bares(s \o t) = Bares(s) \o Bares(t)
<1> DEFINE a == Bares(s \o t)
           b == Bares(s) \o Bares(t)
<1>0. Len(s) \in Nat /\ Len(t) \in Nat
  BY SequenceIs
<1>1. IsSequence(s \o t) /\ Len(s \o t) = Len(s) + Len(t)
      /\ (\A i \in 1..Len(s) : (s \o t)[i] = s[i])
      /\ \A i \in 1..Len(t) : (s \o t)[Len(s) + i] = t[i]
  BY Joined
<1>2. IsSequence(a) /\ Len(a) = Len(s) + Len(t)
      /\ \A i \in 1..(Len(s) + Len(t)) : a[i] = Bare((s \o t)[i])
  BY <1>1, BaresOf
<1>3. IsSequence(b) /\ Len(b) = Len(s) + Len(t)
      /\ (\A i \in 1..Len(s) : b[i] = Bare(s[i]))
      /\ \A i \in 1..Len(t) : b[Len(s) + i] = Bare(t[i])
  BY Joined, BaresOf
<1>4. ASSUME NEW i \in 1..(Len(s) + Len(t)) PROVE a[i] = b[i]
  <2> HIDE DEF a, b
  <2>1. CASE i \in 1..Len(s)
    BY <1>1, <1>2, <1>3, <2>1
  <2>2. CASE i \notin 1..Len(s)
    <3>1. i - Len(s) \in 1..Len(t) /\ i = Len(s) + (i - Len(s))
      BY <1>0, <2>2
    <3> QED BY <1>1, <1>2, <1>3, <3>1
  <2> QED BY <2>1, <2>2
<1> HIDE DEF a, b
<1>5. a = b
  BY <1>2, <1>3, <1>4, SameSequence
<1> QED BY <1>5 DEF a, b

\* A kind that was dropped is not dropped again.
LEMMA BaresTwice ==
  ASSUME NEW s, IsSequence(s)
  PROVE  Bares(Bares(s)) = Bares(s)
<1>1. IsSequence(Bares(s)) /\ Len(Bares(s)) = Len(s)
      /\ \A i \in 1..Len(s) : Bares(s)[i] = Bare(s[i])
  BY BaresOf
<1>2. IsSequence(Bares(Bares(s))) /\ Len(Bares(Bares(s))) = Len(s)
      /\ \A i \in 1..Len(s) : Bares(Bares(s))[i] = Bare(Bares(s)[i])
  BY <1>1, BaresOf
<1>3. \A x : Bare(Bare(x)) = Bare(x)
  BY DEF Bare, Item
<1> QED BY <1>1, <1>2, <1>3, SameSequence

\* The entries of numbered messages.
LEMMA NumberedIs ==
  ASSUME NEW s, IsSequence(s), NEW n \in Nat
  PROVE  /\ IsSequence(Numbered(n, s)) /\ Len(Numbered(n, s)) = Len(s)
         /\ \A i \in 1..Len(s) : Numbered(n, s)[i] = ItemEntry(n + i - 1, s[i])
<1>1. Len(s) \in Nat /\ Numbered(n, s) = [i \in 1..Len(s) |-> ItemEntry(n + i - 1, s[i])]
  BY SequenceIs DEF Numbered
<1> QED BY <1>1, IsASequence

\* Entries that hold sequences of messages.
Entries(e) == IsSequence(e) /\ \A i \in DOMAIN e : IsSequence(e[i].items)

\* Two sequences of entries joined.
LEMMA EntriesJoined ==
  ASSUME NEW p, NEW q, Entries(p), Entries(q)
  PROVE  Entries(p \o q)
<1>1. IsSequence(p) /\ IsSequence(q)
  BY DEF Entries
<1>2. /\ IsSequence(p \o q) /\ Len(p \o q) = Len(p) + Len(q) /\ Len(p) \in Nat /\ Len(q) \in Nat
      /\ \A i \in 1..Len(p) : (p \o q)[i] = p[i]
      /\ \A i \in 1..Len(q) : (p \o q)[Len(p) + i] = q[i]
      /\ DOMAIN p = 1..Len(p) /\ DOMAIN q = 1..Len(q) /\ DOMAIN (p \o q) = 1..Len(p \o q)
  BY <1>1, Joined, SequenceIs
<1>3. ASSUME NEW i \in 1..(Len(p) + Len(q)) PROVE IsSequence((p \o q)[i].items)
  <2>1. CASE i \in 1..Len(p)
    BY <1>2, <2>1 DEF Entries
  <2>2. CASE i \notin 1..Len(p)
    <3>1. i - Len(p) \in 1..Len(q) /\ i = Len(p) + (i - Len(p))
      BY <1>2, <2>2
    <3> QED BY <1>2, <3>1 DEF Entries
  <2> QED BY <2>1, <2>2
<1> QED BY <1>2, <1>3 DEF Entries

\* A part of a sequence of entries.
LEMMA EntriesCut ==
  ASSUME NEW p, Entries(p), NEW m \in Nat \ {0}, NEW n \in 0..Len(p)
  PROVE  Entries(SubSeq(p, m, n))
<1> DEFINE c == SubSeq(p, m, n)
<1>0. IsSequence(p) /\ Len(p) \in Nat /\ DOMAIN p = 1..Len(p)
  BY SequenceIs DEF Entries
<1>1. /\ IsSequence(c) /\ Len(c) = IF m <= n THEN n - m + 1 ELSE 0
      /\ \A i \in 1..Len(c) : c[i] = p[m + i - 1]
  BY <1>0, Cut
<1>2. DOMAIN c = 1..Len(c) /\ Len(c) \in Nat
  BY <1>1, SequenceIs
<1> HIDE DEF c
<1>3. \A i \in 1..Len(c) : m + i - 1 \in 1..Len(p)
  BY <1>0, <1>1, <1>2
<1> QED BY <1>0, <1>1, <1>2, <1>3 DEF Entries, c

\* The messages of no entry,
LEMMA ItemsOfNone == Items(<<>>) = <<>>
<1>1. [i \in DOMAIN <<>> |-> <<>>[i].items] = <<>>
  OBVIOUS
<1> QED BY <1>1 DEF Items, FlattenSeq

\* of one,
LEMMA ItemsOfOne == ASSUME NEW e PROVE Items(<<e>>) = e.items
<1>1. Len(<<e>>) = 1 /\ <<e>>[1] = e /\ IsSequence(<<e>>)
  BY Single
<1>2. IsSequence(<<e.items>>) /\ Len(<<e.items>>) = 1 /\ <<e.items>>[1] = e.items
  BY Single
<1>3. [i \in DOMAIN <<e>> |-> <<e>>[i].items] = <<e.items>>
  <2>1. DOMAIN <<e>> = 1..1 /\ <<e.items>> = [i \in 1..1 |-> <<e.items>>[i]]
    BY <1>1, <1>2, SequenceIs
  <2> QED BY <1>1, <1>2, <2>1
<1> QED BY <1>3, FlattenOne DEF Items

\* and of one more.
LEMMA ItemsAndOne ==
  ASSUME NEW p, Entries(p), NEW e, IsSequence(e.items)
  PROVE  Items(p \o <<e>>) = Items(p) \o e.items
<1> DEFINE q == [i \in DOMAIN p |-> p[i].items]
           r == [i \in DOMAIN (p \o <<e>>) |-> (p \o <<e>>)[i].items]
<1>0. IsSequence(p) /\ Len(p) \in Nat /\ DOMAIN p = 1..Len(p)
  BY SequenceIs DEF Entries
<1>1. /\ DOMAIN (p \o <<e>>) = 1..(Len(p) + 1) /\ Len(p \o <<e>>) = Len(p) + 1
      /\ \A i \in 1..Len(p) : (p \o <<e>>)[i] = p[i]
      /\ (p \o <<e>>)[Len(p) + 1] = e
  BY <1>0, Single, Joined, SequenceIs
<1>2. IsSequence(q) /\ Len(q) = Len(p)
  BY <1>0, IsASequence
<1>3. IsSequence(r) /\ Len(r) = Len(p) + 1
  BY <1>0, <1>1, IsASequence
<1>4. r = q \o <<e.items>>
  <2>1. /\ IsSequence(q \o <<e.items>>) /\ Len(q \o <<e.items>>) = Len(p) + 1
        /\ \A i \in 1..Len(p) : (q \o <<e.items>>)[i] = q[i]
        /\ (q \o <<e.items>>)[Len(p) + 1] = e.items
    BY <1>0, <1>2, Single, Joined
  <2>2. \A i \in 1..(Len(p) + 1) : r[i] = (q \o <<e.items>>)[i]
    BY <1>0, <1>1, <2>1
  <2> HIDE DEF q, r
  <2> QED BY <1>3, <2>1, <2>2, SameSequence
<1>5. CASE p = <<>>
  <2>1. p \o <<e>> = <<e>>
    BY <1>5, JoinedToNone, Single
  <2> QED BY <1>5, <2>1, ItemsOfOne, ItemsOfNone, JoinedToNone
<1>6. CASE p # <<>>
  <2>1. Len(q) # 0
    BY <1>0, <1>2, <1>6
  <2> HIDE DEF q, r
  <2>2. FlattenSeq(r) = FlattenSeq(q) \o e.items
    BY <1>2, <1>4, <2>1, FlattenMore
  <2> QED BY <2>2 DEF Items, q, r
<1> QED BY <1>5, <1>6

\* The messages of entries are a sequence (by induction over their number).
LEMMA ItemsAreASequence ==
  ASSUME NEW p, Entries(p)
  PROVE  IsSequence(Items(p))
<1> DEFINE P(k) == k <= Len(p) => IsSequence(Items(SubSeq(p, 1, k)))
           S == {k \in Nat : P(k)}
<1>0. IsSequence(p) /\ Len(p) \in Nat /\ DOMAIN p = 1..Len(p)
  BY SequenceIs DEF Entries
<1>1. P(0)
  BY <1>0, WholePrefix, ItemsOfNone, None
<1>2. ASSUME NEW k \in Nat, P(k) PROVE P(k + 1)
  <2> SUFFICES ASSUME k + 1 <= Len(p) PROVE IsSequence(Items(SubSeq(p, 1, k + 1)))
    OBVIOUS
  <2>1. SubSeq(p, 1, k + 1) = SubSeq(p, 1, k) \o <<p[k + 1]>>
    BY <1>0, NextPrefix
  <2>2. Entries(SubSeq(p, 1, k)) /\ IsSequence(p[k + 1].items)
    BY <1>0, EntriesCut DEF Entries
  <2>3. Items(SubSeq(p, 1, k + 1)) = Items(SubSeq(p, 1, k)) \o p[k + 1].items
    BY <2>1, <2>2, ItemsAndOne
  <2>4. IsSequence(Items(SubSeq(p, 1, k)))
    BY <1>0, <1>2
  <2> QED BY <2>2, <2>3, <2>4, JoinedIs
<1>3. Nat \subseteq S
  <2> HIDE DEF P
  <2>1. 0 \in S /\ \A k \in Nat : k \in S => k + 1 \in S
    BY <1>1, <1>2
  <2> HIDE DEF S
  <2> QED BY <2>1, Induction
<1>4. P(Len(p))
  BY <1>0, <1>3
<1>5. Len(p) <= Len(p) /\ SubSeq(p, 1, Len(p)) = p
  BY <1>0, WholePrefix
<1> QED BY <1>4, <1>5

\* The messages of entries joined are their messages joined.
LEMMA ItemsJoined ==
  ASSUME NEW p, NEW q, Entries(p), Entries(q)
  PROVE  Items(p \o q) = Items(p) \o Items(q)
<1> DEFINE P(k) == k <= Len(q) => Items(p \o SubSeq(q, 1, k)) = Items(p) \o Items(SubSeq(q, 1, k))
           S == {k \in Nat : P(k)}
<1>0. /\ IsSequence(q) /\ Len(q) \in Nat /\ DOMAIN q = 1..Len(q)
      /\ IsSequence(p) /\ IsSequence(Items(p))
  BY SequenceIs, ItemsAreASequence DEF Entries
<1>1. P(0)
  BY <1>0, WholePrefix, ItemsOfNone, JoinedToNone
<1>2. ASSUME NEW k \in Nat, P(k) PROVE P(k + 1)
  <2> SUFFICES ASSUME k + 1 <= Len(q)
               PROVE  Items(p \o SubSeq(q, 1, k + 1)) = Items(p) \o Items(SubSeq(q, 1, k + 1))
    OBVIOUS
  <2> DEFINE c == SubSeq(q, 1, k)
             e == q[k + 1]
  <2>1. SubSeq(q, 1, k + 1) = c \o <<e>>
    BY <1>0, NextPrefix
  <2>2. Entries(c) /\ IsSequence(e.items) /\ IsSequence(c)
    BY <1>0, EntriesCut DEF Entries
  <2>3. Items(p \o c) = Items(p) \o Items(c)
    BY <1>0, <1>2
  <2> HIDE DEF c, e
  <2>4. Items(c \o <<e>>) = Items(c) \o e.items
    BY <2>2, ItemsAndOne
  <2>5. p \o (c \o <<e>>) = (p \o c) \o <<e>>
    <3> DEFINE d == <<e>>
    <3>1. IsSequence(p) /\ IsSequence(c) /\ IsSequence(d)
      BY <1>0, <2>2, SingleIs
    <3> HIDE DEF d
    <3>2. (p \o c) \o d = p \o (c \o d)
      BY <3>1, JoinedTwice
    <3> QED BY <3>2 DEF d
  <2>6. Entries(p \o c) /\ IsSequence(Items(c))
    BY <2>2, EntriesJoined, ItemsAreASequence
  <2>7. Items((p \o c) \o <<e>>) = Items(p \o c) \o e.items
    BY <2>2, <2>6, ItemsAndOne
  <2>8. (Items(p) \o Items(c)) \o e.items = Items(p) \o (Items(c) \o e.items)
    <3> DEFINE a == Items(p)
               b == Items(c)
               d == e.items
    <3>1. IsSequence(a) /\ IsSequence(b) /\ IsSequence(d)
      BY <1>0, <2>2, <2>6
    <3> HIDE DEF a, b, d
    <3>2. (a \o b) \o d = a \o (b \o d)
      BY <3>1, JoinedTwice
    <3> QED BY <3>2 DEF a, b, d
  <2> QED BY <2>1, <2>3, <2>4, <2>5, <2>7, <2>8
<1>3. Nat \subseteq S
  <2> HIDE DEF P
  <2>1. 0 \in S /\ \A k \in Nat : k \in S => k + 1 \in S
    BY <1>1, <1>2
  <2> HIDE DEF S
  <2> QED BY <2>1, Induction
<1>4. P(Len(q))
  BY <1>0, <1>3
<1>5. Len(q) <= Len(q) /\ SubSeq(q, 1, Len(q)) = q
  BY <1>0, WholePrefix
<1> QED BY <1>4, <1>5

\* The messages of numbered messages are those messages.
LEMMA ItemsNumbered ==
  ASSUME NEW s, IsSequence(s), NEW n \in Nat
  PROVE  Entries(Numbered(n, s)) /\ Items(Numbered(n, s)) = s
<1> DEFINE q == Numbered(n, s)
           P(k) == k <= Len(s) => Items(SubSeq(q, 1, k)) = SubSeq(s, 1, k)
           S == {k \in Nat : P(k)}
<1>0. /\ Len(s) \in Nat /\ IsSequence(q) /\ Len(q) = Len(s) /\ DOMAIN q = 1..Len(s)
      /\ \A i \in 1..Len(s) : q[i] = ItemEntry(n + i - 1, s[i])
  BY SequenceIs, NumberedIs
<1> HIDE DEF q
<1>1. \A i \in 1..Len(s) : q[i].items = <<s[i]>>
  BY <1>0 DEF ItemEntry
<1>2. Entries(q)
  BY <1>0, <1>1, Single DEF Entries
<1>3. P(0)
  BY <1>0, WholePrefix, ItemsOfNone
<1>4. ASSUME NEW k \in Nat, P(k) PROVE P(k + 1)
  <2> SUFFICES ASSUME k + 1 <= Len(s) PROVE Items(SubSeq(q, 1, k + 1)) = SubSeq(s, 1, k + 1)
    OBVIOUS
  <2>1. /\ SubSeq(q, 1, k + 1) = SubSeq(q, 1, k) \o <<q[k + 1]>>
        /\ SubSeq(s, 1, k + 1) = SubSeq(s, 1, k) \o <<s[k + 1]>>
    BY <1>0, NextPrefix
  <2>2. Entries(SubSeq(q, 1, k)) /\ q[k + 1].items = <<s[k + 1]>>
    BY <1>0, <1>1, <1>2, EntriesCut
  <2>3. Items(SubSeq(q, 1, k + 1)) = Items(SubSeq(q, 1, k)) \o <<s[k + 1]>>
    <3>1. IsSequence(q[k + 1].items)
      BY <2>2, SingleIs
    <3>2. Items(SubSeq(q, 1, k) \o <<q[k + 1]>>) = Items(SubSeq(q, 1, k)) \o q[k + 1].items
      BY <2>2, <3>1, ItemsAndOne
    <3> QED BY <2>1, <2>2, <3>2
  <2>4. Items(SubSeq(q, 1, k)) = SubSeq(s, 1, k)
    BY <1>4
  <2> QED BY <2>1, <2>3, <2>4
<1>5. Nat \subseteq S
  <2> HIDE DEF P
  <2>1. 0 \in S /\ \A k \in Nat : k \in S => k + 1 \in S
    BY <1>3, <1>4
  <2> HIDE DEF S
  <2> QED BY <2>1, Induction
<1>6. P(Len(s))
  BY <1>0, <1>5
<1>7. Items(q) = s
  <2>1. Len(s) <= Len(s) /\ SubSeq(q, 1, Len(s)) = q /\ SubSeq(s, 1, Len(s)) = s
    BY <1>0, WholePrefix
  <2> QED BY <1>6, <2>1
<1> QED BY <1>2, <1>7 DEF q

\* What sequences are flattened to is a sequence.
LEMMA FlattenIs ==
  ASSUME NEW n \in Nat, NEW q, q = [i \in 1..n |-> q[i]], \A i \in 1..n : IsSequence(q[i])
  PROVE  IsSequence(FlattenSeq(q))
<1> DEFINE e == [i \in 1..n |-> [items |-> q[i]]]
<1>1. IsSequence(e) /\ DOMAIN e = 1..n
  BY IsASequence
<1>2. Entries(e)
  BY <1>1 DEF Entries
<1>3. Items(e) = FlattenSeq(q)
  BY DEF Items
<1> QED BY <1>2, <1>3, ItemsAreASequence

-----------------------------------------------------------------------------
(* What a record gives back.                                               *)

\* Entries without a declared rewrite.
NoBoundary(e) == \A i \in DOMAIN e : e[i].type # "boundary"

\* Joining entries without a boundary makes none.
LEMMA NoBoundaryJoined ==
  ASSUME NEW p, NEW q, IsSequence(p), IsSequence(q), NoBoundary(p), NoBoundary(q)
  PROVE  NoBoundary(p \o q)
<1>1. /\ \A i \in DOMAIN (p \o q) : (p \o q)[i] = IF i \in DOMAIN p THEN p[i] ELSE q[i - Len(p)]
      /\ \A i \in DOMAIN (p \o q) : i \notin DOMAIN p => i - Len(p) \in DOMAIN q
  BY JoinedDomain
<1> QED BY <1>1 DEF NoBoundary

\* A set of natural numbers up to n has a greatest member.
LEMMA LastOne ==
  ASSUME NEW n \in Nat, NEW B \in SUBSET (1..n)
  PROVE  /\ Max({0} \cup B) \in {0} \cup B
         /\ \A b \in B : b <= Max({0} \cup B)
<1> DEFINE M == {0} \cup B
           P(k) == \E x \in M : \A y \in M : y <= k => x >= y
           S == {k \in Nat : P(k)}
<1>1. P(0)
  BY SMT
<1>2. ASSUME NEW k \in Nat, P(k) PROVE P(k + 1)
  <2>1. CASE k + 1 \in M
    <3>1. \A y \in M : y <= k + 1 => k + 1 >= y
      OBVIOUS
    <3> QED BY <2>1, <3>1
  <2>2. CASE k + 1 \notin M
    <3>1. \A y \in M : y <= k + 1 => y <= k
      BY <2>2
    <3> QED BY <1>2, <3>1
  <2> QED BY <2>1, <2>2
<1>3. Nat \subseteq S
  <2> HIDE DEF P
  <2>1. 0 \in S /\ \A k \in Nat : k \in S => k + 1 \in S
    BY <1>1, <1>2
  <2> HIDE DEF S
  <2> QED BY <2>1, Induction
<1>4. P(n)
  BY <1>3
<1>5. \E x \in M : \A y \in M : x >= y
  BY <1>4
<1> HIDE DEF M
<1>6. Max(M) \in M /\ \A y \in M : Max(M) >= y
  BY <1>5 DEF Max
<1> QED BY <1>6 DEF M

\* Where the newest boundary of a record is, or 0.
Newest(r) == Max({0} \cup {i \in DOMAIN r : r[i].type = "boundary"})

\* Nothing behind it is a boundary.
LEMMA NewestIs ==
  ASSUME NEW r, IsSequence(r)
  PROVE  /\ Newest(r) \in 0..Len(r)
         /\ \A i \in DOMAIN r : r[i].type = "boundary" => i <= Newest(r)
         /\ Newest(r) # 0 => r[Newest(r)].type = "boundary"
<1> DEFINE B == {i \in DOMAIN r : r[i].type = "boundary"}
<1>1. Len(r) \in Nat /\ DOMAIN r = 1..Len(r) /\ B \in SUBSET (1..Len(r))
  BY SequenceIs
<1>2. Newest(r) \in {0} \cup B /\ \A b \in B : b <= Newest(r)
  <2> HIDE DEF B
  <2>1. Max({0} \cup B) \in {0} \cup B /\ \A b \in B : b <= Max({0} \cup B)
    BY <1>1, LastOne
  <2> QED BY <2>1 DEF Newest, B
<1> QED BY <1>1, <1>2

\* load_history_items gives back what is stored behind a record as well, as
\* long as no boundary is.
LEMMA LoadAfter ==
  ASSUME NEW r, NEW q, Entries(r), Entries(q), NoBoundary(q)
  PROVE  LoadItems(r \o q) = LoadItems(r) \o Items(q)
<1> DEFINE t == r \o q
           m == Newest(r)
           c == SubSeq(r, m + 1, Len(r))
<1>0. IsSequence(r) /\ IsSequence(q) /\ IsSequence(t)
  BY JoinedIs DEF Entries
<1>1. /\ Len(r) \in Nat /\ Len(q) \in Nat
      /\ DOMAIN r = 1..Len(r) /\ DOMAIN q = 1..Len(q) /\ DOMAIN t = 1..(Len(r) + Len(q))
      /\ \A i \in DOMAIN t : t[i] = IF i \in DOMAIN r THEN r[i] ELSE q[i - Len(r)]
      /\ \A i \in DOMAIN t : i \notin DOMAIN r => i - Len(r) \in DOMAIN q
  BY <1>0, JoinedDomain
<1>2. Len(t) = Len(r) + Len(q)
  BY <1>0, Joined
<1> HIDE DEF t
<1>3. {i \in DOMAIN t : t[i].type = "boundary"} = {i \in DOMAIN r : r[i].type = "boundary"}
  BY <1>1 DEF NoBoundary
<1>4. m \in 0..Len(r)
  BY <1>0, NewestIs
<1>5. LoadItems(t) = Items(SubSeq(t, m + 1, Len(t)))
  BY <1>3 DEF LoadItems, Newest
<1>6. LoadItems(r) = Items(c)
  BY DEF LoadItems, Newest
<1>7. SubSeq(t, m + 1, Len(t)) = c \o q
  <2> DEFINE a == SubSeq(t, m + 1, Len(t))
             b == c \o q
  <2> HIDE DEF m
  <2>1. IsSequence(a) /\ Len(a) = Len(r) + Len(q) - m /\ \A i \in 1..Len(a) : a[i] = t[m + i]
    <3>1. m + 1 \in Nat \ {0} /\ Len(t) \in 0..Len(t)
      BY <1>1, <1>2, <1>4
    <3>2. /\ IsSequence(a) /\ Len(a) = IF m + 1 <= Len(t) THEN Len(t) - (m + 1) + 1 ELSE 0
          /\ \A i \in 1..Len(a) : a[i] = t[(m + 1) + i - 1]
      BY <1>0, <3>1, Cut
    <3> HIDE DEF a
    <3> QED BY <1>1, <1>2, <1>4, <3>2
  <2>n. Len(r) \in Nat /\ m \in Nat /\ m <= Len(r)
    BY <1>1, <1>4
  <2>2. IsSequence(c) /\ Len(c) = Len(r) - m /\ \A i \in 1..Len(c) : c[i] = r[m + i]
    <3>1. m + 1 \in Nat \ {0} /\ Len(r) \in 0..Len(r)
      BY <1>1, <1>4
    <3>2. /\ IsSequence(c) /\ Len(c) = IF m + 1 <= Len(r) THEN Len(r) - (m + 1) + 1 ELSE 0
          /\ \A i \in 1..Len(c) : c[i] = r[(m + 1) + i - 1]
      BY <1>0, <3>1, Cut
    <3> HIDE DEF c
    <3>3. Len(c) = Len(r) - m /\ Len(c) \in Nat
      <4>1. Len(c) = IF m + 1 <= Len(r) THEN Len(r) - (m + 1) + 1 ELSE 0
        BY <3>2
      <4> QED BY <2>n, <4>1
    <3>4. \A i \in 1..Len(c) : (m + 1) + i - 1 = m + i
      BY <1>1, <1>4, <3>3
    <3> QED BY <3>2, <3>3, <3>4
  <2> HIDE DEF c
  <2>3. /\ IsSequence(b) /\ Len(b) = Len(r) - m + Len(q)
        /\ \A i \in DOMAIN b : b[i] = IF i \in DOMAIN c THEN c[i] ELSE q[i - Len(c)]
        /\ DOMAIN b = 1..(Len(r) - m + Len(q)) /\ DOMAIN c = 1..(Len(r) - m)
    <3>1. Len(b) = Len(c) + Len(q)
      BY <1>0, <2>2, Joined
    <3>2. /\ DOMAIN c = 1..Len(c) /\ DOMAIN b = 1..(Len(c) + Len(q))
          /\ \A i \in DOMAIN b : b[i] = IF i \in DOMAIN c THEN c[i] ELSE q[i - Len(c)]
      BY <1>0, <2>2, JoinedDomain
    <3>3. IsSequence(b)
      BY <1>0, <2>2, JoinedIs
    <3> HIDE DEF b
    <3> QED BY <2>2, <3>1, <3>2, <3>3
  <2> HIDE DEF a, b
  <2>4. ASSUME NEW i \in 1..Len(a) PROVE a[i] = b[i]
    <3>0. m + i \in DOMAIN t /\ a[i] = t[m + i] /\ i \in DOMAIN b
      BY <1>1, <1>4, <2>1, <2>3
    <3>1. CASE i \in DOMAIN c
      <4>1. m + i \in DOMAIN r
        BY <1>1, <1>4, <2>3, <3>1
      <4>2. i \in 1..Len(c)
        BY <2>2, <2>3, <3>1
      <4> QED BY <1>1, <2>2, <2>3, <3>0, <3>1, <4>1, <4>2
    <3>2. CASE i \notin DOMAIN c
      <4>1. m + i \notin DOMAIN r /\ (m + i) - Len(r) = i - Len(c)
        BY <1>1, <1>4, <2>1, <2>2, <2>3, <3>2
      <4> QED BY <1>1, <2>3, <3>0, <3>2, <4>1
    <3> QED BY <3>1, <3>2
  <2>5. Len(a) = Len(b)
    BY <1>1, <1>4, <2>1, <2>3
  <2>6. a = b
    BY <2>1, <2>3, <2>4, <2>5, SameSequence
  <2> QED BY <2>6 DEF a, b
<1>8. Entries(c)
  BY <1>1, <1>4, EntriesCut
<1> HIDE DEF c
<1>9. Items(c \o q) = Items(c) \o Items(q)
  BY <1>8, ItemsJoined
<1>10. LoadItems(t) = LoadItems(r) \o Items(q)
  BY <1>5, <1>6, <1>7, <1>9
<1> QED BY <1>10 DEF t

\* What it gives back is a sequence of messages.
LEMMA LoadedIs ==
  ASSUME NEW r, Entries(r)
  PROVE  IsSequence(LoadItems(r))
<1>1. IsSequence(r) /\ Len(r) \in Nat
  BY SequenceIs DEF Entries
<1>2. Newest(r) \in 0..Len(r) /\ LoadItems(r) = Items(SubSeq(r, Newest(r) + 1, Len(r)))
  BY <1>1, NewestIs DEF LoadItems, Newest
<1>3. Entries(SubSeq(r, Newest(r) + 1, Len(r)))
  BY <1>1, <1>2, EntriesCut
<1> QED BY <1>2, <1>3, ItemsAreASequence

\* A boundary hides everything before it.
LEMMA LoadFrom ==
  ASSUME NEW p, NEW e, NEW q, Entries(p), Entries(q), NoBoundary(q),
         e.type = "boundary", IsSequence(e.items)
  PROVE  LoadItems((p \o <<e>>) \o q) = Items(q)
<1> DEFINE r == p \o <<e>>
<1>1. IsSequence(p) /\ Len(p) \in Nat /\ IsSequence(<<e>>) /\ Entries(<<e>>)
  <2>1. IsSequence(<<e>>) /\ DOMAIN <<e>> = 1..1 /\ <<e>>[1] = e
    BY Single, SequenceIs
  <2> QED BY <2>1, SequenceIs DEF Entries
<1>2. Entries(r) /\ IsSequence(r)
  BY <1>1, EntriesJoined DEF Entries
<1>3. DOMAIN r = 1..(Len(p) + 1) /\ Len(r) = Len(p) + 1 /\ r[Len(p) + 1] = e
  BY <1>1, Joined, Single, SequenceIs
<1> HIDE DEF r
<1>4. Newest(r) = Len(p) + 1
  BY <1>1, <1>2, <1>3, NewestIs
<1>5. LoadItems(r) = Items(SubSeq(r, (Len(p) + 1) + 1, Len(p) + 1))
  BY <1>3, <1>4 DEF LoadItems, Newest
<1>6. SubSeq(r, (Len(p) + 1) + 1, Len(p) + 1) = <<>>
  BY <1>1, SubSeqEmpty
<1>7. LoadItems(r \o q) = <<>> \o Items(q)
  BY <1>2, <1>5, <1>6, ItemsOfNone, LoadAfter
<1>8. LoadItems(r \o q) = Items(q)
  BY <1>7, ItemsAreASequence, JoinedToNone
<1> QED BY <1>8 DEF r

\* Whatever is stored before a rewrite, the record gives back what the
\* rewrite restates.
LEMMA LoadRewritten ==
  ASSUME NEW p, NEW q, NEW e, NEW t, Entries(p), Entries(q), Entries(t), NoBoundary(t),
         e.type = "boundary", IsSequence(e.items)
  PROVE  LoadItems(p \o (q \o (<<e>> \o t))) = Items(t)
<1> DEFINE one == <<e>>
           pq == p \o q
<1>1. IsSequence(p) /\ IsSequence(q) /\ IsSequence(t) /\ IsSequence(one) /\ Entries(pq)
  BY SingleIs, EntriesJoined DEF Entries
<1> HIDE DEF one, pq
<1>2. p \o (q \o (one \o t)) = ((p \o q) \o one) \o t
  <2>1. IsSequence(p) /\ IsSequence(q) /\ IsSequence(t) /\ IsSequence(one)
    BY <1>1
  <2> QED BY <2>1
<1>3. LoadItems((pq \o <<e>>) \o t) = Items(t)
  BY <1>1, LoadFrom
<1> QED BY <1>2, <1>3 DEF one, pq

-----------------------------------------------------------------------------
(* The numbers of entries, and what is stored behind them.                 *)

\* Numbered entries in the order of their numbers.
Ordered(e) ==
  /\ Entries(e)
  /\ \A i \in DOMAIN e : e[i].seq \in Nat
  /\ \A i, j \in DOMAIN e : i < j => e[i].seq < e[j].seq

\* All numbers of p are below those of q.
Before(p, q) == \A i \in DOMAIN p, j \in DOMAIN q : p[i].seq < q[j].seq

\* Entries followed by entries with higher numbers.
LEMMA OrderedJoined ==
  ASSUME NEW p, NEW q, Ordered(p), Ordered(q), Before(p, q)
  PROVE  Ordered(p \o q)
<1> DEFINE r == p \o q
<1>1. Entries(p) /\ Entries(q) /\ IsSequence(p) /\ IsSequence(q) /\ Entries(r)
  BY EntriesJoined DEF Ordered, Entries
<1>2. /\ Len(p) \in Nat /\ Len(q) \in Nat
      /\ DOMAIN p = 1..Len(p) /\ DOMAIN q = 1..Len(q) /\ DOMAIN r = 1..(Len(p) + Len(q))
      /\ \A i \in DOMAIN r : r[i] = IF i \in DOMAIN p THEN p[i] ELSE q[i - Len(p)]
      /\ \A i \in DOMAIN r : i \notin DOMAIN p => i - Len(p) \in DOMAIN q
  BY <1>1, JoinedDomain
<1> HIDE DEF r
<1>3. \A i \in DOMAIN r : r[i].seq \in Nat
  BY <1>2 DEF Ordered
<1>4. ASSUME NEW i \in DOMAIN r, NEW j \in DOMAIN r, i < j PROVE r[i].seq < r[j].seq
  <2>1. CASE j \in DOMAIN p
    <3>1. i \in DOMAIN p
      BY <1>2, <1>4, <2>1
    <3> QED BY <1>2, <1>4, <2>1, <3>1 DEF Ordered
  <2>2. CASE i \in DOMAIN p /\ j \notin DOMAIN p
    BY <1>2, <2>2 DEF Before
  <2>3. CASE i \notin DOMAIN p /\ j \notin DOMAIN p
    <3>1. i - Len(p) < j - Len(p)
      BY <1>2, <1>4
    <3> QED BY <1>2, <2>3, <3>1 DEF Ordered
  <2>4. i \notin DOMAIN p => j \notin DOMAIN p
    BY <1>2, <1>4
  <2> QED BY <2>1, <2>2, <2>3, <2>4
<1>5. Ordered(r)
  BY <1>1, <1>3, <1>4 DEF Ordered, r
<1> QED BY <1>5 DEF r

\* A row with the highest number is put at the end.
LEMMA InsertedLast ==
  ASSUME NEW r, IsSequence(r), NEW e, \A i \in DOMAIN r : r[i].seq < e.seq
  PROVE  Inserted(r, e) = r \o <<e>>
<1>1. Len(r) \in Nat /\ DOMAIN r = 1..Len(r)
  BY SequenceIs
<1>2. {i \in DOMAIN r : r[i].seq < e.seq} = 1..Len(r)
  BY <1>1
<1>3. Cardinality(1..Len(r)) = Len(r)
  <2>1. Cardinality(1..Len(r)) = IF 1 <= Len(r) THEN Len(r) - 1 + 1 ELSE 0
    BY <1>1, FS_Interval
  <2> QED BY <1>1, <2>1
<1>4. Inserted(r, e) = SubSeq(r, 1, (Len(r) + 1) - 1) \o <<e>> \o SubSeq(r, Len(r) + 1, Len(r))
  BY <1>2, <1>3 DEF Inserted, InsertAt
<1>5. (Len(r) + 1) - 1 = Len(r)
  BY <1>1
<1>6. SubSeq(r, 1, Len(r)) = r /\ SubSeq(r, Len(r) + 1, Len(r)) = <<>>
  BY <1>1, WholePrefix, SubSeqEmpty
<1>7. IsSequence(r \o <<e>>)
  BY SingleIs, JoinedIs
<1>8. Inserted(r, e) = (r \o <<e>>) \o <<>>
  BY <1>4, <1>5, <1>6
<1> QED BY <1>7, <1>8, JoinedToNone

\* So is every row of a batch whose numbers come after those of the record,
LEMMA RowsComeLast ==
  ASSUME NEW r, NEW q, Ordered(r), Ordered(q), Before(r, q), NEW n \in 1..Len(q)
  PROVE  Inserted(r \o SubSeq(q, 1, n - 1), q[n]) = r \o SubSeq(q, 1, n)
<1> DEFINE c == SubSeq(q, 1, n - 1)
           t == r \o c
<1>0. /\ IsSequence(r) /\ IsSequence(q) /\ Len(q) \in Nat /\ DOMAIN q = 1..Len(q)
      /\ n \in DOMAIN q
  BY SequenceIs DEF Ordered, Entries
<1>1. IsSequence(c) /\ Len(c) = n - 1 /\ \A i \in 1..(n - 1) : c[i] = q[i]
  <2>1. /\ IsSequence(c) /\ Len(c) = IF 1 <= n - 1 THEN (n - 1) - 1 + 1 ELSE 0
        /\ \A i \in 1..Len(c) : c[i] = q[1 + i - 1]
    BY <1>0, Cut
  <2> HIDE DEF c
  <2>2. Len(c) = n - 1
    BY <1>0, <2>1
  <2>3. \A i \in 1..(n - 1) : 1 + i - 1 = i
    BY <1>0
  <2> QED BY <2>1, <2>2, <2>3
<1>2. SubSeq(q, 1, n) = c \o <<q[n]>>
  <2>1. n - 1 \in 0..(Len(q) - 1) /\ (n - 1) + 1 = n
    BY <1>0
  <2>2. SubSeq(q, 1, (n - 1) + 1) = SubSeq(q, 1, n - 1) \o <<q[(n - 1) + 1]>>
    BY <1>0, <2>1, NextPrefix
  <2> QED BY <2>1, <2>2
<1> HIDE DEF c
<1>3. /\ IsSequence(t) /\ DOMAIN r = 1..Len(r) /\ DOMAIN c = 1..(n - 1)
      /\ \A i \in DOMAIN t : t[i] = IF i \in DOMAIN r THEN r[i] ELSE c[i - Len(r)]
      /\ \A i \in DOMAIN t : i \notin DOMAIN r => i - Len(r) \in DOMAIN c
  BY <1>0, <1>1, JoinedIs, JoinedDomain
<1> HIDE DEF t
<1>4. ASSUME NEW i \in DOMAIN t PROVE t[i].seq < q[n].seq
  <2>1. CASE i \in DOMAIN r
    BY <1>0, <1>3, <2>1 DEF Before
  <2>2. CASE i \notin DOMAIN r
    <3>1. i - Len(r) \in 1..(n - 1) /\ t[i] = q[i - Len(r)]
      BY <1>1, <1>3, <2>2
    <3>2. \A j \in 1..(n - 1) : j \in DOMAIN q /\ j < n
      BY <1>0
    <3> QED BY <1>0, <3>1, <3>2 DEF Ordered
  <2> QED BY <2>1, <2>2
<1>5. Inserted(t, q[n]) = t \o <<q[n]>>
  BY <1>3, <1>4, InsertedLast
<1>6. (r \o c) \o <<q[n]>> = r \o (c \o <<q[n]>>)
  <2> DEFINE d == <<q[n]>>
  <2>1. IsSequence(r) /\ IsSequence(c) /\ IsSequence(d)
    BY <1>0, <1>1, SingleIs
  <2> HIDE DEF d
  <2>2. (r \o c) \o d = r \o (c \o d)
    BY <2>1, JoinedTwice
  <2> QED BY <2>2 DEF d
<1> QED BY <1>2, <1>5, <1>6 DEF t, c

\* and the batch as a whole: none of its rows is refused.
LEMMA AppendedLast ==
  ASSUME NEW r, NEW q, Ordered(r), Ordered(q), Before(r, q)
  PROVE  Appended(r, q) = r \o q /\ ~ Refused(r, q)
<1> DEFINE L == Len(q)
           IsStored(f) == f = [n \in 0..L |-> IF n = 0 THEN r ELSE Inserted(f[n - 1], q[n])]
           g == [n \in 0..L |-> r \o SubSeq(q, 1, n)]
           stored == CHOOSE f : IsStored(f)
           taken == {i \in DOMAIN q : q[i].seq \in Seqs(r)}
<1>0. IsSequence(r) /\ IsSequence(q) /\ L \in Nat /\ DOMAIN q = 1..L
  BY SequenceIs DEF Ordered, Entries
<1>1. taken = {} /\ ~ Refused(r, q)
  <2>1. ASSUME NEW i \in DOMAIN q PROVE q[i].seq \notin Seqs(r)
    <3>1. \A j \in DOMAIN r : r[j].seq < q[i].seq /\ r[j].seq \in Nat
      BY DEF Before, Ordered
    <3> QED BY <3>1 DEF Seqs
  <2> QED BY <2>1 DEF Refused
<1>2. Min(taken \cup {L + 1}) - 1 = L
  <2>1. taken \cup {L + 1} = {L + 1}
    BY <1>1
  <2>2. Min({L + 1}) = L + 1
    BY <1>0 DEF Min
  <2> QED BY <1>0, <2>1, <2>2
<1>3. IsStored(g)
  <2>1. ASSUME NEW n \in 0..L
        PROVE  g[n] = IF n = 0 THEN r ELSE Inserted(g[n - 1], q[n])
    <3>1. CASE n = 0
      BY <1>0, <3>1, WholePrefix, JoinedToNone
    <3>2. CASE n # 0
      <4>1. n \in 1..Len(q) /\ n - 1 \in 0..L
        BY <1>0, <3>2
      <4>2. Inserted(r \o SubSeq(q, 1, n - 1), q[n]) = r \o SubSeq(q, 1, n)
        BY <4>1, RowsComeLast
      <4> QED BY <3>2, <4>1, <4>2
    <3> QED BY <3>1, <3>2
  <2> HIDE DEF L
  <2>2. g = [n \in 0..L |-> IF n = 0 THEN r ELSE Inserted(g[n - 1], q[n])]
    BY <2>1
  <2> QED BY <2>2
<1>4. IsStored(stored)
  <2> HIDE DEF IsStored, g
  <2> QED BY <1>3
<1> DEFINE P(k) == k <= L => stored[k] = r \o SubSeq(q, 1, k)
           S == {k \in Nat : P(k)}
<1>5. P(0)
  <2> HIDE DEF stored
  <2>1. stored[0] = r
    BY <1>0, <1>4
  <2> QED BY <1>0, <2>1, WholePrefix, JoinedToNone
<1>6. ASSUME NEW k \in Nat, P(k) PROVE P(k + 1)
  <2> HIDE DEF stored
  <2> SUFFICES ASSUME k + 1 <= L PROVE stored[k + 1] = r \o SubSeq(q, 1, k + 1)
    OBVIOUS
  <2>1. k + 1 \in 0..L /\ k + 1 # 0 /\ (k + 1) - 1 = k /\ k + 1 \in 1..Len(q) /\ k <= L
    BY <1>0
  <2>2. stored[k + 1] = Inserted(stored[(k + 1) - 1], q[k + 1])
    BY <1>4, <2>1
  <2>3. stored[k] = r \o SubSeq(q, 1, k)
    BY <1>6, <2>1
  <2>4. Inserted(r \o SubSeq(q, 1, (k + 1) - 1), q[k + 1]) = r \o SubSeq(q, 1, k + 1)
    BY <2>1, RowsComeLast
  <2> QED BY <2>1, <2>2, <2>3, <2>4
<1>7. Nat \subseteq S
  <2> HIDE DEF P
  <2>1. 0 \in S /\ \A k \in Nat : k \in S => k + 1 \in S
    BY <1>5, <1>6
  <2> HIDE DEF S
  <2> QED BY <2>1, Induction
<1>8. stored[L] = r \o q
  <2>1. P(L)
    BY <1>0, <1>7
  <2>2. SubSeq(q, 1, L) = q
    BY <1>0, WholePrefix
  <2>3. L <= L
    BY <1>0
  <2> HIDE DEF stored, L
  <2> QED BY <2>1, <2>2, <2>3
<1>9. Appended(r, q) = stored[Min(taken \cup {L + 1}) - 1]
  BY DEF Appended
<1> QED BY <1>1, <1>2, <1>8, <1>9

\* Numbered entries whose numbers are from n up to m.
Spans(e, n, m) == Ordered(e) /\ \A i \in DOMAIN e : n <= e[i].seq /\ e[i].seq < m

\* No entry has any.
LEMMA NoneSpans == ASSUME NEW n \in Nat, NEW m \in Nat PROVE Spans(<<>>, n, m)
<1>1. IsSequence(<<>>) /\ DOMAIN <<>> = {}
  BY None, SequenceIs
<1> QED BY <1>1 DEF Spans, Ordered, Entries

\* Entries that follow each other.
LEMMA SpansJoined ==
  ASSUME NEW p, NEW q, NEW n \in Nat, NEW m \in Nat, NEW k \in Nat,
         Spans(p, n, m), Spans(q, m, k), n <= m, m <= k
  PROVE  Spans(p \o q, n, k)
<1>1. \A i \in DOMAIN p : p[i].seq \in Nat /\ n <= p[i].seq /\ p[i].seq < m
  BY DEF Spans, Ordered
<1>2. \A i \in DOMAIN q : q[i].seq \in Nat /\ m <= q[i].seq /\ q[i].seq < k
  BY DEF Spans, Ordered
<1>3. Before(p, q)
  BY <1>1, <1>2 DEF Before
<1>4. Ordered(p \o q)
  BY <1>3, OrderedJoined DEF Spans
<1>5. IsSequence(p) /\ IsSequence(q)
  BY DEF Spans, Ordered, Entries
<1>6. /\ \A i \in DOMAIN (p \o q) : (p \o q)[i] = IF i \in DOMAIN p THEN p[i] ELSE q[i - Len(p)]
      /\ \A i \in DOMAIN (p \o q) : i \notin DOMAIN p => i - Len(p) \in DOMAIN q
  BY <1>5, JoinedDomain
<1>7. ASSUME NEW i \in DOMAIN (p \o q) PROVE n <= (p \o q)[i].seq /\ (p \o q)[i].seq < k
  <2>1. CASE i \in DOMAIN p
    BY <1>1, <1>6, <2>1
  <2>2. CASE i \notin DOMAIN p
    BY <1>2, <1>6, <2>2
  <2> QED BY <2>1, <2>2
<1> QED BY <1>4, <1>7 DEF Spans

\* Entries below a number are below a higher one.
LEMMA SpansWider ==
  ASSUME NEW e, NEW n \in Nat, NEW m \in Nat, NEW k \in Nat, m <= k, Spans(e, n, m)
  PROVE  Spans(e, n, k)
<1>1. \A i \in DOMAIN e : e[i].seq \in Nat
  BY DEF Spans, Ordered
<1> QED BY <1>1 DEF Spans

\* A single entry.
LEMMA OneSpans ==
  ASSUME NEW e, NEW n \in Nat, e.seq = n, IsSequence(e.items)
  PROVE  Spans(<<e>>, n, n + 1)
<1>1. IsSequence(<<e>>) /\ DOMAIN <<e>> = 1..1 /\ <<e>>[1] = e
  BY Single, SequenceIs
<1> QED BY <1>1 DEF Spans, Ordered, Entries

\* Messages numbered from n on.
LEMMA NumberedSpans ==
  ASSUME NEW s, IsSequence(s), NEW n \in Nat
  PROVE  Spans(Numbered(n, s), n, n + Len(s)) /\ NoBoundary(Numbered(n, s))
<1> DEFINE q == Numbered(n, s)
<1>0. /\ Len(s) \in Nat /\ DOMAIN q = 1..Len(s)
      /\ \A i \in 1..Len(s) : q[i] = ItemEntry(n + i - 1, s[i])
  BY NumberedIs, SequenceIs
<1>1. Entries(q)
  BY ItemsNumbered
<1> HIDE DEF q
<1>2. \A i \in 1..Len(s) : q[i].seq = n + i - 1 /\ q[i].type = "item"
  BY <1>0 DEF ItemEntry
<1>3. Spans(q, n, n + Len(s)) /\ NoBoundary(q)
  BY <1>0, <1>1, <1>2 DEF Spans, Ordered, NoBoundary
<1> QED BY <1>3 DEF q

\* A batch numbered behind the record is stored behind it.
LEMMA SpansAppended ==
  ASSUME NEW r, NEW q, NEW n \in Nat, NEW m \in Nat, n <= m, Spans(r, 0, n), Spans(q, n, m)
  PROVE  Appended(r, q) = r \o q /\ ~ Refused(r, q) /\ Spans(r \o q, 0, m)
<1>1. \A i \in DOMAIN r : r[i].seq \in Nat /\ r[i].seq < n
  BY DEF Spans, Ordered
<1>2. \A i \in DOMAIN q : q[i].seq \in Nat /\ n <= q[i].seq
  BY DEF Spans, Ordered
<1>3. Before(r, q)
  BY <1>1, <1>2 DEF Before
<1>4. Appended(r, q) = r \o q /\ ~ Refused(r, q)
  BY <1>3, AppendedLast DEF Spans
<1>5. Spans(r \o q, 0, m)
  <2>1. 0 \in Nat /\ 0 <= n
    OBVIOUS
  <2> QED BY <2>1, SpansJoined
<1> QED BY <1>4, <1>5

\* The rows of a rewrite: its boundary e, and the messages that restate the
\* span, numbered behind it.
Rewrite(e, s) == <<e>> \o Numbered(e.seq + 1, s)

\* The number after them.
AfterRewrite(n, s) == n + 1 + Len(s)

\* The numbers of a rewrite whose boundary has the number n.
LEMMA RewriteSpans ==
  ASSUME NEW s, IsSequence(s), NEW n \in Nat, NEW e, e.seq = n, e.items = <<>>
  PROVE  /\ Spans(Rewrite(e, s), n, AfterRewrite(n, s))
         /\ Len(Rewrite(e, s)) = 1 + Len(s)
<1> DEFINE more == Numbered(n + 1, s)
           m == n + 1
           k == m + Len(s)
<1>1. Len(s) \in Nat /\ m \in Nat /\ k \in Nat /\ n <= m /\ m <= k
  BY SequenceIs
<1>2. Spans(<<e>>, n, m)
  BY None, OneSpans
<1>3. Spans(more, m, k) /\ IsSequence(more) /\ Len(more) = Len(s)
  BY <1>1, NumberedSpans, NumberedIs
<1>4. Rewrite(e, s) = <<e>> \o more
  BY DEF Rewrite
<1>5. AfterRewrite(n, s) = k
  BY <1>1 DEF AfterRewrite
<1>6. IsSequence(<<e>>) /\ Len(<<e>>) = 1
  BY Single
<1>7. Len(<<e>> \o more) = 1 + Len(s)
  <2> HIDE DEF more
  <2> QED BY <1>3, <1>6, Joined
<1> HIDE DEF more, m, k
<1>8. Spans(<<e>> \o more, n, k)
  BY <1>1, <1>2, <1>3, SpansJoined
<1> QED BY <1>4, <1>5, <1>7, <1>8

-----------------------------------------------------------------------------
(* The seeding of a run.                                                   *)

\* The next number of a record is above all of its numbers.
LEMMA NextSeqIs ==
  ASSUME NEW rec, Ordered(rec), rec # <<>>
  PROVE  NextSeq(rec) \in Nat /\ Spans(rec, 0, NextSeq(rec))
<1>1. IsSequence(rec) /\ Len(rec) \in Nat /\ DOMAIN rec = 1..Len(rec)
  BY SequenceIs DEF Ordered, Entries
<1>2. Len(rec) # 0
  BY <1>1
<1>3. NextSeq(rec) = rec[Len(rec)].seq + 1 /\ Len(rec) \in DOMAIN rec
  BY <1>1, <1>2 DEF NextSeq, Last
<1>4. ASSUME NEW i \in DOMAIN rec PROVE rec[i].seq \in Nat /\ rec[i].seq < NextSeq(rec)
  <2>1. rec[i].seq \in Nat /\ rec[Len(rec)].seq \in Nat
    BY <1>3 DEF Ordered
  <2>2. i = Len(rec) \/ i < Len(rec)
    BY <1>1
  <2>3. i < Len(rec) => rec[i].seq < rec[Len(rec)].seq
    BY <1>3 DEF Ordered
  <2> QED BY <1>3, <2>1, <2>2, <2>3
<1>5. NextSeq(rec) \in Nat
  <2>1. rec[Len(rec)].seq \in Nat
    BY <1>3 DEF Ordered
  <2> QED BY <1>3, <2>1
<1> QED BY <1>4, <1>5 DEF Spans

\* What the seeding of a run comes to: the durable messages are those that
\* the record, with the boundary stored, gives back; the others are numbered
\* behind everything in it.
Planned(rec, p) ==
  /\ IsSequence(p.items) /\ p.first \in Nat /\ p.durable \in 0..Len(p.items)
  /\ Spans(rec \o p.boundary, 0, p.first + p.durable)
  /\ Bares(LoadItems(rec \o p.boundary)) = Bares(SubSeq(p.items, 1, p.durable))

\* It does for a run on an empty record,
LEMMA StartsFromNothing ==
  ASSUME NEW messages, IsSequence(messages)
  PROVE  Planned(<<>>, Seeding(messages, 0, 0, <<>>))
<1> DEFINE p == Seeding(messages, 0, 0, <<>>)
<1>1. p.items = messages /\ p.first = 0 /\ p.durable = 0 /\ p.boundary = <<>>
  BY DEF Seeding
<1>2. <<>> \o <<>> = <<>> /\ Entries(<<>>)
  <2>1. IsSequence(<<>>) /\ DOMAIN <<>> = {}
    BY None, SequenceIs
  <2> QED BY <2>1, JoinedToNone DEF Entries
<1>3. Spans(<<>>, 0, 0)
  BY NoneSpans
<1>4. LoadItems(<<>>) = <<>>
  <2>1. IsSequence(<<>>) /\ Len(<<>>) = 0
    BY None
  <2>2. Newest(<<>>) = 0
    BY <2>1, NewestIs
  <2>3. LoadItems(<<>>) = Items(SubSeq(<<>>, 0 + 1, 0))
    BY <2>1, <2>2 DEF LoadItems, Newest
  <2>4. SubSeq(<<>>, 0 + 1, 0) = <<>>
    BY SubSeqEmpty
  <2> QED BY <2>3, <2>4, ItemsOfNone
<1>5. SubSeq(messages, 1, 0) = <<>> /\ 0 \in 0..Len(messages)
  BY WholePrefix, SequenceIs
<1> HIDE DEF p
<1>6. Planned(<<>>, p)
  <2>1. Spans(<<>> \o p.boundary, 0, p.first + p.durable)
    BY <1>1, <1>2, <1>3
  <2>2. Bares(LoadItems(<<>> \o p.boundary)) = Bares(SubSeq(p.items, 1, p.durable))
    BY <1>1, <1>2, <1>4, <1>5
  <2> QED BY <1>1, <1>5, <2>1, <2>2 DEF Planned
<1> QED BY <1>6 DEF p

\* for a run that declares a revision of the host's,
LEMMA StartsAnewIs ==
  ASSUME NEW rec, Ordered(rec), rec # <<>>, NEW messages, IsSequence(messages)
  PROVE  Planned(rec, StartsAnew(NextSeq(rec), messages))
<1> DEFINE p == StartsAnew(NextSeq(rec), messages)
           b == Boundary(NextSeq(rec), "host_revision", 0)
           n == NextSeq(rec)
<1>0. n \in Nat /\ Spans(rec, 0, n)
  BY NextSeqIs
<1>1. p.items = messages /\ p.first = n + 1 /\ p.durable = 0 /\ p.boundary = <<b>>
  BY DEF StartsAnew, Seeding
<1>2. b.seq = n /\ b.type = "boundary" /\ IsSequence(b.items)
  BY None DEF Boundary
<1> HIDE DEF p, b, n
<1>3. Spans(rec \o <<b>>, 0, n + 1)
  <2>1. Spans(<<b>>, n, n + 1)
    BY <1>0, <1>2, OneSpans
  <2>2. 0 \in Nat /\ 0 <= n /\ n <= n + 1 /\ n + 1 \in Nat
    BY <1>0
  <2> QED BY <1>0, <2>1, <2>2, SpansJoined
<1>4. LoadItems(rec \o <<b>>) = <<>>
  <2>1. IsSequence(<<>>) /\ DOMAIN <<>> = {}
    BY None, SequenceIs
  <2>2. Entries(<<>>) /\ NoBoundary(<<>>) /\ Entries(rec) /\ IsSequence(rec)
    BY <2>1 DEF Entries, NoBoundary, Ordered
  <2>3. LoadItems((rec \o <<b>>) \o <<>>) = Items(<<>>)
    BY <1>2, <2>2, LoadFrom
  <2>4. (rec \o <<b>>) \o <<>> = rec \o <<b>>
    BY <2>2, SingleIs, JoinedIs, JoinedToNone
  <2> QED BY <2>3, <2>4, ItemsOfNone
<1>5. SubSeq(messages, 1, 0) = <<>> /\ 0 \in 0..Len(messages)
  BY WholePrefix, SequenceIs
<1>6. (n + 1) + 0 = n + 1 /\ n + 1 \in Nat
  BY <1>0
<1>7. Planned(rec, p)
  BY <1>1, <1>3, <1>4, <1>5, <1>6 DEF Planned
<1> QED BY <1>7 DEF p

\* for a run that joins what the record gives back and goes on with the
\* host's messages from the n-th on,
LEMMA Joins ==
  ASSUME NEW rec, Ordered(rec), rec # <<>>, NEW messages, IsSequence(messages),
         NEW n \in 0..Len(messages)
  PROVE  LET prior == Bares(LoadItems(rec))
         IN  Planned(rec, Seeding(prior \o SubSeq(messages, n + 1, Len(messages)),
                                  NextSeq(rec), Len(prior), <<>>))
<1> DEFINE prior == Bares(LoadItems(rec))
           more == SubSeq(messages, n + 1, Len(messages))
           p == Seeding(prior \o more, NextSeq(rec), Len(prior), <<>>)
           s == NextSeq(rec)
           l == Len(prior)
<1>0. s \in Nat /\ Spans(rec, 0, s)
  BY NextSeqIs
<1>1. p.items = prior \o more /\ p.first = s /\ p.durable = l /\ p.boundary = <<>>
  BY DEF Seeding
<1>2. IsSequence(LoadItems(rec)) /\ IsSequence(rec)
  BY LoadedIs DEF Ordered, Entries
<1>3. IsSequence(prior) /\ l \in Nat /\ Bares(prior) = prior
  BY <1>2, BaresOf, BaresTwice, SequenceIs
<1>4. IsSequence(more)
  <2>1. Len(messages) \in Nat /\ n + 1 \in Nat \ {0} /\ Len(messages) \in 0..Len(messages)
    BY SequenceIs
  <2> QED BY <2>1, Cut
<1> HIDE DEF more, s
<1>5. /\ IsSequence(prior \o more) /\ l \in 0..Len(prior \o more)
      /\ SubSeq(prior \o more, 1, l) = prior
  <2> HIDE DEF prior
  <2>1. Len(prior \o more) = Len(prior) + Len(more) /\ Len(more) \in Nat
    BY <1>3, <1>4, Joined, SequenceIs
  <2> QED BY <1>3, <1>4, <2>1, JoinedIs, FirstPart
<1>6. rec \o <<>> = rec
  BY <1>2, JoinedToNone
<1>7. Spans(rec, 0, s + l)
  <2> HIDE DEF l
  <2>1. s <= s + l /\ s + l \in Nat /\ 0 \in Nat
    BY <1>0, <1>3
  <2> QED BY <1>0, <2>1, SpansWider
<1>8. Bares(LoadItems(rec)) = Bares(prior)
  BY <1>3
<1> HIDE DEF p, prior, l
<1>9. Planned(rec, p)
  BY <1>0, <1>1, <1>5, <1>6, <1>7, <1>8 DEF Planned
<1> QED BY <1>9 DEF p, prior, more, s, l

\* and so for whatever the loop decides.
LEMMA PlansWell ==
  ASSUME NEW rec, Ordered(rec), NEW messages, IsSequence(messages)
  PROVE  Planned(rec, PlanSeeding(rec, messages))
<1> DEFINE items == LoadItems(rec)
           prior == Bares(items)
           Join(n) == Seeding(prior \o SubSeq(messages, n + 1, Len(messages)),
                              NextSeq(rec), Len(prior), <<>>)
           plan == PlanSeeding(rec, messages)
<1>1. CASE rec = <<>>
  <2>1. plan = Seeding(messages, 0, 0, <<>>)
    BY <1>1 DEF PlanSeeding
  <2> QED BY <1>1, <2>1, StartsFromNothing
<1>2. CASE rec # <<>>
  <2>1. Len(messages) \in Nat
    BY SequenceIs
  <2>2. \/ IsPrefix(prior, messages) /\ plan = Join(Len(prior))
        \/ Extends(messages, HostView(items)) /\ plan = Join(Len(HostView(items)))
        \/ Extends(messages, LoopView(rec)) /\ plan = Join(Len(LoopView(rec)))
        \/ plan = StartsAnew(NextSeq(rec), messages)
    BY <1>2 DEF PlanSeeding
  <2>3. ASSUME NEW n \in 0..Len(messages), plan = Join(n) PROVE Planned(rec, plan)
    BY <1>2, <2>3, Joins
  <2>4. \A v : Extends(messages, v) => Len(v) \in 0..Len(messages)
    BY <2>1 DEF Extends
  <2>5. IsPrefix(prior, messages) => Len(prior) \in 0..Len(messages)
    <3>1. IsSequence(items)
      BY LoadedIs DEF Ordered
    <3>2. Len(prior) \in Nat
      BY <3>1, BaresOf, SequenceIs
    <3> QED BY <2>1, <3>2 DEF IsPrefix
  <2> HIDE DEF plan, Join, prior, items
  <2>6. plan = StartsAnew(NextSeq(rec), messages) => Planned(rec, plan)
    BY <1>2, StartsAnewIs
  <2>7. ASSUME NEW v, Extends(messages, v), plan = Join(Len(v)) PROVE Planned(rec, plan)
    BY <2>3, <2>4, <2>7
  <2>8. (IsPrefix(prior, messages) /\ plan = Join(Len(prior))) => Planned(rec, plan)
    BY <2>3, <2>5
  <2>9. Planned(rec, plan)
    BY <2>2, <2>6, <2>7, <2>8
  <2> QED BY <2>9 DEF plan
<1> QED BY <1>1, <1>2

-----------------------------------------------------------------------------
(* Texts that a record does not have.                                      *)

\* Messages that have none of the texts B.
Without(items, B) == IsSequence(items) /\ \A i \in DOMAIN items : items[i].text \notin B

\* They have none of fewer texts.
LEMMA WithoutFewer ==
  ASSUME NEW s, NEW B, NEW C \in SUBSET B, Without(s, B)
  PROVE  Without(s, C)
BY DEF Without

\* No message has any.
LEMMA WithoutNone == ASSUME NEW B PROVE Without(<<>>, B)
<1>1. IsSequence(<<>>) /\ DOMAIN <<>> = {}
  BY None, SequenceIs
<1> QED BY <1>1 DEF Without

\* A single message with another text.
LEMMA WithoutOne ==
  ASSUME NEW B, NEW item, item.text \notin B
  PROVE  Without(<<item>>, B)
<1>1. IsSequence(<<item>>) /\ DOMAIN <<item>> = 1..1 /\ <<item>>[1] = item
  BY Single, SequenceIs
<1> QED BY <1>1 DEF Without

\* Two such sequences of messages joined.
LEMMA WithoutJoined ==
  ASSUME NEW B, NEW s, NEW t, Without(s, B), Without(t, B)
  PROVE  Without(s \o t, B)
<1>1. IsSequence(s) /\ IsSequence(t) /\ IsSequence(s \o t)
  BY JoinedIs DEF Without
<1>2. /\ \A i \in DOMAIN (s \o t) :
           (s \o t)[i] = IF i \in DOMAIN s THEN s[i] ELSE t[i - Len(s)]
      /\ \A i \in DOMAIN (s \o t) : i \notin DOMAIN s => i - Len(s) \in DOMAIN t
  BY <1>1, JoinedDomain
<1> QED BY <1>1, <1>2 DEF Without

\* The members of a part of a sequence come from the sequence.
LEMMA CutDomain ==
  ASSUME NEW s, IsSequence(s), NEW m \in Nat \ {0}, NEW n \in 0..Len(s)
  PROVE  /\ IsSequence(SubSeq(s, m, n))
         /\ \A i \in DOMAIN SubSeq(s, m, n) :
              m + i - 1 \in DOMAIN s /\ SubSeq(s, m, n)[i] = s[m + i - 1]
<1> DEFINE c == SubSeq(s, m, n)
<1>1. /\ IsSequence(c) /\ Len(c) = IF m <= n THEN n - m + 1 ELSE 0
      /\ \A i \in 1..Len(c) : c[i] = s[m + i - 1]
  BY Cut
<1>2. DOMAIN c = 1..Len(c) /\ Len(s) \in Nat /\ DOMAIN s = 1..Len(s)
  BY <1>1, SequenceIs
<1> HIDE DEF c
<1>3. \A i \in DOMAIN c : m + i - 1 \in DOMAIN s
  BY <1>1, <1>2
<1> QED BY <1>1, <1>2, <1>3 DEF c

\* A part of such messages,
LEMMA WithoutCut ==
  ASSUME NEW B, NEW s, Without(s, B), NEW m \in Nat \ {0}, NEW n \in 0..Len(s)
  PROVE  Without(SubSeq(s, m, n), B)
<1>1. /\ IsSequence(SubSeq(s, m, n))
      /\ \A i \in DOMAIN SubSeq(s, m, n) :
           m + i - 1 \in DOMAIN s /\ SubSeq(s, m, n)[i] = s[m + i - 1]
  BY CutDomain DEF Without
<1> QED BY <1>1 DEF Without

\* and what is left of them once their kinds are dropped.
LEMMA WithoutBares ==
  ASSUME NEW B, NEW s, Without(s, B)
  PROVE  Without(Bares(s), B)
<1>1. /\ IsSequence(Bares(s)) /\ Len(Bares(s)) = Len(s)
      /\ \A i \in 1..Len(s) : Bares(s)[i] = Bare(s[i])
  BY BaresOf DEF Without
<1>2. DOMAIN Bares(s) = 1..Len(s) /\ DOMAIN s = 1..Len(s)
  BY <1>1, SequenceIs DEF Without
<1>3. \A x : Bare(x).text = x.text
  BY DEF Bare, Item
<1> QED BY <1>1, <1>2, <1>3 DEF Without

\* Entries whose messages have none of the texts B.
RowsWithout(e, B) ==
  /\ Entries(e)
  /\ \A i \in DOMAIN e : e[i].type \in {"item", "boundary", "seed"} /\ Without(e[i].items, B)

\* They have none of fewer texts.
LEMMA RowsFewer ==
  ASSUME NEW e, NEW B, NEW C \in SUBSET B, RowsWithout(e, B)
  PROVE  RowsWithout(e, C)
BY WithoutFewer DEF RowsWithout

\* No entry has any.
LEMMA RowsNone == ASSUME NEW B PROVE RowsWithout(<<>>, B)
<1>1. IsSequence(<<>>) /\ DOMAIN <<>> = {}
  BY None, SequenceIs
<1> QED BY <1>1 DEF RowsWithout, Entries

\* A single entry.
LEMMA RowsOne ==
  ASSUME NEW B, NEW e, e.type \in {"item", "boundary", "seed"}, Without(e.items, B)
  PROVE  RowsWithout(<<e>>, B)
<1>1. IsSequence(<<e>>) /\ DOMAIN <<e>> = 1..1 /\ <<e>>[1] = e
  BY Single, SequenceIs
<1> QED BY <1>1 DEF RowsWithout, Entries, Without

\* Two such sequences of entries joined.
LEMMA RowsJoined ==
  ASSUME NEW B, NEW p, NEW q, RowsWithout(p, B), RowsWithout(q, B)
  PROVE  RowsWithout(p \o q, B)
<1>1. IsSequence(p) /\ IsSequence(q) /\ Entries(p \o q)
  BY EntriesJoined DEF RowsWithout, Entries
<1>2. /\ \A i \in DOMAIN (p \o q) :
           (p \o q)[i] = IF i \in DOMAIN p THEN p[i] ELSE q[i - Len(p)]
      /\ \A i \in DOMAIN (p \o q) : i \notin DOMAIN p => i - Len(p) \in DOMAIN q
  BY <1>1, JoinedDomain
<1> QED BY <1>1, <1>2 DEF RowsWithout

\* A part of such entries.
LEMMA RowsCut ==
  ASSUME NEW B, NEW e, RowsWithout(e, B), NEW m \in Nat \ {0}, NEW n \in 0..Len(e)
  PROVE  RowsWithout(SubSeq(e, m, n), B)
<1>1. /\ Entries(SubSeq(e, m, n))
      /\ \A i \in DOMAIN SubSeq(e, m, n) :
           m + i - 1 \in DOMAIN e /\ SubSeq(e, m, n)[i] = e[m + i - 1]
  BY EntriesCut, CutDomain DEF RowsWithout, Entries
<1> QED BY <1>1 DEF RowsWithout

\* Messages without a text, numbered.
LEMMA RowsNumbered ==
  ASSUME NEW B, NEW s, Without(s, B), NEW n \in Nat
  PROVE  RowsWithout(Numbered(n, s), B)
<1>1. /\ IsSequence(s) /\ Len(s) \in Nat /\ DOMAIN s = 1..Len(s)
      /\ DOMAIN Numbered(n, s) = 1..Len(s) /\ Entries(Numbered(n, s))
      /\ \A i \in 1..Len(s) : Numbered(n, s)[i] = ItemEntry(n + i - 1, s[i])
  BY NumberedIs, ItemsNumbered, SequenceIs DEF Without
<1>2. ASSUME NEW i \in 1..Len(s)
      PROVE  /\ ItemEntry(n + i - 1, s[i]).type = "item"
             /\ Without(ItemEntry(n + i - 1, s[i]).items, B)
  <2>1. Without(<<s[i]>>, B)
    BY <1>1, WithoutOne DEF Without
  <2> QED BY <2>1 DEF ItemEntry
<1> QED BY <1>1, <1>2 DEF RowsWithout

\* The messages of such entries (by induction over their number),
LEMMA ItemsWithout ==
  ASSUME NEW B, NEW p, RowsWithout(p, B)
  PROVE  Without(Items(p), B)
<1> DEFINE P(k) == k <= Len(p) => Without(Items(SubSeq(p, 1, k)), B)
           S == {k \in Nat : P(k)}
<1>0. Entries(p) /\ IsSequence(p) /\ Len(p) \in Nat /\ DOMAIN p = 1..Len(p)
  BY SequenceIs DEF RowsWithout, Entries
<1>1. P(0)
  BY <1>0, WholePrefix, ItemsOfNone, WithoutNone
<1>2. ASSUME NEW k \in Nat, P(k) PROVE P(k + 1)
  <2> SUFFICES ASSUME k + 1 <= Len(p) PROVE Without(Items(SubSeq(p, 1, k + 1)), B)
    OBVIOUS
  <2>1. SubSeq(p, 1, k + 1) = SubSeq(p, 1, k) \o <<p[k + 1]>>
    BY <1>0, NextPrefix
  <2>2. Entries(SubSeq(p, 1, k)) /\ IsSequence(p[k + 1].items) /\ Without(p[k + 1].items, B)
    BY <1>0, EntriesCut DEF Entries, RowsWithout
  <2>3. Items(SubSeq(p, 1, k + 1)) = Items(SubSeq(p, 1, k)) \o p[k + 1].items
    BY <2>1, <2>2, ItemsAndOne
  <2>4. Without(Items(SubSeq(p, 1, k)), B)
    BY <1>0, <1>2
  <2> QED BY <2>2, <2>3, <2>4, WithoutJoined
<1>3. Nat \subseteq S
  <2> HIDE DEF P
  <2>1. 0 \in S /\ \A k \in Nat : k \in S => k + 1 \in S
    BY <1>1, <1>2
  <2> HIDE DEF S
  <2> QED BY <2>1, Induction
<1>4. P(Len(p))
  BY <1>0, <1>3
<1>5. Len(p) <= Len(p) /\ SubSeq(p, 1, Len(p)) = p
  BY <1>0, WholePrefix
<1> QED BY <1>4, <1>5

\* and so what load_history_items gives back of them.
LEMMA LoadedWithout ==
  ASSUME NEW B, NEW r, RowsWithout(r, B)
  PROVE  Without(LoadItems(r), B)
<1>1. IsSequence(r) /\ Len(r) \in Nat
  BY SequenceIs DEF RowsWithout, Entries
<1>2. Newest(r) \in 0..Len(r) /\ LoadItems(r) = Items(SubSeq(r, Newest(r) + 1, Len(r)))
  BY <1>1, NewestIs DEF LoadItems, Newest
<1>3. RowsWithout(SubSeq(r, Newest(r) + 1, Len(r)), B)
  BY <1>1, <1>2, RowsCut
<1> QED BY <1>2, <1>3, ItemsWithout

-----------------------------------------------------------------------------
(* What is stored in any record, refused or not.                           *)

\* A part of numbered entries is in order.
LEMMA OrderedCut ==
  ASSUME NEW r, Ordered(r), NEW m \in Nat \ {0}, NEW n \in 0..Len(r)
  PROVE  Ordered(SubSeq(r, m, n))
<1> DEFINE c == SubSeq(r, m, n)
<1>1. IsSequence(r) /\ Len(r) \in Nat /\ Entries(c)
  BY SequenceIs, EntriesCut DEF Ordered, Entries
<1>2. \A i \in DOMAIN c : m + i - 1 \in DOMAIN r /\ c[i] = r[m + i - 1]
  BY <1>1, CutDomain
<1>3. \A i \in DOMAIN c : i \in Nat
  BY <1>1, SequenceIs DEF Entries
<1> HIDE DEF c
<1>4. \A i, j \in DOMAIN c : i < j => m + i - 1 < m + j - 1
  BY <1>3
<1>5. Ordered(c)
  BY <1>1, <1>2, <1>4 DEF Ordered
<1> QED BY <1>5 DEF c

\* The numbers of entries joined.
LEMMA SeqsJoined ==
  ASSUME NEW p, NEW q, IsSequence(p), IsSequence(q)
  PROVE  Seqs(p \o q) = Seqs(p) \cup Seqs(q)
<1> DEFINE r == p \o q
<1>1. /\ Len(p) \in Nat /\ DOMAIN p = 1..Len(p) /\ DOMAIN q = 1..Len(q)
      /\ DOMAIN r = 1..(Len(p) + Len(q)) /\ Len(q) \in Nat
      /\ \A i \in DOMAIN r : r[i] = IF i \in DOMAIN p THEN p[i] ELSE q[i - Len(p)]
      /\ \A i \in DOMAIN r : i \notin DOMAIN p => i - Len(p) \in DOMAIN q
  BY JoinedDomain
<1> HIDE DEF r
<1>2. Seqs(r) \subseteq Seqs(p) \cup Seqs(q)
  BY <1>1 DEF Seqs
<1>3. ASSUME NEW i \in DOMAIN p PROVE p[i].seq \in Seqs(r)
  <2>1. i \in DOMAIN r /\ r[i] = p[i]
    BY <1>1, <1>3
  <2> QED BY <2>1 DEF Seqs
<1>4. ASSUME NEW i \in DOMAIN q PROVE q[i].seq \in Seqs(r)
  <2>1. Len(p) + i \in DOMAIN r /\ Len(p) + i \notin DOMAIN p /\ (Len(p) + i) - Len(p) = i
    BY <1>1, <1>4
  <2>2. r[Len(p) + i] = q[i]
    BY <1>1, <2>1
  <2> QED BY <2>1, <2>2 DEF Seqs
<1>5. Seqs(r) = Seqs(p) \cup Seqs(q)
  BY <1>2, <1>3, <1>4 DEF Seqs
<1> QED BY <1>5 DEF r

\* In numbered entries those below a number come first.
LEMMA LowerPart ==
  ASSUME NEW r, Ordered(r), NEW n \in Nat
  PROVE  \E k \in 0..Len(r) : {i \in DOMAIN r : r[i].seq < n} = 1..k
<1> DEFINE B == {i \in DOMAIN r : r[i].seq < n}
           k == Max({0} \cup B)
<1>1. Len(r) \in Nat /\ DOMAIN r = 1..Len(r) /\ B \in SUBSET (1..Len(r))
  BY SequenceIs DEF Ordered, Entries
<1>2. \A i \in DOMAIN r : r[i].seq \in Nat
  BY DEF Ordered
<1>3. k \in {0} \cup B /\ \A b \in B : b <= k
  <2> HIDE DEF B
  <2> QED BY <1>1, LastOne
<1> HIDE DEF k
<1>4. k \in 0..Len(r)
  BY <1>1, <1>3
<1>5. ASSUME NEW i \in 1..k PROVE i \in B
  <2>1. k \in B /\ i \in DOMAIN r
    BY <1>1, <1>3, <1>5
  <2>2. i < k \/ i = k
    BY <1>1, <2>1
  <2>3. i < k => r[i].seq < r[k].seq
    BY <2>1 DEF Ordered
  <2> QED BY <1>2, <2>1, <2>2, <2>3
<1>6. \A i \in B : i \in 1..k
  BY <1>1, <1>3, <1>4
<1> QED BY <1>4, <1>5, <1>6

\* A row with a free number is put where its number says, in any record: the
\* entries stay in order, and no text comes in but its own.
LEMMA InsertedIs ==
  ASSUME NEW r, Ordered(r), NEW e, e.seq \in Nat, e.seq \notin Seqs(r), IsSequence(e.items)
  PROVE  /\ Ordered(Inserted(r, e))
         /\ Seqs(Inserted(r, e)) = Seqs(r) \cup {e.seq}
         /\ \A B : RowsWithout(r, B) /\ RowsWithout(<<e>>, B) => RowsWithout(Inserted(r, e), B)
<1>1. PICK k \in 0..Len(r) : {i \in DOMAIN r : r[i].seq < e.seq} = 1..k
  BY LowerPart
<1> DEFINE a == SubSeq(r, 1, k)
           b == SubSeq(r, k + 1, Len(r))
           one == <<e>>
<1>2. /\ IsSequence(r) /\ Len(r) \in Nat /\ DOMAIN r = 1..Len(r)
      /\ k + 1 \in Nat \ {0} /\ Len(r) \in 0..Len(r)
  BY SequenceIs DEF Ordered, Entries
<1>3. Cardinality(1..k) = k
  <2>1. Cardinality(1..k) = IF 1 <= k THEN k - 1 + 1 ELSE 0
    BY <1>2, FS_Interval
  <2> QED BY <1>2, <2>1
<1>4. Inserted(r, e) = (a \o one) \o b
  <2>1. Inserted(r, e) = SubSeq(r, 1, (k + 1) - 1) \o <<e>> \o SubSeq(r, k + 1, Len(r))
    BY <1>1, <1>3 DEF Inserted, InsertAt
  <2>2. (k + 1) - 1 = k
    BY <1>2
  <2> QED BY <2>1, <2>2
<1>5. Ordered(a) /\ Ordered(b) /\ a \o b = r
  <2>1. Ordered(a)
    <3>1. 1 \in Nat \ {0} /\ k \in 0..Len(r)
      OBVIOUS
    <3> QED BY <3>1, OrderedCut
  <2>2. Ordered(b)
    BY <1>2, OrderedCut
  <2>3. a \o b = r
    BY <1>2, TwoParts
  <2> HIDE DEF a, b
  <2> QED BY <2>1, <2>2, <2>3
<1>6. DOMAIN one = 1..1 /\ one[1] = e /\ IsSequence(one) /\ Ordered(one)
  <2>1. Spans(one, e.seq, e.seq + 1)
    BY OneSpans
  <2>2. Len(one) = 1 /\ one[1] = e /\ IsSequence(one)
    BY Single
  <2> HIDE DEF one
  <2>3. Ordered(one)
    BY <2>1 DEF Spans
  <2> QED BY <2>2, <2>3, SequenceIs
<1>7. \A i \in DOMAIN a : a[i].seq < e.seq
  <2>1. \A i \in DOMAIN a : i \in 1..k /\ a[i] = r[i]
    <3>1. IsSequence(a) /\ Len(a) = IF 1 <= k THEN k - 1 + 1 ELSE 0
      BY <1>2, Cut
    <3>2. DOMAIN a = 1..k
      BY <3>1, <1>2, SequenceIs
    <3>3. \A i \in DOMAIN a : a[i] = r[1 + i - 1]
      BY <1>2, CutDomain
    <3> HIDE DEF a
    <3>4. \A i \in 1..k : 1 + i - 1 = i
      OBVIOUS
    <3> QED BY <3>2, <3>3, <3>4
  <2> HIDE DEF a
  <2> QED BY <1>1, <2>1
<1>8. \A i \in DOMAIN b : e.seq < b[i].seq
  <2>1. \A i \in DOMAIN b : i \in Nat \ {0} /\ (k + 1) + i - 1 \in DOMAIN r /\ b[i] = r[(k + 1) + i - 1]
    <3>1. IsSequence(b) /\ k + 1 \in Nat \ {0}
      BY <1>2, CutDomain
    <3>2. \A i \in DOMAIN b : (k + 1) + i - 1 \in DOMAIN r /\ b[i] = r[(k + 1) + i - 1]
      BY <1>2, <3>1, CutDomain
    <3> HIDE DEF b
    <3>3. DOMAIN b = 1..Len(b) /\ Len(b) \in Nat
      BY <3>1, SequenceIs
    <3> QED BY <3>2, <3>3
  <2> HIDE DEF b
  <2>2. ASSUME NEW i \in DOMAIN b PROVE e.seq < b[i].seq
    <3> DEFINE j == (k + 1) + i - 1
    <3>1. j \in DOMAIN r /\ j \notin 1..k /\ b[i] = r[j]
      BY <1>2, <2>1
    <3> HIDE DEF j
    <3>2. r[j].seq \in Nat /\ r[j].seq # e.seq
      BY <3>1 DEF Ordered, Seqs
    <3>3. ~ (r[j].seq < e.seq)
      BY <1>1, <3>1
    <3> QED BY <3>1, <3>2, <3>3
  <2> QED BY <2>2
<1> HIDE DEF a, b, one
<1>9. IsSequence(a) /\ IsSequence(b)
  BY <1>5 DEF Ordered, Entries
<1>10. Ordered(a \o one)
  <2>1. Before(a, one)
    BY <1>6, <1>7 DEF Before
  <2> QED BY <1>5, <1>6, <2>1, OrderedJoined
<1>11. Ordered((a \o one) \o b)
  <2>1. /\ \A i \in DOMAIN (a \o one) :
             (a \o one)[i] = IF i \in DOMAIN a THEN a[i] ELSE one[i - Len(a)]
        /\ \A i \in DOMAIN (a \o one) : i \notin DOMAIN a => i - Len(a) \in DOMAIN one
    BY <1>6, <1>9, JoinedDomain
  <2>2. \A i \in DOMAIN (a \o one) : (a \o one)[i].seq <= e.seq /\ (a \o one)[i].seq \in Nat
    <3>1. \A i \in DOMAIN (a \o one) : (a \o one)[i].seq \in Nat
      BY <1>10 DEF Ordered
    <3> QED BY <1>6, <1>7, <2>1, <3>1
  <2>3. \A i \in DOMAIN b : b[i].seq \in Nat
    BY <1>5 DEF Ordered
  <2>4. Before(a \o one, b)
    BY <1>8, <2>2, <2>3 DEF Before
  <2> QED BY <1>5, <1>10, <2>4, OrderedJoined
<1>12. Seqs((a \o one) \o b) = Seqs(r) \cup {e.seq}
  <2>1. Seqs((a \o one) \o b) = (Seqs(a) \cup Seqs(one)) \cup Seqs(b)
    BY <1>6, <1>9, JoinedIs, SeqsJoined
  <2>2. Seqs(r) = Seqs(a) \cup Seqs(b)
    BY <1>5, <1>9, SeqsJoined
  <2>3. Seqs(one) = {e.seq}
    BY <1>6 DEF Seqs
  <2> QED BY <2>1, <2>2, <2>3
<1>13. ASSUME NEW B, RowsWithout(r, B), RowsWithout(<<e>>, B)
       PROVE  RowsWithout((a \o one) \o b, B)
  <2>1. RowsWithout(a, B) /\ RowsWithout(b, B) /\ RowsWithout(one, B)
    BY <1>2, <1>13, RowsCut DEF a, b, one
  <2> QED BY <2>1, RowsJoined
<1> QED BY <1>4, <1>11, <1>12, <1>13

\* A set of numbers up to n + 1 that has n + 1 has a least member.
LEMMA FirstOne ==
  ASSUME NEW n \in Nat, NEW B \in SUBSET (1..n)
  PROVE  /\ Min(B \cup {n + 1}) \in B \cup {n + 1}
         /\ \A b \in B : Min(B \cup {n + 1}) <= b
<1> DEFINE M == B \cup {n + 1}
           R == OpToRel(<, Nat)
<1>1. M \subseteq Nat /\ M # {}
  OBVIOUS
<1>2. IsWellFoundedOn(R, Nat)
  BY NatLessThanWellFounded
<1>3. \E x \in M : \A y \in M : ~ (<<y, x>> \in R)
  <2> HIDE DEF R, M
  <2> QED BY <1>1, <1>2, WFMin
<1>4. PICK x \in M : \A y \in M : ~ (<<y, x>> \in R)
  BY <1>3
<1>5. ASSUME NEW y \in M PROVE x <= y
  <2>1. x \in Nat /\ y \in Nat /\ ~ (<<y, x>> \in R)
    BY <1>1, <1>4
  <2> HIDE DEF M
  <2>2. y < x => <<y, x>> \in R
    BY <2>1 DEF OpToRel
  <2> HIDE DEF R
  <2>3. ~ (y < x)
    BY <2>1, <2>2
  <2> QED BY <2>1, <2>3
<1> HIDE DEF M
<1>6. Min(M) \in M /\ \A y \in M : Min(M) <= y
  BY <1>5 DEF Min
<1> QED BY <1>6 DEF M

\* Rows are stored one after the other, as Appended does it: f is the record
\* after each of the first n.
Stores(f, r, q, n) == f = [i \in 0..n |-> IF i = 0 THEN r ELSE Inserted(f[i - 1], q[i])]

\* There is such a function for every length.
LEMMA StoringExists ==
  ASSUME NEW r, NEW q, NEW n \in Nat
  PROVE  \E f : Stores(f, r, q, n)
<1> DEFINE P(k) == \E f : Stores(f, r, q, k)
           S == {k \in Nat : P(k)}
<1>1. P(0)
  <2> DEFINE f == [i \in 0..0 |-> r]
  <2>1. Stores(f, r, q, 0)
    <3>1. \A i \in 0..0 : i = 0
      OBVIOUS
    <3>2. f = [i \in 0..0 |-> IF i = 0 THEN r ELSE Inserted(f[i - 1], q[i])]
      BY <3>1
    <3> QED BY <3>2 DEF Stores
  <2> HIDE DEF f
  <2> QED BY <2>1
<1>2. ASSUME NEW k \in Nat, P(k) PROVE P(k + 1)
  <2>1. PICK f : Stores(f, r, q, k)
    BY <1>2
  <2> DEFINE g == [i \in 0..(k + 1) |-> IF i = k + 1 THEN Inserted(f[i - 1], q[i]) ELSE f[i]]
             h == [i \in 0..(k + 1) |-> IF i = 0 THEN r ELSE Inserted(g[i - 1], q[i])]
  <2>2. ASSUME NEW i \in 0..(k + 1) PROVE g[i] = h[i]
    <3>1. CASE i = k + 1
      <4>1. i # 0 /\ i - 1 \in 0..(k + 1) /\ i - 1 # k + 1
        BY <3>1
      <4>2. g[i - 1] = f[i - 1]
        BY <4>1
      <4> QED BY <3>1, <4>1, <4>2
    <3>2. CASE i \in 0..k
      <4>1. f[i] = IF i = 0 THEN r ELSE Inserted(f[i - 1], q[i])
        BY <2>1, <3>2 DEF Stores
      <4>2. i # 0 => g[i - 1] = f[i - 1]
        BY <3>2
      <4>3. i # k + 1
        BY <3>2
      <4> QED BY <3>2, <4>1, <4>2, <4>3
    <3> QED BY <3>1, <3>2
  <2>3. g = h
    BY <2>2
  <2>4. Stores(g, r, q, k + 1)
    BY <2>3 DEF Stores
  <2> HIDE DEF g
  <2> QED BY <2>4
<1>3. Nat \subseteq S
  <2> HIDE DEF P
  <2>1. 0 \in S /\ \A k \in Nat : k \in S => k + 1 \in S
    BY <1>1, <1>2
  <2> HIDE DEF S
  <2> QED BY <2>1, Induction
<1> QED BY <1>3

\* Storing a batch in any record, be it refused on the way or not, leaves
\* numbered entries and brings no text in but those of the batch.
LEMMA AppendedIs ==
  ASSUME NEW r, NEW q, Ordered(r), Ordered(q)
  PROVE  /\ Ordered(Appended(r, q))
         /\ \A B : RowsWithout(r, B) /\ RowsWithout(q, B) => RowsWithout(Appended(r, q), B)
<1> DEFINE L == Len(q)
           stored == CHOOSE f : Stores(f, r, q, L)
           taken == {i \in DOMAIN q : q[i].seq \in Seqs(r)}
           end == Min(taken \cup {L + 1}) - 1
<1>0. IsSequence(r) /\ IsSequence(q) /\ L \in Nat /\ DOMAIN q = 1..L
  BY SequenceIs DEF Ordered, Entries
<1>1. end \in 0..L /\ \A i \in 1..end : i \in DOMAIN q /\ q[i].seq \notin Seqs(r)
  <2>1. taken \in SUBSET (1..L)
    BY <1>0
  <2> DEFINE m == Min(taken \cup {L + 1})
  <2> HIDE DEF L, taken
  <2>2. m \in taken \cup {L + 1} /\ \A i \in taken : m <= i
    BY <1>0, <2>1, FirstOne
  <2>a. end = m - 1
    OBVIOUS
  <2> HIDE DEF m, end
  <2>3. end \in 0..L
    BY <1>0, <2>1, <2>2, <2>a
  <2>4. \A i \in 1..end : i \notin taken
    BY <1>0, <2>1, <2>2, <2>3, <2>a
  <2>5. \A i \in 1..end : i \in 1..L
    BY <1>0, <2>3
  <2> QED BY <1>0, <2>3, <2>4, <2>5 DEF taken, L
<1>2. Stores(stored, r, q, L)
  <2>1. \E f : Stores(f, r, q, L)
    <3> HIDE DEF L
    <3> QED BY <1>0, StoringExists
  <2> QED BY <2>1
<1>3. Appended(r, q) = stored[end]
  BY DEF Appended, Stores
<1> DEFINE P(k) == k <= end =>
              /\ Ordered(stored[k])
              /\ Seqs(stored[k]) = Seqs(r) \cup {q[i].seq : i \in 1..k}
              /\ \A B : RowsWithout(r, B) /\ RowsWithout(q, B) => RowsWithout(stored[k], B)
           S == {k \in Nat : P(k)}
<1> HIDE DEF stored, end
<1>4. P(0)
  <2>1. stored[0] = r
    BY <1>0, <1>2 DEF Stores
  <2>2. {q[i].seq : i \in 1..0} = {}
    OBVIOUS
  <2> QED BY <2>1, <2>2
<1>5. ASSUME NEW k \in Nat, P(k) PROVE P(k + 1)
  <2> SUFFICES ASSUME k + 1 <= end
               PROVE  /\ Ordered(stored[k + 1])
                      /\ Seqs(stored[k + 1]) = Seqs(r) \cup {q[i].seq : i \in 1..(k + 1)}
                      /\ \A B : RowsWithout(r, B) /\ RowsWithout(q, B)
                                => RowsWithout(stored[k + 1], B)
    OBVIOUS
  <2> DEFINE s == stored[k]
             e == q[k + 1]
  <2>1. /\ k + 1 \in 0..L /\ k + 1 # 0 /\ (k + 1) - 1 = k /\ k <= end
        /\ k + 1 \in 1..end /\ k + 1 \in DOMAIN q
    BY <1>0, <1>1
  <2>2. stored[k + 1] = Inserted(s, e)
    <3>1. stored[k + 1] = Inserted(stored[(k + 1) - 1], q[k + 1])
      BY <1>2, <2>1 DEF Stores
    <3> QED BY <2>1, <3>1
  <2>3. /\ Ordered(s)
        /\ Seqs(s) = Seqs(r) \cup {q[i].seq : i \in 1..k}
        /\ \A B : RowsWithout(r, B) /\ RowsWithout(q, B) => RowsWithout(s, B)
    BY <1>5, <2>1
  <2>4. e.seq \in Nat /\ IsSequence(e.items) /\ e.seq \notin Seqs(r)
    BY <1>1, <2>1 DEF Ordered, Entries
  <2>5. ASSUME NEW i \in 1..k PROVE q[i].seq # e.seq
    <3>1. i \in DOMAIN q /\ i < k + 1 /\ q[i].seq \in Nat
      BY <1>0, <1>1, <2>1 DEF Ordered
    <3> QED BY <2>1, <2>4, <3>1 DEF Ordered
  <2>6. ASSUME NEW B, RowsWithout(q, B) PROVE RowsWithout(<<e>>, B)
    BY <2>1, <2>6, RowsOne DEF RowsWithout
  <2>7. {q[i].seq : i \in 1..(k + 1)} = {q[i].seq : i \in 1..k} \cup {e.seq}
    BY <2>1
  <2> HIDE DEF s, e
  <2>8. e.seq \notin Seqs(s)
    BY <2>3, <2>4, <2>5
  <2>9. /\ Ordered(Inserted(s, e))
        /\ Seqs(Inserted(s, e)) = Seqs(s) \cup {e.seq}
        /\ \A B : RowsWithout(s, B) /\ RowsWithout(<<e>>, B) => RowsWithout(Inserted(s, e), B)
    BY <2>3, <2>4, <2>8, InsertedIs
  <2>10. Seqs(Inserted(s, e)) = Seqs(r) \cup {q[i].seq : i \in 1..(k + 1)}
    BY <2>3, <2>7, <2>9
  <2>11. ASSUME NEW B, RowsWithout(r, B), RowsWithout(q, B) PROVE RowsWithout(Inserted(s, e), B)
    BY <2>3, <2>6, <2>9, <2>11
  <2> QED BY <2>2, <2>9, <2>10, <2>11
<1>6. Nat \subseteq S
  <2> HIDE DEF P
  <2>1. 0 \in S /\ \A k \in Nat : k \in S => k + 1 \in S
    BY <1>4, <1>5
  <2> HIDE DEF S
  <2> QED BY <2>1, Induction
<1>7. P(end)
  <2>1. end \in Nat
    BY <1>0, <1>1
  <2> HIDE DEF P
  <2> QED BY <1>6, <2>1
<1>8. end <= end
  BY <1>0, <1>1
<1> HIDE DEF Ordered
<1> QED BY <1>3, <1>7, <1>8

-----------------------------------------------------------------------------
(* Texts that a run does not get.                                          *)

\* Messages that go on with those of another sequence.
LEMMA JoinWithout ==
  ASSUME NEW B, NEW p, Without(p, B), NEW messages, Without(messages, B), NEW n \in 0..Len(messages)
  PROVE  Without(p \o SubSeq(messages, n + 1, Len(messages)), B)
<1>1. Len(messages) \in Nat
  BY SequenceIs DEF Without
<1>2. n + 1 \in Nat \ {0} /\ Len(messages) \in 0..Len(messages)
  BY <1>1
<1>3. Without(SubSeq(messages, n + 1, Len(messages)), B)
  BY <1>2, WithoutCut
<1> QED BY <1>3, WithoutJoined

\* A run has no text that neither the record nor the messages have, however
\* its seed joins the record.
LEMMA PlansWithout ==
  ASSUME NEW rec, NEW B, RowsWithout(rec, B), NEW messages, Without(messages, B)
  PROVE  /\ Without(PlanSeeding(rec, messages).items, B)
         /\ RowsWithout(PlanSeeding(rec, messages).boundary, B)
<1> DEFINE items == LoadItems(rec)
           prior == Bares(items)
           Join(n) == Seeding(prior \o SubSeq(messages, n + 1, Len(messages)),
                              NextSeq(rec), Len(prior), <<>>)
           plan == PlanSeeding(rec, messages)
<1>0. Without(items, B) /\ Without(prior, B) /\ IsSequence(prior) /\ Len(prior) \in Nat
  <2>1. Without(items, B)
    BY LoadedWithout
  <2> HIDE DEF items
  <2>2. Without(prior, B)
    BY <2>1, WithoutBares
  <2> QED BY <2>1, <2>2, SequenceIs DEF Without
<1>1. Len(messages) \in Nat /\ IsSequence(messages)
  BY SequenceIs DEF Without
<1>2. \/ plan = Seeding(messages, 0, 0, <<>>)
      \/ IsPrefix(prior, messages) /\ plan = Join(Len(prior))
      \/ Extends(messages, HostView(items)) /\ plan = Join(Len(HostView(items)))
      \/ Extends(messages, LoopView(rec)) /\ plan = Join(Len(LoopView(rec)))
      \/ plan = StartsAnew(NextSeq(rec), messages)
  BY DEF PlanSeeding
<1>3. \A v : Extends(messages, v) => Len(v) \in 0..Len(messages)
  BY <1>1 DEF Extends
<1>4. IsPrefix(prior, messages) => Len(prior) \in 0..Len(messages)
  BY <1>0, <1>1 DEF IsPrefix
<1>5. ASSUME NEW n \in 0..Len(messages), plan = Join(n)
      PROVE  Without(plan.items, B) /\ RowsWithout(plan.boundary, B)
  <2> DEFINE joined == prior \o SubSeq(messages, n + 1, Len(messages))
  <2>1. plan = Seeding(joined, NextSeq(rec), Len(prior), <<>>)
    BY <1>5
  <2> HIDE DEF plan, prior, items
  <2>2. Without(joined, B)
    BY <1>0, JoinWithout
  <2> HIDE DEF joined
  <2>3. plan.items = joined /\ plan.boundary = <<>>
    BY <2>1 DEF Seeding
  <2> QED BY <2>2, <2>3, RowsNone
<1>6. ASSUME plan = Seeding(messages, 0, 0, <<>>)
      PROVE  Without(plan.items, B) /\ RowsWithout(plan.boundary, B)
  <2>1. plan.items = messages /\ plan.boundary = <<>>
    BY <1>6 DEF Seeding
  <2> HIDE DEF plan
  <2> QED BY <2>1, RowsNone
<1>7. ASSUME plan = StartsAnew(NextSeq(rec), messages)
      PROVE  Without(plan.items, B) /\ RowsWithout(plan.boundary, B)
  <2> DEFINE b == Boundary(NextSeq(rec), "host_revision", 0)
  <2>1. plan.items = messages /\ plan.boundary = <<b>>
    BY <1>7 DEF StartsAnew, Seeding
  <2>2. b.type = "boundary" /\ Without(b.items, B)
    BY WithoutNone DEF Boundary
  <2> HIDE DEF plan, b
  <2> QED BY <2>1, <2>2, RowsOne
<1> HIDE DEF plan, Join, prior, items
<1>8. ASSUME NEW v, Extends(messages, v), plan = Join(Len(v))
      PROVE  Without(plan.items, B) /\ RowsWithout(plan.boundary, B)
  BY <1>3, <1>5, <1>8
<1>9. ASSUME IsPrefix(prior, messages), plan = Join(Len(prior))
      PROVE  Without(plan.items, B) /\ RowsWithout(plan.boundary, B)
  BY <1>4, <1>5, <1>9
<1>10. Without(plan.items, B) /\ RowsWithout(plan.boundary, B)
  BY <1>2, <1>6, <1>7, <1>8, <1>9
<1> QED BY <1>10 DEF plan

\* A fork has no text that the record has not.
LEMMA ForkWithout ==
  ASSUME NEW rec, Ordered(rec), NEW B, RowsWithout(rec, B), NEW point \in DOMAIN rec
  PROVE  Ordered(Fork(rec, point)) /\ RowsWithout(Fork(rec, point), B)
<1> DEFINE upto == SubSeq(rec, 1, point)
           seed == SeedEntry(0, LoadItems(upto))
<1>1. 1 \in Nat \ {0} /\ point \in 0..Len(rec)
  BY SequenceIs DEF Ordered, Entries
<1>2. RowsWithout(upto, B)
  BY <1>1, RowsCut
<1>3. Without(LoadItems(upto), B)
  <2> HIDE DEF upto
  <2> QED BY <1>2, LoadedWithout
<1>4. seed.seq = 0 /\ seed.type = "seed" /\ IsSequence(seed.items) /\ Without(seed.items, B)
  BY <1>3 DEF SeedEntry, Without
<1>5. Fork(rec, point) = <<seed>>
  BY DEF Fork
<1> HIDE DEF seed
<1>6. Ordered(<<seed>>)
  BY <1>4, OneSpans DEF Spans
<1>7. RowsWithout(<<seed>>, B)
  BY <1>4, RowsOne
<1> QED BY <1>5, <1>6, <1>7

\* Nor has a rewrite one that what it restates has not.
LEMMA RewriteWithout ==
  ASSUME NEW B, NEW s, Without(s, B), NEW e, e.seq \in Nat, e.type = "boundary", e.items = <<>>
  PROVE  RowsWithout(Rewrite(e, s), B)
<1>1. RowsWithout(<<e>>, B)
  BY WithoutNone, RowsOne
<1>2. e.seq + 1 \in Nat
  OBVIOUS
<1>3. RowsWithout(Numbered(e.seq + 1, s), B)
  BY <1>2, RowsNumbered
<1> QED BY <1>1, <1>3, RowsJoined DEF Rewrite

-----------------------------------------------------------------------------
(* What a host can see.                                                    *)

\* The messages a host can see, as entries of one message or none.
Chosen(s) ==
  [i \in DOMAIN s |-> [items |-> IF HostVisible(s[i]) THEN <<s[i]>> ELSE <<>>]]

\* The view of a host is what such entries hold.
LEMMA ViewIsChosen ==
  ASSUME NEW s, IsSequence(s)
  PROVE  /\ Entries(Chosen(s)) /\ Len(Chosen(s)) = Len(s)
         /\ HostView(s) = Items(Chosen(s)) /\ IsSequence(HostView(s))
<1>1. Len(s) \in Nat /\ DOMAIN s = 1..Len(s)
  BY SequenceIs
<1>2. IsSequence(Chosen(s)) /\ Len(Chosen(s)) = Len(s) /\ DOMAIN Chosen(s) = 1..Len(s)
  BY <1>1, IsASequence DEF Chosen
<1>3. \A i \in DOMAIN Chosen(s) : IsSequence(Chosen(s)[i].items)
  BY <1>1, SingleIs, None DEF Chosen
<1>4. HostView(s) = Items(Chosen(s))
  BY DEF HostView, Items, Chosen
<1> QED BY <1>2, <1>3, <1>4, ItemsAreASequence DEF Entries

\* A host sees of two sequences joined what it sees of each.
LEMMA ViewJoined ==
  ASSUME NEW s, NEW t, IsSequence(s), IsSequence(t)
  PROVE  HostView(s \o t) = HostView(s) \o HostView(t)
<1> DEFINE c == Chosen(s \o t)
           d == Chosen(s) \o Chosen(t)
<1>1. /\ Len(s) \in Nat /\ Len(t) \in Nat /\ DOMAIN s = 1..Len(s) /\ DOMAIN t = 1..Len(t)
      /\ IsSequence(s \o t) /\ Len(s \o t) = Len(s) + Len(t)
      /\ DOMAIN (s \o t) = 1..(Len(s) + Len(t))
  BY SequenceIs, Joined
<1>2. IsSequence(c) /\ Len(c) = Len(s) + Len(t)
  BY <1>1, ViewIsChosen DEF Entries
<1>3. /\ IsSequence(Chosen(s)) /\ Len(Chosen(s)) = Len(s)
      /\ IsSequence(Chosen(t)) /\ Len(Chosen(t)) = Len(t)
  BY ViewIsChosen DEF Entries
<1>4. IsSequence(d) /\ Len(d) = Len(s) + Len(t)
  BY <1>3, Joined
<1>5. ASSUME NEW i \in 1..Len(c) PROVE c[i] = d[i]
  <2>1. CASE i \in 1..Len(s)
    <3>1. c[i] = Chosen(s)[i]
      BY <1>1, <2>1, Joined DEF Chosen
    <3>2. d[i] = Chosen(s)[i]
      BY <1>3, <2>1, Joined
    <3> QED BY <3>1, <3>2
  <2>2. CASE i \notin 1..Len(s)
    <3>1. PICK j \in 1..Len(t) : i = Len(s) + j
      <4>1. i - Len(s) \in 1..Len(t) /\ i = Len(s) + (i - Len(s))
        BY <1>1, <1>2, <2>2
      <4> QED BY <4>1
    <3>2. (s \o t)[i] = t[j] /\ i \in DOMAIN (s \o t)
      BY <1>1, <3>1, Joined
    <3>3. c[i] = Chosen(t)[j]
      BY <1>1, <3>2 DEF Chosen
    <3>4. d[i] = Chosen(t)[j]
      BY <1>3, <3>1, Joined
    <3> QED BY <3>3, <3>4
  <2> QED BY <2>1, <2>2
<1>6. c = d
  <2> HIDE DEF c, d
  <2> QED BY <1>2, <1>4, <1>5, SameSequence
<1>7. Items(Chosen(s) \o Chosen(t)) = Items(Chosen(s)) \o Items(Chosen(t))
  BY ViewIsChosen, ItemsJoined
<1>8. HostView(s \o t) = Items(c) /\ HostView(s) = Items(Chosen(s)) /\ HostView(t) = Items(Chosen(t))
  BY <1>1, ViewIsChosen
<1> QED BY <1>6, <1>7, <1>8

\* Messages that a host can see are all in its view.
LEMMA ViewWhole ==
  ASSUME NEW s, IsSequence(s), \A i \in DOMAIN s : HostVisible(s[i])
  PROVE  HostView(s) = s
<1> DEFINE q == Numbered(0, s)
<1>1. Items(q) = s /\ DOMAIN q = DOMAIN s /\ \A i \in DOMAIN s : q[i].items = <<s[i]>>
  <2>1. \A i \in DOMAIN s : q[i].items = <<s[i]>>
    BY DEF Numbered, ItemEntry
  <2>2. Items(q) = s
    BY ItemsNumbered
  <2>3. DOMAIN q = DOMAIN s
    BY DEF Numbered
  <2> QED BY <2>1, <2>2, <2>3
<1>2. [i \in DOMAIN s |-> IF HostVisible(s[i]) THEN <<s[i]>> ELSE <<>>] = [i \in DOMAIN q |-> q[i].items]
  BY <1>1
<1> QED BY <1>1, <1>2 DEF HostView, Items

\* One message.
LEMMA ViewOne ==
  ASSUME NEW x
  PROVE  HostView(<<x>>) = IF HostVisible(x) THEN <<x>> ELSE <<>>
<1> DEFINE e == [items |-> IF HostVisible(x) THEN <<x>> ELSE <<>>]
<1>1. IsSequence(<<x>>) /\ Len(<<x>>) = 1 /\ <<x>>[1] = x /\ DOMAIN <<x>> = 1..1
  BY Single, SequenceIs
<1>2. Chosen(<<x>>) = <<e>>
  <2>1. IsSequence(<<e>>) /\ Len(<<e>>) = 1 /\ <<e>>[1] = e
    BY Single
  <2>2. IsSequence(Chosen(<<x>>)) /\ Len(Chosen(<<x>>)) = 1
    BY <1>1, ViewIsChosen DEF Entries
  <2>3. Chosen(<<x>>)[1] = e
    BY <1>1 DEF Chosen
  <2> HIDE DEF e
  <2> QED BY <2>1, <2>2, <2>3, SameSequence
<1>3. Items(<<e>>) = e.items
  BY ItemsOfOne
<1> QED BY <1>1, <1>2, <1>3, ViewIsChosen

-----------------------------------------------------------------------------
(* The view that looks through the loop's own compactions.                 *)

\* f is what FoldLeft computes on the sets of positions in r up to n.
Folds(f, r, n) ==
  f = [s \in SUBSET (1..n) |->
         IF s = {} THEN [skip |-> 0, items |-> <<>>]
         ELSE SeeThrough(f[s \ {Max(s)}], r[Max(s)])]

\* The greatest position of a set that has the last one.
LEMMA GreatestIs ==
  ASSUME NEW n \in Nat, NEW s \in SUBSET (1..(n + 1)), n + 1 \in s
  PROVE  Max(s) = n + 1
<1>1. \A y \in s : n + 1 >= y
  OBVIOUS
<1>2. \A x \in s : (\A y \in s : x >= y) => x = n + 1
  <2> SUFFICES ASSUME NEW x \in s, \A y \in s : x >= y PROVE x = n + 1
    OBVIOUS
  <2>1. x >= n + 1 /\ x \in 1..(n + 1)
    OBVIOUS
  <2> QED BY <2>1
<1> DEFINE x == CHOOSE x \in s : \A y \in s : x >= y
<1>3. x \in s /\ \A y \in s : x >= y
  BY <1>1
<1>4. Max(s) = x
  BY DEF Max
<1> HIDE DEF x
<1> QED BY <1>2, <1>3, <1>4

\* There is such a function for every length.
LEMMA FoldingExists ==
  ASSUME NEW r, NEW n \in Nat
  PROVE  \E f : Folds(f, r, n)
<1> DEFINE P(k) == \E f : Folds(f, r, k)
           S == {k \in Nat : P(k)}
           base == [skip |-> 0, items |-> <<>>]
<1>1. P(0)
  <2>1. SUBSET (1..0) = {{}}
    OBVIOUS
  <2>2. Folds([s \in SUBSET (1..0) |-> base], r, 0)
    BY <2>1 DEF Folds
  <2> QED BY <2>2
<1>2. ASSUME NEW k \in Nat, P(k) PROVE P(k + 1)
  <2>1. PICK f : Folds(f, r, k)
    BY <1>2
  <2> DEFINE g == [s \in SUBSET (1..(k + 1)) |->
                     IF k + 1 \in s THEN SeeThrough(f[s \ {k + 1}], r[k + 1]) ELSE f[s]]
             h == [s \in SUBSET (1..(k + 1)) |->
                     IF s = {} THEN base ELSE SeeThrough(g[s \ {Max(s)}], r[Max(s)])]
  <2>2. ASSUME NEW s \in SUBSET (1..(k + 1)) PROVE g[s] = h[s]
    <3>1. CASE k + 1 \in s
      <4>1. Max(s) = k + 1 /\ s # {}
        BY <3>1, GreatestIs
      <4>2. s \ {k + 1} \in SUBSET (1..k) /\ s \ {k + 1} \in SUBSET (1..(k + 1))
        OBVIOUS
      <4>3. g[s \ {k + 1}] = f[s \ {k + 1}]
        BY <4>2
      <4> QED BY <3>1, <4>1, <4>3
    <3>2. CASE k + 1 \notin s
      <4>1. s \in SUBSET (1..k)
        BY <3>2
      <4>2. g[s] = f[s]
        BY <3>2
      <4>3. f[s] = IF s = {} THEN base ELSE SeeThrough(f[s \ {Max(s)}], r[Max(s)])
        BY <2>1, <4>1 DEF Folds
      <4>4. /\ s \ {Max(s)} \in SUBSET (1..(k + 1)) /\ k + 1 \notin s \ {Max(s)}
        BY <3>2
      <4>5. g[s \ {Max(s)}] = f[s \ {Max(s)}]
        BY <4>4
      <4> QED BY <4>2, <4>3, <4>5
    <3> QED BY <3>1, <3>2
  <2>3. g = h
    BY <2>2
  <2>4. Folds(g, r, k + 1)
    BY <2>3 DEF Folds
  <2> QED BY <2>4
<1>3. Nat \subseteq S
  <2>1. 0 \in S /\ \A k \in Nat : k \in S => k + 1 \in S
    BY <1>1, <1>2
  <2> HIDE DEF S
  <2> QED BY <2>1, Induction
<1> QED BY <1>3

\* Two of them agree on positions at which their sequences agree.
LEMMA SameFolding ==
  ASSUME NEW q, NEW r, NEW a \in Nat, NEW b \in Nat, NEW f, NEW g,
         Folds(f, q, a), Folds(g, r, b),
         NEW n \in Nat, n <= a, n <= b, \A i \in 1..n : q[i] = r[i]
  PROVE  f[1..n] = g[1..n]
<1> DEFINE P(k) == k <= n => f[1..k] = g[1..k]
           S == {k \in Nat : P(k)}
           base == [skip |-> 0, items |-> <<>>]
<1>1. P(0)
  <2>1. {} \in SUBSET (1..a) /\ {} \in SUBSET (1..b) /\ 1..0 = {}
    OBVIOUS
  <2>2. f[{}] = base /\ g[{}] = base
    BY <2>1 DEF Folds
  <2> QED BY <2>1, <2>2
<1>2. ASSUME NEW k \in Nat, P(k) PROVE P(k + 1)
  <2> SUFFICES ASSUME k + 1 <= n PROVE f[1..(k + 1)] = g[1..(k + 1)]
    OBVIOUS
  <2> DEFINE s == 1..(k + 1)
  <2>1. /\ s \in SUBSET (1..a) /\ s \in SUBSET (1..b) /\ s # {} /\ s \ {k + 1} = 1..k
        /\ k + 1 \in 1..n
    OBVIOUS
  <2>2. Max(s) = k + 1
    BY GreatestIs
  <2> HIDE DEF s
  <2>3. f[s] = SeeThrough(f[s \ {Max(s)}], q[Max(s)]) /\ g[s] = SeeThrough(g[s \ {Max(s)}], r[Max(s)])
    BY <2>1 DEF Folds
  <2>4. f[1..k] = g[1..k] /\ q[k + 1] = r[k + 1]
    BY <1>2, <2>1
  <2> QED BY <2>1, <2>2, <2>3, <2>4 DEF s
<1>3. Nat \subseteq S
  <2> HIDE DEF P
  <2>1. 0 \in S /\ \A k \in Nat : k \in S => k + 1 \in S
    BY <1>1, <1>2
  <2> HIDE DEF S
  <2> QED BY <2>1, Induction
<1> QED BY <1>3

\* The state of the view after a record.
Folded(r) == FoldLeft(SeeThrough, [skip |-> 0, items |-> <<>>], r)

\* FoldLeft's value is that of such a function.
LEMMA FoldedIs ==
  ASSUME NEW r, IsSequence(r)
  PROVE  \E f : Folds(f, r, Len(r)) /\ Folded(r) = f[1..Len(r)]
<1> DEFINE f == CHOOSE f : Folds(f, r, Len(r))
<1>1. Len(r) \in Nat /\ DOMAIN r = 1..Len(r)
  BY SequenceIs
<1>2. Folds(f, r, Len(r))
  BY <1>1, FoldingExists
<1>3. Folded(r) = f[1..Len(r)]
  BY <1>1 DEF Folded, FoldLeft, MapThenFoldSet, Folds
<1> QED BY <1>2, <1>3

\* Before the first entry nothing is seen,
LEMMA FoldedNone == Folded(<<>>) = [skip |-> 0, items |-> <<>>]
<1>1. PICK f : Folds(f, <<>>, 0) /\ Folded(<<>>) = f[1..0]
  BY None, FoldedIs
<1>2. 1..0 = {} /\ {} \in SUBSET (1..0)
  OBVIOUS
<1> QED BY <1>1, <1>2 DEF Folds

\* and each entry is a step.
LEMMA FoldedMore ==
  ASSUME NEW r, IsSequence(r), NEW e
  PROVE  Folded(r \o <<e>>) = SeeThrough(Folded(r), e)
<1> DEFINE q == r \o <<e>>
           n == Len(r)
           s == 1..(n + 1)
<1>1. /\ n \in Nat /\ IsSequence(q) /\ Len(q) = n + 1 /\ q[n + 1] = e
      /\ \A i \in 1..n : q[i] = r[i]
  BY SequenceIs, Single, Joined
<1> HIDE DEF q
<1>2. PICK f : Folds(f, q, n + 1) /\ Folded(q) = f[s]
  BY <1>1, FoldedIs
<1>3. PICK g : Folds(g, r, n) /\ Folded(r) = g[1..n]
  BY FoldedIs
<1>4. f[1..n] = g[1..n]
  <2>1. n + 1 \in Nat /\ n <= n + 1
    BY <1>1
  <2> QED BY <1>1, <1>2, <1>3, <2>1, SameFolding
<1>5. Max(s) = n + 1 /\ s \ {n + 1} = 1..n /\ s \in SUBSET (1..(n + 1)) /\ s # {}
  BY <1>1, GreatestIs
<1>6. f[s] = SeeThrough(f[s \ {Max(s)}], q[Max(s)])
  <2> HIDE DEF s
  <2> QED BY <1>2, <1>5 DEF Folds
<1> QED BY <1>1, <1>2, <1>3, <1>4, <1>5, <1>6 DEF q

\* A message is added to what is seen when nothing is skipped.
LEMMA SeesItem ==
  ASSUME NEW w, NEW e, NEW x, e.type = "item", e.items = <<x>>
  PROVE  SeeThrough([skip |-> 0, items |-> w], e) = [skip |-> 0, items |-> w \o HostView(<<x>>)]
<1> DEFINE view == [skip |-> 0, items |-> w]
<1>1. view.skip = 0 /\ view.items = w /\ ~ (view.skip > 0)
  OBVIOUS
<1>2. ~ OwnCompaction(e) /\ e.type # "boundary" /\ e.type # "seed"
  BY DEF OwnCompaction
<1>3. SeeThrough(view, e) = [view EXCEPT !.items = @ \o HostView(e.items)]
  <2> HIDE DEF view
  <2> QED BY <1>1, <1>2 DEF SeeThrough
<1>4. [view EXCEPT !.items = @ \o HostView(e.items)] = [skip |-> 0, items |-> w \o HostView(<<x>>)]
  <2>1. \A y : [view EXCEPT !.items = y] = [skip |-> 0, items |-> y]
    OBVIOUS
  <2>2. view.items \o HostView(e.items) = w \o HostView(<<x>>)
    OBVIOUS
  <2> HIDE DEF view
  <2> QED BY <2>1, <2>2
<1> QED BY <1>3, <1>4

\* One entry more.
LEMMA OneMore ==
  ASSUME NEW r, NEW a, NEW e, IsSequence(r), IsSequence(a)
  PROVE  r \o (a \o <<e>>) = (r \o a) \o <<e>> /\ IsSequence(r \o a)
<1> DEFINE d == <<e>>
<1>1. IsSequence(d)
  BY SingleIs
<1> HIDE DEF d
<1>2. r \o (a \o d) = (r \o a) \o d /\ IsSequence(r \o a)
  BY <1>1, JoinedTwice, JoinedIs
<1> QED BY <1>2 DEF d

\* Views of two sequences behind another.
LEMMA ViewOneMore ==
  ASSUME NEW v, NEW b, NEW x, IsSequence(v), IsSequence(b), IsSequence(x)
  PROVE  (v \o HostView(b)) \o HostView(x) = v \o (HostView(b) \o HostView(x))
<1>1. IsSequence(HostView(b)) /\ IsSequence(HostView(x))
  BY ViewIsChosen
<1> QED BY <1>1, JoinedTwice

\* The view after messages that are stored when nothing is skipped.
LEMMA FoldedItems ==
  ASSUME NEW r, IsSequence(r), NEW v, IsSequence(v), Folded(r) = [skip |-> 0, items |-> v],
         NEW s, IsSequence(s), NEW n \in Nat
  PROVE  Folded(r \o Numbered(n, s)) = [skip |-> 0, items |-> v \o HostView(s)]
<1> DEFINE q == Numbered(n, s)
           P(k) == k <= Len(s) => Folded(r \o SubSeq(q, 1, k))
                                    = [skip |-> 0, items |-> v \o HostView(SubSeq(s, 1, k))]
           S == {k \in Nat : P(k)}
<1>0. /\ Len(s) \in Nat /\ IsSequence(q) /\ Len(q) = Len(s)
      /\ \A i \in 1..Len(s) : q[i] = ItemEntry(n + i - 1, s[i])
  BY SequenceIs, NumberedIs
<1> HIDE DEF q
<1>1. P(0)
  <2>1. SubSeq(q, 1, 0) = <<>> /\ SubSeq(s, 1, 0) = <<>>
    BY <1>0, WholePrefix
  <2>2. HostView(<<>>) = <<>>
    BY None, SequenceIs, ViewWhole
  <2>3. v \o <<>> = v /\ r \o <<>> = r
    BY JoinedToNone
  <2>4. Folded(r \o SubSeq(q, 1, 0)) = [skip |-> 0, items |-> v \o HostView(SubSeq(s, 1, 0))]
    BY <2>1, <2>2, <2>3
  <2> QED BY <2>4
<1>2. ASSUME NEW k \in Nat, P(k) PROVE P(k + 1)
  <2> SUFFICES ASSUME k + 1 <= Len(s)
               PROVE  Folded(r \o SubSeq(q, 1, k + 1))
                        = [skip |-> 0, items |-> v \o HostView(SubSeq(s, 1, k + 1))]
    OBVIOUS
  <2> DEFINE a == SubSeq(q, 1, k)
             b == SubSeq(s, 1, k)
             e == q[k + 1]
             x == s[k + 1]
  <2>1. SubSeq(q, 1, k + 1) = a \o <<e>> /\ SubSeq(s, 1, k + 1) = b \o <<x>>
    BY <1>0, NextPrefix
  <2>2. IsSequence(a) /\ IsSequence(b)
    <3>1. k \in 0..Len(q) /\ k \in 0..Len(s) /\ 1 \in Nat \ {0}
      BY <1>0
    <3> QED BY <1>0, <3>1, Cut
  <2>3. e.type = "item" /\ e.action = "none" /\ e.items = <<x>>
    <3>1. e = ItemEntry(n + (k + 1) - 1, x)
      BY <1>0
    <3> HIDE DEF e, x
    <3> QED BY <3>1 DEF ItemEntry
  <2>4. Folded(r \o a) = [skip |-> 0, items |-> v \o HostView(b)]
    BY <1>2
  <2> HIDE DEF a, b, e, x
  <2>5. r \o (a \o <<e>>) = (r \o a) \o <<e>> /\ IsSequence(r \o a)
    BY <2>2, SingleIs, OneMore
  <2>6. HostView(b \o <<x>>) = HostView(b) \o HostView(<<x>>)
    BY <2>2, SingleIs, ViewJoined
  <2>7. (v \o HostView(b)) \o HostView(<<x>>) = v \o (HostView(b) \o HostView(<<x>>))
    BY <2>2, SingleIs, ViewOneMore
  <2>8. SeeThrough([skip |-> 0, items |-> v \o HostView(b)], e)
          = [skip |-> 0, items |-> (v \o HostView(b)) \o HostView(<<x>>)]
    BY <2>3, SeesItem
  <2> QED BY <2>1, <2>4, <2>5, <2>6, <2>7, <2>8, FoldedMore
<1>3. Nat \subseteq S
  <2> HIDE DEF P
  <2>1. 0 \in S /\ \A k \in Nat : k \in S => k + 1 \in S
    BY <1>1, <1>2
  <2> HIDE DEF S
  <2> QED BY <2>1, Induction
<1>4. P(Len(s))
  BY <1>0, <1>3
<1>5. Len(s) <= Len(s) /\ SubSeq(q, 1, Len(s)) = q /\ SubSeq(s, 1, Len(s)) = s
  BY <1>0, WholePrefix
<1> QED BY <1>4, <1>5 DEF q

\* A rewrite of the loop's own leaves the view as it was: the messages that
\* restate the span are skipped.
LEMMA FoldedRewrite ==
  ASSUME NEW r, IsSequence(r), NEW v, Folded(r) = [skip |-> 0, items |-> v],
         NEW s, IsSequence(s), NEW e, e.seq \in Nat, OwnCompaction(e), e.count = Len(s)
  PROVE  Folded(r \o Rewrite(e, s)) = [skip |-> 0, items |-> v]
<1> DEFINE q == Numbered(e.seq + 1, s)
           p == r \o <<e>>
           P(k) == k <= Len(s) => Folded(p \o SubSeq(q, 1, k)) = [skip |-> Len(s) - k, items |-> v]
           S == {k \in Nat : P(k)}
<1>0. Len(s) \in Nat /\ IsSequence(q) /\ Len(q) = Len(s)
  <2>1. e.seq + 1 \in Nat
    OBVIOUS
  <2> QED BY <2>1, SequenceIs, NumberedIs
<1> HIDE DEF q
<1>a. IsSequence(p)
  BY SingleIs, JoinedIs
<1>b. Folded(p) = [skip |-> Len(s), items |-> v]
  <2>1. Folded(p) = SeeThrough([skip |-> 0, items |-> v], e)
    BY FoldedMore
  <2> QED BY <2>1, <1>0 DEF SeeThrough, OwnCompaction
<1> HIDE DEF p
<1>1. P(0)
  <2>1. SubSeq(q, 1, 0) = <<>>
    BY <1>0, WholePrefix
  <2>2. p \o <<>> = p
    BY <1>a, JoinedToNone
  <2>3. Len(s) - 0 = Len(s)
    BY <1>0
  <2>4. Folded(p \o SubSeq(q, 1, 0)) = [skip |-> Len(s) - 0, items |-> v]
    BY <1>b, <2>1, <2>2, <2>3
  <2> QED BY <2>4
<1>2. ASSUME NEW k \in Nat, P(k) PROVE P(k + 1)
  <2> SUFFICES ASSUME k + 1 <= Len(s)
               PROVE  Folded(p \o SubSeq(q, 1, k + 1)) = [skip |-> Len(s) - (k + 1), items |-> v]
    OBVIOUS
  <2> DEFINE a == SubSeq(q, 1, k)
             x == q[k + 1]
  <2>1. SubSeq(q, 1, k + 1) = a \o <<x>>
    BY <1>0, NextPrefix
  <2>2. IsSequence(a)
    <3>1. k \in 0..Len(q) /\ 1 \in Nat \ {0}
      BY <1>0
    <3> QED BY <1>0, <3>1, Cut
  <2>3. Folded(p \o a) = [skip |-> Len(s) - k, items |-> v]
    BY <1>0, <1>2
  <2> HIDE DEF a, x
  <2>4. p \o (a \o <<x>>) = (p \o a) \o <<x>> /\ IsSequence(p \o a)
    BY <1>a, <2>2, OneMore
  <2>5. SeeThrough([skip |-> Len(s) - k, items |-> v], x) = [skip |-> Len(s) - (k + 1), items |-> v]
    <3>1. Len(s) - k > 0 /\ (Len(s) - k) - 1 = Len(s) - (k + 1)
      BY <1>0
    <3> QED BY <3>1 DEF SeeThrough
  <2> QED BY <2>1, <2>3, <2>4, <2>5, FoldedMore
<1>3. Nat \subseteq S
  <2> HIDE DEF P
  <2>1. 0 \in S /\ \A k \in Nat : k \in S => k + 1 \in S
    BY <1>1, <1>2
  <2> HIDE DEF S
  <2> QED BY <2>1, Induction
<1>4. P(Len(s))
  BY <1>0, <1>3
<1>5. Len(s) <= Len(s) /\ SubSeq(q, 1, Len(s)) = q /\ Len(s) - Len(s) = 0
  BY <1>0, WholePrefix
<1>6. r \o Rewrite(e, s) = p \o q
  <2> DEFINE d == <<e>>
  <2>1. IsSequence(d)
    BY SingleIs
  <2>2. Rewrite(e, s) = d \o q
    BY DEF Rewrite, q
  <2>3. p = r \o d
    BY DEF p
  <2> HIDE DEF d, p
  <2>4. (r \o d) \o q = r \o (d \o q)
    BY <1>0, <2>1, JoinedTwice
  <2> QED BY <2>2, <2>3, <2>4
<1> QED BY <1>4, <1>5, <1>6

\* What comes before an element, and what comes after it.
LEMMA Around ==
  ASSUME NEW s, IsSequence(s), NEW i \in 1..Len(s)
  PROVE  /\ i - 1 \in 0..Len(s) /\ i + 1 \in Nat \ {0} /\ Len(s) \in 0..Len(s)
         /\ IsSequence(SubSeq(s, 1, i - 1)) /\ IsSequence(SubSeq(s, i + 1, Len(s)))
         /\ s = (SubSeq(s, 1, i - 1) \o <<s[i]>>) \o SubSeq(s, i + 1, Len(s))
<1>1. /\ Len(s) \in Nat /\ i - 1 \in 0..(Len(s) - 1) /\ i - 1 \in 0..Len(s) /\ i \in 0..Len(s)
      /\ (i - 1) + 1 = i /\ i + 1 \in Nat \ {0} /\ 1 \in Nat \ {0} /\ Len(s) \in 0..Len(s)
  BY SequenceIs
<1>2. IsSequence(SubSeq(s, 1, i - 1)) /\ IsSequence(SubSeq(s, i + 1, Len(s)))
  BY <1>1, Cut
<1>3. SubSeq(s, 1, i) = SubSeq(s, 1, i - 1) \o <<s[i]>>
  BY <1>1, NextPrefix
<1>4. SubSeq(s, 1, i) \o SubSeq(s, i + 1, Len(s)) = s
  BY <1>1, TwoParts
<1> QED BY <1>1, <1>2, <1>3, <1>4

\* What a sequence holds.
Holds(s, x) == \E i \in DOMAIN s : s[i] = x

\* What two sequences joined hold.
LEMMA HoldsJoined ==
  ASSUME NEW s, NEW t, IsSequence(s), IsSequence(t), NEW x
  PROVE  Holds(s \o t, x) <=> Holds(s, x) \/ Holds(t, x)
<1>1. /\ Len(s) \in Nat /\ Len(t) \in Nat /\ DOMAIN s = 1..Len(s) /\ DOMAIN t = 1..Len(t)
      /\ DOMAIN (s \o t) = 1..(Len(s) + Len(t))
      /\ \A i \in DOMAIN (s \o t) : (s \o t)[i] = IF i \in DOMAIN s THEN s[i] ELSE t[i - Len(s)]
      /\ \A i \in DOMAIN (s \o t) : i \notin DOMAIN s => i - Len(s) \in DOMAIN t
  BY JoinedDomain
<1>2. ASSUME Holds(s \o t, x) PROVE Holds(s, x) \/ Holds(t, x)
  BY <1>1, <1>2 DEF Holds
<1>3. ASSUME Holds(s, x) PROVE Holds(s \o t, x)
  <2>1. PICK i \in DOMAIN s : s[i] = x
    BY <1>3 DEF Holds
  <2>2. i \in DOMAIN (s \o t) /\ (s \o t)[i] = x
    BY <1>1, <2>1
  <2> QED BY <2>2 DEF Holds
<1>4. ASSUME Holds(t, x) PROVE Holds(s \o t, x)
  <2>1. PICK i \in 1..Len(t) : t[i] = x
    BY <1>1, <1>4 DEF Holds
  <2>2. (s \o t)[Len(s) + i] = x
    BY <2>1, Joined
  <2>3. Len(s) + i \in DOMAIN (s \o t)
    BY <1>1, <2>1
  <2> QED BY <2>2, <2>3 DEF Holds
<1> QED BY <1>2, <1>3, <1>4

\* A message of an entry is one of the messages of the entries.
LEMMA ItemsHold ==
  ASSUME NEW p, Entries(p), NEW i \in DOMAIN p, NEW x, Holds(p[i].items, x)
  PROVE  Holds(Items(p), x)
<1> DEFINE a == SubSeq(p, 1, i - 1)
           b == SubSeq(p, i + 1, Len(p))
           e == p[i]
           d == <<e>>
<1>1. IsSequence(p) /\ DOMAIN p = 1..Len(p) /\ IsSequence(e.items)
  BY SequenceIs DEF Entries
<1>2. /\ i - 1 \in 0..Len(p) /\ i + 1 \in Nat \ {0} /\ Len(p) \in 0..Len(p)
      /\ IsSequence(a) /\ IsSequence(b) /\ p = (a \o d) \o b
  BY <1>1, Around
<1>3. Entries(a) /\ Entries(b)
  <2>1. 1 \in Nat \ {0}
    OBVIOUS
  <2> QED BY <1>2, <2>1, EntriesCut
<1>4. Entries(d)
  <2>1. IsSequence(d) /\ Len(d) = 1 /\ d[1] = e
    BY Single
  <2>2. DOMAIN d = 1..1
    BY <2>1, SequenceIs
  <2> HIDE DEF d, e
  <2> QED BY <1>1, <2>1, <2>2 DEF Entries
<1>5. Items(d) = e.items
  BY ItemsOfOne
<1> HIDE DEF a, b, d
<1>6. Items(p) = Items(a \o d) \o Items(b) /\ Items(a \o d) = Items(a) \o Items(d)
  BY <1>2, <1>3, <1>4, EntriesJoined, ItemsJoined
<1>7. IsSequence(Items(a)) /\ IsSequence(Items(b)) /\ IsSequence(Items(d)) /\ IsSequence(Items(a \o d))
  BY <1>3, <1>4, EntriesJoined, ItemsAreASequence
<1>8. Holds(Items(d), x)
  BY <1>5
<1>9. Holds(Items(a \o d), x)
  BY <1>6, <1>7, <1>8, HoldsJoined
<1> QED BY <1>6, <1>7, <1>9, HoldsJoined

\* A host sees every message that is visible to it.
LEMMA ViewHolds ==
  ASSUME NEW s, IsSequence(s), NEW x, Holds(s, x), HostVisible(x)
  PROVE  Holds(HostView(s), x)
<1>1. PICK i \in DOMAIN s : s[i] = x
  BY DEF Holds
<1>2. Entries(Chosen(s)) /\ HostView(s) = Items(Chosen(s))
  BY ViewIsChosen
<1>3. i \in DOMAIN Chosen(s) /\ Chosen(s)[i].items = <<x>>
  BY <1>1 DEF Chosen
<1>4. Holds(<<x>>, x)
  <2>1. 1 \in DOMAIN <<x>> /\ <<x>>[1] = x
    OBVIOUS
  <2> QED BY <2>1 DEF Holds
<1> QED BY <1>2, <1>3, <1>4, ItemsHold

\* The second are messages a host may send for the first.
Alike(s, r) ==
  /\ IsSequence(s) /\ IsSequence(r) /\ Len(s) = Len(r)
  /\ \A i \in 1..Len(s) : Agrees(s[i], r[i]) /\ (s[i].kind # "assistant" => r[i] = s[i])

\* The messages themselves are.
LEMMA AlikeSame == ASSUME NEW s, IsSequence(s) PROVE Alike(s, s)
BY DEF Alike, Agrees

\* Joined ones are.
LEMMA AlikeJoined ==
  ASSUME NEW s, NEW r, NEW t, NEW u, Alike(s, r), Alike(t, u)
  PROVE  Alike(s \o t, r \o u)
<1>1. /\ IsSequence(s) /\ IsSequence(r) /\ IsSequence(t) /\ IsSequence(u)
      /\ Len(s) = Len(r) /\ Len(t) = Len(u) /\ Len(s) \in Nat /\ Len(t) \in Nat
  BY SequenceIs DEF Alike
<1>2. /\ IsSequence(s \o t) /\ IsSequence(r \o u)
      /\ Len(s \o t) = Len(s) + Len(t) /\ Len(r \o u) = Len(s) + Len(t)
  BY <1>1, Joined
<1>3. ASSUME NEW i \in 1..Len(s \o t)
      PROVE  /\ Agrees((s \o t)[i], (r \o u)[i])
             /\ (s \o t)[i].kind # "assistant" => (r \o u)[i] = (s \o t)[i]
  <2>1. CASE i \in 1..Len(s)
    <3>1. (s \o t)[i] = s[i] /\ (r \o u)[i] = r[i]
      BY <1>1, <2>1, Joined
    <3> QED BY <2>1, <3>1 DEF Alike
  <2>2. CASE i \notin 1..Len(s)
    <3>1. i - Len(s) \in 1..Len(t) /\ i = Len(s) + (i - Len(s))
      BY <1>1, <1>2, <2>2
    <3>2. PICK j \in 1..Len(t) : i = Len(s) + j
      BY <3>1
    <3>3. (s \o t)[i] = t[j] /\ (r \o u)[i] = u[j]
      BY <1>1, <3>2, Joined
    <3> QED BY <3>3 DEF Alike
  <2> QED BY <2>1, <2>2
<1> QED BY <1>2, <1>3 DEF Alike

\* The messages of entries are if those of each entry are.
LEMMA AlikeItems ==
  ASSUME NEW p, NEW q, Entries(p), Entries(q), Len(p) = Len(q),
         \A i \in 1..Len(p) : Alike(p[i].items, q[i].items)
  PROVE  Alike(Items(p), Items(q))
<1> DEFINE P(k) == k <= Len(p) => Alike(Items(SubSeq(p, 1, k)), Items(SubSeq(q, 1, k)))
           S == {k \in Nat : P(k)}
<1>0. IsSequence(p) /\ IsSequence(q) /\ Len(p) \in Nat
  BY SequenceIs DEF Entries
<1>1. P(0)
  <2>1. SubSeq(p, 1, 0) = <<>> /\ SubSeq(q, 1, 0) = <<>>
    BY <1>0, WholePrefix
  <2>2. Alike(Items(<<>>), Items(<<>>))
    BY ItemsOfNone, None, AlikeSame
  <2> QED BY <2>1, <2>2
<1>2. ASSUME NEW k \in Nat, P(k) PROVE P(k + 1)
  <2> SUFFICES ASSUME k + 1 <= Len(p)
               PROVE  Alike(Items(SubSeq(p, 1, k + 1)), Items(SubSeq(q, 1, k + 1)))
    OBVIOUS
  <2> DEFINE a == SubSeq(p, 1, k)
             b == SubSeq(q, 1, k)
             d == p[k + 1]
             e == q[k + 1]
  <2>1. k \in 0..(Len(p) - 1) /\ k \in 0..Len(p) /\ 1 \in Nat \ {0} /\ k + 1 \in 1..Len(p)
    BY <1>0
  <2>2. SubSeq(p, 1, k + 1) = a \o <<d>> /\ SubSeq(q, 1, k + 1) = b \o <<e>>
    BY <1>0, <2>1, NextPrefix
  <2>3. Entries(a) /\ Entries(b)
    BY <2>1, EntriesCut
  <2>4. Alike(d.items, e.items)
    BY <2>1
  <2>5. Alike(Items(a), Items(b))
    BY <1>0, <1>2
  <2> HIDE DEF a, b, d, e
  <2>6. Items(a \o <<d>>) = Items(a) \o d.items /\ Items(b \o <<e>>) = Items(b) \o e.items
    BY <2>3, <2>4, ItemsAndOne DEF Alike
  <2>7. Alike(Items(a) \o d.items, Items(b) \o e.items)
    BY <2>4, <2>5, AlikeJoined
  <2> QED BY <2>2, <2>6, <2>7
<1>3. Nat \subseteq S
  <2> HIDE DEF P
  <2>1. 0 \in S /\ \A k \in Nat : k \in S => k + 1 \in S
    BY <1>1, <1>2
  <2> HIDE DEF S
  <2> QED BY <2>1, Induction
<1>4. P(Len(p))
  BY <1>0, <1>3
<1>5. Len(p) <= Len(p) /\ SubSeq(p, 1, Len(p)) = p /\ SubSeq(q, 1, Len(p)) = q
  BY <1>0, WholePrefix
<1> QED BY <1>4, <1>5

\* An empty record gives nothing back.
LEMMA LoadedNone == LoadItems(<<>>) = <<>>
<1>1. IsSequence(<<>>) /\ Len(<<>>) = 0
  BY None
<1>2. Newest(<<>>) = 0
  BY <1>1, NewestIs
<1>3. LoadItems(<<>>) = Items(SubSeq(<<>>, 0 + 1, 0))
  BY <1>1, <1>2 DEF LoadItems, Newest
<1>4. SubSeq(<<>>, 0 + 1, 0) = <<>>
  BY SubSeqEmpty
<1> QED BY <1>3, <1>4, ItemsOfNone

\* Nothing is left behind the whole.
LEMMA NothingLeft ==
  ASSUME NEW s, IsSequence(s)
  PROVE  SubSeq(s, Len(s) + 1, Len(s)) = <<>> /\ s \o SubSeq(s, Len(s) + 1, Len(s)) = s
<1> DEFINE c == SubSeq(s, Len(s) + 1, Len(s))
<1>1. Len(s) \in Nat /\ Len(s) + 1 \in Nat \ {0} /\ Len(s) \in 0..Len(s)
  BY SequenceIs
<1>2. IsSequence(c) /\ Len(c) = 0
  BY <1>1, Cut
<1> HIDE DEF c
<1>3. c = <<>>
  BY <1>2, None, SameSequence
<1>4. s \o c = s
  BY <1>3, JoinedToNone
<1> QED BY <1>3, <1>4 DEF c

\* The elements of a prefix.
LEMMA PrefixIs ==
  ASSUME NEW s, NEW t, IsSequence(s), IsSequence(t), IsPrefix(s, t)
  PROVE  Len(s) <= Len(t) /\ \A i \in 1..Len(s) : i \in 1..Len(t) /\ t[i] = s[i]
<1>1. Len(s) \in Nat /\ Len(t) \in Nat /\ Len(s) <= Len(t) /\ Len(s) \in 0..Len(t) /\ 1 \in Nat \ {0}
  BY SequenceIs DEF IsPrefix
<1>2. SubSeq(s, 1, Len(s)) = SubSeq(t, 1, Len(s)) /\ SubSeq(s, 1, Len(s)) = s
  BY WholePrefix DEF IsPrefix
<1>3. /\ Len(SubSeq(t, 1, Len(s))) = Len(s)
      /\ \A i \in 1..Len(SubSeq(t, 1, Len(s))) : SubSeq(t, 1, Len(s))[i] = t[1 + i - 1]
  BY <1>1, <1>2, Cut
<1>4. ASSUME NEW i \in 1..Len(s) PROVE i \in 1..Len(t) /\ t[i] = s[i]
  <2>1. 1 + i - 1 = i /\ i \in 1..Len(t)
    BY <1>1
  <2> QED BY <1>2, <1>3, <2>1
<1> QED BY <1>1, <1>4

\* What is given back of a record is not empty if the record's messages are not.
LEMMA PriorIs ==
  ASSUME NEW rec, Ordered(rec)
  PROVE  LET items == LoadItems(rec)
         IN  /\ IsSequence(items) /\ IsSequence(Bares(items)) /\ Len(Bares(items)) = Len(items)
             /\ Len(items) \in Nat /\ DOMAIN items = 1..Len(items)
             /\ \A i \in 1..Len(items) : Bares(items)[i] = Bare(items[i])
             /\ (Bares(items) = <<>> <=> items = <<>>)
<1> DEFINE items == LoadItems(rec)
<1>1. IsSequence(items)
  BY LoadedIs DEF Ordered
<1> HIDE DEF items
<1>2. /\ IsSequence(Bares(items)) /\ Len(Bares(items)) = Len(items)
      /\ Len(items) \in Nat /\ DOMAIN items = 1..Len(items)
      /\ \A i \in 1..Len(items) : Bares(items)[i] = Bare(items[i])
  BY <1>1, BaresOf, SequenceIs
<1>3. \A s : IsSequence(s) => (s = <<>> <=> Len(s) = 0)
  <2> SUFFICES ASSUME NEW s, IsSequence(s), Len(s) = 0 PROVE s = <<>>
    BY None
  <2> QED BY None, SameSequence
<1> QED BY <1>1, <1>2, <1>3 DEF items

\* A run that is given what the record holds starts from it, and nothing waits.
LEMMA PlanReplays ==
  ASSUME NEW rec, Ordered(rec), rec # <<>>, LoadItems(rec) # <<>>
  PROVE  LET prior == Bares(LoadItems(rec))
         IN  PlanSeeding(rec, prior) = Seeding(prior, NextSeq(rec), Len(prior), <<>>)
<1> DEFINE prior == Bares(LoadItems(rec))
<1>1. IsSequence(prior) /\ prior # <<>> /\ Len(prior) \in Nat
  BY PriorIs
<1>2. IsPrefix(prior, prior) /\ prior \o SubSeq(prior, Len(prior) + 1, Len(prior)) = prior
  BY <1>1, NothingLeft DEF IsPrefix
<1>3. PlanSeeding(rec, prior) = Seeding(prior \o SubSeq(prior, Len(prior) + 1, Len(prior)),
                                        NextSeq(rec), Len(prior), <<>>)
  BY <1>1, <1>2 DEF PlanSeeding
<1> QED BY <1>2, <1>3

\* A record that only the runs of its chat wrote and compacted, its view, and
\* the text of a message that stands for what was compacted.
RunsOwn(rec, v, text) ==
  /\ IsSequence(v) /\ Folded(rec) = [skip |-> 0, items |-> v]
  /\ \A i \in DOMAIN rec : rec[i].type = "item" \/ OwnCompaction(rec[i])
  /\ rec # <<>> => LoadItems(rec) # <<>>
  /\ NoBoundary(rec) => /\ v = HostView(LoadItems(rec))
                        /\ \A i \in DOMAIN LoadItems(rec) : LoadItems(rec)[i].kind # "steer"
  /\ ~ NoBoundary(rec) => Holds(LoadItems(rec), Item("user", text))

\* Messages of a host that extend the view of such a record join it: what is
\* in the view is kept as the record has it, what is not waits.
LEMMA PlanJoins ==
  ASSUME NEW rec, Ordered(rec), NEW v, NEW text, RunsOwn(rec, v, text),
         NEW messages, IsSequence(messages), Extends(messages, v),
         \A i \in 1..Len(messages) :
           HostVisible(messages[i]) /\ (messages[i].kind = "user" => messages[i].text # text)
  PROVE  LET prior == Bares(LoadItems(rec))
         IN  PlanSeeding(rec, messages)
               = Seeding(prior \o SubSeq(messages, Len(v) + 1, Len(messages)),
                         NextSeq(rec), Len(prior), <<>>)
<1> DEFINE items == LoadItems(rec)
           prior == Bares(items)
           Join(n) == Seeding(prior \o SubSeq(messages, n + 1, Len(messages)),
                              NextSeq(rec), Len(prior), <<>>)
           compacted == \E i \in DOMAIN rec : OwnCompaction(rec[i])
           summary == Item("user", text)
<1>0. /\ IsSequence(items) /\ IsSequence(prior) /\ Len(prior) = Len(items) /\ Len(items) \in Nat
      /\ DOMAIN items = 1..Len(items) /\ Len(v) \in Nat /\ IsSequence(v) /\ Len(messages) \in Nat
      /\ \A i \in 1..Len(items) : prior[i] = Bare(items[i])
      /\ (prior = <<>> <=> items = <<>>)
  BY PriorIs, SequenceIs DEF RunsOwn
<1>1. CASE rec = <<>>
  <2>1. v = <<>> /\ Len(v) = 0
    <3>1. Folded(<<>>) = [skip |-> 0, items |-> <<>>]
      BY FoldedNone
    <3>2. Folded(rec).items = <<>> /\ Folded(rec).items = v
      BY <1>1, <3>1 DEF RunsOwn
    <3> QED BY <3>2, None
  <2>2. prior = <<>> /\ Len(prior) = 0
    <3>1. LoadItems(<<>>) = <<>>
      BY LoadedNone
    <3> QED BY <1>0, <1>1, <3>1, None
  <2>3. SubSeq(messages, Len(v) + 1, Len(messages)) = messages
    BY <2>1, WholePrefix
  <2>4. prior \o messages = messages
    BY <2>2, JoinedToNone
  <2>5. NextSeq(rec) = 0 /\ PlanSeeding(rec, messages) = Seeding(messages, 0, 0, <<>>)
    BY <1>1 DEF NextSeq, PlanSeeding
  <2> QED BY <2>2, <2>3, <2>4, <2>5
<1>2. CASE rec # <<>>
  <2>0. prior # <<>>
    BY <1>0, <1>2 DEF RunsOwn
  <2>1. CASE NoBoundary(rec)
    <3>1. v = HostView(items) /\ \A i \in DOMAIN items : items[i].kind # "steer"
      BY <2>1 DEF RunsOwn
    <3>2. IsPrefix(prior, messages) => Len(prior) = Len(v)
      <4> SUFFICES ASSUME IsPrefix(prior, messages) PROVE Len(prior) = Len(v)
        OBVIOUS
      <4>1. ASSUME NEW i \in DOMAIN items PROVE HostVisible(items[i])
        <5>1. i \in 1..Len(messages) /\ messages[i] = Bare(items[i])
          BY <1>0, PrefixIs
        <5>2. HostVisible(Bare(items[i]))
          BY <5>1
        <5>3. Bare(items[i]).kind = items[i].kind
          BY <3>1 DEF Bare, Item
        <5> QED BY <5>2, <5>3 DEF HostVisible
      <4>2. HostView(items) = items
        BY <1>0, <4>1, ViewWhole
      <4> QED BY <1>0, <3>1, <4>2
    <3>3. CASE IsPrefix(prior, messages)
      <4>1. PlanSeeding(rec, messages) = Join(Len(prior))
        BY <1>2, <2>0, <3>3 DEF PlanSeeding
      <4> QED BY <3>2, <3>3, <4>1
    <3>4. CASE ~ IsPrefix(prior, messages)
      <4>1. Extends(messages, HostView(items))
        BY <3>1
      <4>2. PlanSeeding(rec, messages) = Join(Len(HostView(items)))
        BY <1>2, <2>0, <3>4, <4>1 DEF PlanSeeding
      <4> QED BY <3>1, <4>2
    <3> QED BY <3>3, <3>4
  <2>2. CASE ~ NoBoundary(rec)
    <3>1. Holds(items, summary) /\ HostVisible(summary) /\ Bare(summary) = summary
      BY <2>2 DEF RunsOwn, HostVisible, Bare, Item
    <3>2. summary.kind = "user" /\ summary.text = text
      BY DEF Item
    <3>3. ~ IsPrefix(prior, messages)
      <4> SUFFICES ASSUME IsPrefix(prior, messages) PROVE FALSE
        OBVIOUS
      <4>1. PICK i \in 1..Len(items) : items[i] = summary
        BY <1>0, <3>1 DEF Holds
      <4>2. i \in 1..Len(messages) /\ messages[i] = summary
        BY <1>0, <3>1, <4>1, PrefixIs
      <4> QED BY <3>2, <4>2
    <3>4. ~ Extends(messages, HostView(items))
      <4> SUFFICES ASSUME Extends(messages, HostView(items)) PROVE FALSE
        OBVIOUS
      <4>1. PICK i \in DOMAIN HostView(items) : HostView(items)[i] = summary
        BY <1>0, <3>1, ViewHolds DEF Holds
      <4>2. IsSequence(HostView(items)) /\ Len(HostView(items)) \in 0..(Len(messages) - 1)
        BY <1>0, ViewIsChosen DEF Extends
      <4>3. i \in 1..Len(messages)
        BY <1>0, <4>1, <4>2, SequenceIs
      <4>4. Agrees(summary, messages[i])
        BY <4>1 DEF Extends
      <4>5. messages[i].kind = "user" /\ messages[i].text = text
        BY <3>2, <4>4 DEF Agrees
      <4> QED BY <4>3, <4>5
    <3>5. compacted
      <4>1. PICK i \in DOMAIN rec : rec[i].type = "boundary"
        BY <2>2 DEF NoBoundary
      <4> QED BY <4>1 DEF RunsOwn
    <3>6. LoopView(rec) = v
      BY DEF LoopView, Folded, RunsOwn
    <3>7. PlanSeeding(rec, messages) = Join(Len(LoopView(rec)))
      BY <1>2, <2>0, <3>3, <3>4, <3>5, <3>6 DEF PlanSeeding
    <3> QED BY <3>6, <3>7
  <2> QED BY <2>1, <2>2
<1> QED BY <1>1, <1>2

\* Nothing else is led by a first message than what has one.
Led(items, x) == items # <<>> /\ items[1] = x

\* What is led stays so when something is put behind it.
LEMMA LedJoined ==
  ASSUME NEW s, NEW t, IsSequence(s), IsSequence(t), NEW x,
         Led(s, x) \/ (s = <<>> /\ Led(t, x))
  PROVE  Led(s \o t, x)
<1>1. CASE Led(s, x)
  <2>1. Len(s) \in Nat /\ Len(s) # 0
    <3>1. Len(s) = 0 => s = <<>>
      BY None, SameSequence
    <3> QED BY <1>1, <3>1, SequenceIs DEF Led
  <2>2. (s \o t)[1] = s[1] /\ Len(s \o t) = Len(s) + Len(t) /\ Len(t) \in Nat
    BY <2>1, Joined, SequenceIs
  <2>3. s \o t # <<>>
    BY <2>1, <2>2, None
  <2> QED BY <1>1, <2>2, <2>3 DEF Led
<1>2. CASE s = <<>> /\ Led(t, x)
  BY <1>2, JoinedToNone
<1> QED BY <1>1, <1>2

\* Entries before others.
LEMMA NoBoundaryBefore ==
  ASSUME NEW p, NEW q, IsSequence(p), IsSequence(q), NoBoundary(p \o q)
  PROVE  NoBoundary(p)
<1>1. /\ DOMAIN p = 1..Len(p) /\ Len(p) \in Nat /\ Len(q) \in Nat
      /\ DOMAIN (p \o q) = 1..(Len(p) + Len(q))
      /\ \A i \in DOMAIN (p \o q) : (p \o q)[i] = IF i \in DOMAIN p THEN p[i] ELSE q[i - Len(p)]
  BY JoinedDomain
<1> QED BY <1>1 DEF NoBoundary

\* What holds of all entries of two records holds of all when they are joined.
LEMMA OwnJoined ==
  ASSUME NEW p, NEW q, IsSequence(p), IsSequence(q),
         \A i \in DOMAIN p : p[i].type = "item" \/ OwnCompaction(p[i]),
         \A i \in DOMAIN q : q[i].type = "item" \/ OwnCompaction(q[i])
  PROVE  \A i \in DOMAIN (p \o q) : (p \o q)[i].type = "item" \/ OwnCompaction((p \o q)[i])
<1>1. /\ \A i \in DOMAIN (p \o q) : (p \o q)[i] = IF i \in DOMAIN p THEN p[i] ELSE q[i - Len(p)]
      /\ \A i \in DOMAIN (p \o q) : i \notin DOMAIN p => i - Len(p) \in DOMAIN q
  BY JoinedDomain
<1> QED BY <1>1

\* Rows of messages.
LEMMA NumberedOwn ==
  ASSUME NEW s, IsSequence(s), NEW n \in Nat
  PROVE  /\ Entries(Numbered(n, s)) /\ IsSequence(Numbered(n, s)) /\ NoBoundary(Numbered(n, s))
         /\ \A i \in DOMAIN Numbered(n, s) : /\ Numbered(n, s)[i].type = "item"
                                             /\ Numbered(n, s)[i].action = "none"
BY NumberedIs, NumberedSpans, ItemsNumbered DEF Numbered, ItemEntry, Entries

\* Messages stored behind such a record are in its view if the host sees them.
LEMMA OwnGrows ==
  ASSUME NEW rec, Ordered(rec), NEW v, NEW text, RunsOwn(rec, v, text),
         NEW s, IsSequence(s), NEW n \in Nat, \A i \in DOMAIN s : s[i].kind # "steer",
         NEW lead, rec # <<>> => Led(LoadItems(rec), lead),
         rec = <<>> => s = <<>> \/ Led(s, lead)
  PROVE  /\ RunsOwn(rec \o Numbered(n, s), v \o HostView(s), text)
         /\ LoadItems(rec \o Numbered(n, s)) = LoadItems(rec) \o s
         /\ rec \o Numbered(n, s) # <<>> => Led(LoadItems(rec \o Numbered(n, s)), lead)
<1> DEFINE q == Numbered(n, s)
           items == LoadItems(rec)
<1>1. /\ Entries(q) /\ IsSequence(q) /\ NoBoundary(q) /\ Items(q) = s
      /\ \A i \in DOMAIN q : q[i].type = "item"
  BY NumberedOwn, ItemsNumbered
<1>2. Entries(rec) /\ IsSequence(rec) /\ IsSequence(items) /\ IsSequence(v)
  BY LoadedIs DEF Ordered, Entries, RunsOwn
<1>3. Folded(rec \o q) = [skip |-> 0, items |-> v \o HostView(s)]
  BY <1>2, FoldedItems DEF RunsOwn
<1>4. q = <<>> <=> s = <<>>
  <2>1. Len(q) = Len(s)
    BY NumberedIs
  <2> QED BY <1>1, <2>1, None, SameSequence
<1> HIDE DEF q
<1>5. LoadItems(rec \o q) = items \o s
  BY <1>1, <1>2, LoadAfter
<1>6. rec \o q # <<>> => Led(LoadItems(rec \o q), lead)
  <2> SUFFICES ASSUME rec \o q # <<>> PROVE Led(items \o s, lead)
    BY <1>5
  <2>1. CASE rec # <<>>
    BY <1>2, <2>1, LedJoined
  <2>2. CASE rec = <<>>
    <3>1. items = <<>> /\ s # <<>>
      BY <1>1, <1>4, <2>2, LoadedNone, JoinedToNone
    <3> QED BY <1>2, <2>2, <3>1, LedJoined
  <2> QED BY <2>1, <2>2
<1>7. RunsOwn(rec \o q, v \o HostView(s), text)
  <2>1. IsSequence(v \o HostView(s))
    BY <1>2, ViewIsChosen, JoinedIs
  <2>2. \A i \in DOMAIN (rec \o q) : (rec \o q)[i].type = "item" \/ OwnCompaction((rec \o q)[i])
    BY <1>1, <1>2, OwnJoined DEF RunsOwn
  <2>3. rec \o q # <<>> => LoadItems(rec \o q) # <<>>
    BY <1>6 DEF Led
  <2>4. ASSUME NoBoundary(rec \o q)
        PROVE  /\ v \o HostView(s) = HostView(LoadItems(rec \o q))
               /\ \A i \in DOMAIN LoadItems(rec \o q) : LoadItems(rec \o q)[i].kind # "steer"
    <3>1. v = HostView(items) /\ \A i \in DOMAIN items : items[i].kind # "steer"
      BY <1>1, <1>2, <2>4, NoBoundaryBefore DEF RunsOwn
    <3>2. HostView(items \o s) = HostView(items) \o HostView(s)
      BY <1>2, ViewJoined
    <3>3. \A i \in DOMAIN (items \o s) : (items \o s)[i].kind # "steer"
      BY <1>2, <3>1, JoinedDomain
    <3> QED BY <1>5, <3>1, <3>2, <3>3
  <2>5. ASSUME ~ NoBoundary(rec \o q) PROVE Holds(LoadItems(rec \o q), Item("user", text))
    <3>1. ~ NoBoundary(rec)
      BY <1>1, <1>2, <2>5, NoBoundaryJoined
    <3>2. Holds(items, Item("user", text))
      BY <3>1 DEF RunsOwn
    <3> QED BY <1>2, <1>5, <3>2, HoldsJoined
  <2> QED BY <1>3, <2>1, <2>2, <2>3, <2>4, <2>5 DEF RunsOwn
<1> QED BY <1>5, <1>6, <1>7 DEF q

\* A compaction of a run leaves the view, and what the record gives back is
\* what the compaction restates.
LEMMA OwnRewritten ==
  ASSUME NEW rec, Ordered(rec), NEW v, NEW text, RunsOwn(rec, v, text),
         NEW s, IsSequence(s), NEW e, e.seq \in Nat, e.items = <<>>, OwnCompaction(e),
         e.count = Len(s), NEW lead, Led(s, lead), NEW summary, Holds(s, Item("user", summary))
  PROVE  /\ RunsOwn(rec \o Rewrite(e, s), v, summary)
         /\ Led(LoadItems(rec \o Rewrite(e, s)), lead)
<1> DEFINE t == Numbered(e.seq + 1, s)
           d == <<e>>
           q == Rewrite(e, s)
<1>1. e.seq + 1 \in Nat /\ e.type = "boundary"
  BY DEF OwnCompaction
<1>2. /\ Entries(t) /\ IsSequence(t) /\ NoBoundary(t) /\ Items(t) = s
      /\ \A i \in DOMAIN t : t[i].type = "item"
  BY <1>1, NumberedOwn, ItemsNumbered
<1>3. Entries(rec) /\ IsSequence(rec) /\ IsSequence(v)
  BY DEF Ordered, Entries, RunsOwn
<1>4. IsSequence(d) /\ Len(d) = 1 /\ d[1] = e /\ DOMAIN d = 1..1
  BY Single, SequenceIs
<1>5. q = d \o t
  BY DEF Rewrite
<1>6. IsSequence(e.items)
  BY None
<1>7. Folded(rec \o q) = [skip |-> 0, items |-> v]
  BY <1>3, FoldedRewrite DEF RunsOwn
<1> HIDE DEF t, q
<1>a. LoadItems((rec \o <<e>>) \o t) = Items(t)
  BY <1>1, <1>2, <1>3, <1>6, LoadFrom
<1> HIDE DEF d
<1>8. LoadItems(rec \o q) = s
  <2>1. LoadItems((rec \o d) \o t) = Items(t)
    BY <1>a DEF d
  <2>2. IsSequence(rec) /\ IsSequence(d) /\ IsSequence(t)
    BY <1>2, <1>3, <1>4
  <2>3. (rec \o d) \o t = rec \o (d \o t)
    BY <2>2, JoinedTwice
  <2> QED BY <1>2, <1>5, <2>1, <2>3
<1>9. IsSequence(q) /\ \A i \in DOMAIN q : q[i].type = "item" \/ OwnCompaction(q[i])
  <2>1. \A i \in DOMAIN d : d[i].type = "item" \/ OwnCompaction(d[i])
    BY <1>4
  <2> QED BY <1>2, <1>4, <1>5, <2>1, OwnJoined, JoinedIs
<1>10. \A i \in DOMAIN (rec \o q) : (rec \o q)[i].type = "item" \/ OwnCompaction((rec \o q)[i])
  BY <1>3, <1>9, OwnJoined DEF RunsOwn
<1>11. ~ NoBoundary(rec \o q)
  <2>1. Len(rec) \in Nat /\ Len(t) \in Nat /\ Len(q) = 1 + Len(t) /\ q[1] = e
    <3>1. Len(rec) \in Nat /\ Len(t) \in Nat
      BY <1>2, <1>3, SequenceIs
    <3>2. 1 \in 1..Len(d)
      BY <1>4
    <3>3. IsSequence(d) /\ IsSequence(t)
      BY <1>2, <1>4
    <3>4. Len(d \o t) = Len(d) + Len(t) /\ (d \o t)[1] = d[1]
      BY <3>2, <3>3, Joined
    <3> QED BY <1>4, <1>5, <3>1, <3>4
  <2>2. 1 \in 1..Len(q)
    BY <2>1
  <2>3. (rec \o q)[Len(rec) + 1] = e /\ Len(rec \o q) = Len(rec) + Len(q)
    BY <1>3, <1>9, <2>1, <2>2, Joined
  <2>4. Len(rec) + 1 \in DOMAIN (rec \o q)
    BY <1>3, <1>9, <2>1, JoinedDomain
  <2> QED BY <1>1, <2>3, <2>4 DEF NoBoundary
<1> QED BY <1>3, <1>7, <1>8, <1>10, <1>11 DEF RunsOwn, Led, q

\* Messages of a kind.
In(s, S) == IsSequence(s) /\ \A i \in DOMAIN s : s[i] \in S

\* Joined ones are.
LEMMA InJoined ==
  ASSUME NEW S, NEW s, NEW t, In(s, S), In(t, S)
  PROVE  In(s \o t, S)
<1>1. IsSequence(s) /\ IsSequence(t)
  BY DEF In
<1>2. /\ \A i \in DOMAIN (s \o t) : (s \o t)[i] = IF i \in DOMAIN s THEN s[i] ELSE t[i - Len(s)]
      /\ \A i \in DOMAIN (s \o t) : i \notin DOMAIN s => i - Len(s) \in DOMAIN t
      /\ IsSequence(s \o t)
  BY <1>1, JoinedDomain, JoinedIs
<1> QED BY <1>2 DEF In

\* The messages of entries are if those of each entry are.
LEMMA ItemsIn ==
  ASSUME NEW S, NEW p, IsSequence(p), \A i \in DOMAIN p : In(p[i].items, S)
  PROVE  In(Items(p), S)
<1> DEFINE P(k) == k <= Len(p) => In(Items(SubSeq(p, 1, k)), S)
           N == {k \in Nat : P(k)}
<1>0. IsSequence(p) /\ Len(p) \in Nat /\ DOMAIN p = 1..Len(p) /\ Entries(p)
  BY SequenceIs DEF Entries, In
<1>1. P(0)
  <2>1. SubSeq(p, 1, 0) = <<>>
    BY <1>0, WholePrefix
  <2>2. In(<<>>, S)
    BY None, SequenceIs DEF In
  <2> QED BY <2>1, <2>2, ItemsOfNone
<1>2. ASSUME NEW k \in Nat, P(k) PROVE P(k + 1)
  <2> SUFFICES ASSUME k + 1 <= Len(p) PROVE In(Items(SubSeq(p, 1, k + 1)), S)
    OBVIOUS
  <2> DEFINE a == SubSeq(p, 1, k)
             d == p[k + 1]
  <2>1. k \in 0..(Len(p) - 1) /\ k \in 0..Len(p) /\ 1 \in Nat \ {0} /\ k + 1 \in DOMAIN p
    BY <1>0
  <2>2. SubSeq(p, 1, k + 1) = a \o <<d>>
    BY <1>0, <2>1, NextPrefix
  <2>3. Entries(a)
    BY <1>0, <2>1, EntriesCut
  <2>4. In(d.items, S)
    BY <2>1
  <2>5. In(Items(a), S)
    BY <1>0, <1>2
  <2> HIDE DEF a, d
  <2>6. Items(a \o <<d>>) = Items(a) \o d.items
    BY <2>3, <2>4, ItemsAndOne DEF In
  <2>7. In(Items(a) \o d.items, S)
    BY <2>4, <2>5, InJoined
  <2> QED BY <2>2, <2>6, <2>7
<1>3. Nat \subseteq N
  <2> HIDE DEF P
  <2>1. 0 \in N /\ \A k \in Nat : k \in N => k + 1 \in N
    BY <1>1, <1>2
  <2> HIDE DEF N
  <2> QED BY <2>1, Induction
<1>4. P(Len(p))
  BY <1>0, <1>3
<1>5. Len(p) <= Len(p) /\ SubSeq(p, 1, Len(p)) = p
  BY <1>0, WholePrefix
<1> QED BY <1>4, <1>5

\* No message of these is the assistant's.
NoReply(items) == \A i \in DOMAIN items : items[i].kind # "assistant"

\* What a host sends for messages extends the view that ends before the last
\* of them, and sends those behind the view as they are, unless one is a reply.
LEMMA AlikeExtends ==
  ASSUME NEW m, NEW v, NEW rest, IsSequence(v), IsSequence(rest), Alike(v \o rest, m),
         NoReply(rest), rest # <<>>
  PROVE  IsSequence(m) /\ Extends(m, v) /\ SubSeq(m, Len(v) + 1, Len(m)) = rest
<1> DEFINE w == v \o rest
           c == SubSeq(m, Len(v) + 1, Len(m))
<1>1. /\ Len(v) \in Nat /\ Len(rest) \in Nat /\ Len(rest) # 0 /\ DOMAIN v = 1..Len(v)
      /\ DOMAIN rest = 1..Len(rest)
  <2>1. Len(rest) = 0 => rest = <<>>
    BY None, SameSequence
  <2> QED BY <2>1, SequenceIs
<1>2. /\ IsSequence(w) /\ Len(w) = Len(v) + Len(rest)
      /\ \A i \in 1..Len(v) : w[i] = v[i]
      /\ \A i \in 1..Len(rest) : w[Len(v) + i] = rest[i]
  BY Joined
<1> HIDE DEF w
<1>3. Alike(w, m)
  BY DEF w
<1>4. IsSequence(m) /\ Len(m) = Len(v) + Len(rest)
  BY <1>2, <1>3 DEF Alike
<1>5. ASSUME NEW i \in DOMAIN v PROVE Agrees(v[i], m[i])
  <2>1. i \in 1..Len(w) /\ w[i] = v[i]
    BY <1>1, <1>2
  <2> QED BY <1>3, <2>1 DEF Alike
<1>6. Extends(m, v)
  BY <1>1, <1>4, <1>5 DEF Extends
<1>7. c = rest
  <2>1. Len(v) + 1 \in Nat \ {0} /\ Len(m) \in 0..Len(m)
    BY <1>1, <1>4
  <2>2. /\ IsSequence(c)
        /\ Len(c) = IF Len(v) + 1 <= Len(m) THEN Len(m) - (Len(v) + 1) + 1 ELSE 0
        /\ \A i \in 1..Len(c) : c[i] = m[(Len(v) + 1) + i - 1]
    BY <1>4, <2>1, Cut
  <2> HIDE DEF c
  <2>3. Len(c) = Len(rest)
    BY <1>1, <1>4, <2>2
  <2>4. ASSUME NEW i \in 1..Len(rest) PROVE c[i] = rest[i]
    <3>1. (Len(v) + 1) + i - 1 = Len(v) + i /\ Len(v) + i \in 1..Len(w) /\ i \in DOMAIN rest
      BY <1>1, <1>2
    <3>2. c[i] = m[Len(v) + i]
      BY <2>2, <2>3, <3>1
    <3>3. w[Len(v) + i] = rest[i] /\ rest[i].kind # "assistant"
      BY <1>2, <3>1 DEF NoReply
    <3>4. m[Len(v) + i] = w[Len(v) + i]
      BY <1>3, <3>1, <3>3 DEF Alike
    <3> QED BY <3>2, <3>3, <3>4
  <2> QED BY <2>2, <2>3, <2>4, SameSequence
<1> QED BY <1>4, <1>6, <1>7
=============================================================================
