--------------------------- MODULE EvtRoundProofs ---------------------------
(***************************************************************************)
(* Proofs about the output event queue and the nodes: the links `current'   *)
(* and `last_step' never lead into freed entries, the cached pending list   *)
(* and next_time are exact, and, until a backup leaves `current' at a       *)
(* removed event, event time does not run backwards, no removed event is    *)
(* delivered, what is still to come is what was promised, and every output  *)
(* drives what the queue last brought it; a backup can only leave `current' *)
(* so with several delays.                                                  *)
(***************************************************************************)
EXTENDS EvtRound, NatLemmas, SequenceTheorems, FiniteSetTheorems

-----------------------------------------------------------------------------
(* Positions in lists.                                                      *)

Within(ns, l) == \A n : n \in ns => n \in 1 .. l

LEMMA FirstOfIs ==
  ASSUME NEW s, NEW l \in Nat, Len(s) = l, NEW ns, Within(ns, l)
  PROVE  /\ FirstOf(s, ns) \in ns \/ FirstOf(s, ns) = l + 1
         /\ FirstOf(s, ns) \in 1 .. l + 1
         /\ \A m \in ns : FirstOf(s, ns) <= m
<1> DEFINE T == ns \cup {l + 1}
<1>1. T \subseteq Nat /\ l + 1 \in T
  BY DEF Within
<1> HIDE DEF T
<1>2. PICK x \in T : \A y \in T : x <= y
  BY <1>1, LeastNumber
<1>3. \E n \in ns \cup {l + 1} : \A m \in ns : n <= m
  BY <1>2 DEF T
<1>4. /\ FirstOf(s, ns) \in ns \cup {l + 1}
      /\ \A m \in ns : FirstOf(s, ns) <= m
  BY <1>3 DEF FirstOf
<1>5. FirstOf(s, ns) \in 1 .. l + 1
  BY <1>4 DEF Within
<1> QED BY <1>4, <1>5

\* How many of the positions ks are not after k.
Rank(ks, k) == Cardinality({j \in ks : j <= k})

LEMMA RankIsNat ==
  ASSUME NEW l \in Nat, NEW ks, Within(ks, l)
  PROVE  /\ IsFiniteSet(ks) /\ Cardinality(ks) \in Nat
         /\ \A k : /\ Rank(ks, k) \in Nat /\ Rank(ks, k) <= Cardinality(ks)
                   /\ IsFiniteSet({j \in ks : j <= k})
<1>1. IsFiniteSet(ks)
  <2>1. IsFiniteSet(1 .. l)
    BY FS_Interval
  <2>2. ks \in SUBSET (1 .. l)
    BY DEF Within
  <2> QED BY <2>1, <2>2, FS_Subset
<1>2. ASSUME NEW S \in SUBSET ks
      PROVE  IsFiniteSet(S) /\ Cardinality(S) \in Nat /\ Cardinality(S) <= Cardinality(ks)
  BY <1>1, FS_Subset, FS_CardinalityType
<1>3. ASSUME NEW k PROVE {j \in ks : j <= k} \in SUBSET ks
  OBVIOUS
<1> QED BY <1>1, <1>2, <1>3, FS_CardinalityType DEF Rank

LEMMA RankGrows ==
  ASSUME NEW l \in Nat, NEW ks, Within(ks, l), NEW j \in ks, NEW k \in ks, j < k
  PROVE  Rank(ks, j) < Rank(ks, k)
<1> DEFINE J == {i \in ks : i <= j}
           K == {i \in ks : i <= k}
<1>1. J \in SUBSET K /\ k \in K /\ k \notin J
  BY DEF Within
<1>2. IsFiniteSet(K) /\ Rank(ks, j) \in Nat /\ Rank(ks, k) \in Nat
  BY RankIsNat
<1>3. Rank(ks, j) = Cardinality(J) /\ Rank(ks, k) = Cardinality(K)
  BY DEF Rank
<1> HIDE DEF J, K
<1>4. Cardinality(J) <= Cardinality(K) /\ (Cardinality(K) = Cardinality(J) => K = J)
  BY <1>1, <1>2, FS_Subset
<1>5. Rank(ks, j) # Rank(ks, k)
  BY <1>1, <1>3, <1>4
<1> QED BY <1>2, <1>3, <1>4, <1>5

\* Every rank is that of some position.
LEMMA RankReached ==
  ASSUME NEW l \in Nat, NEW ks, Within(ks, l), NEW n \in 1 .. Cardinality(ks)
  PROVE  \E k \in ks : Rank(ks, k) = n
<1> DEFINE T == {k \in 1 .. l : Rank(ks, k) >= n}
<1>1. /\ IsFiniteSet(ks) /\ Cardinality(ks) \in Nat /\ n \in Nat /\ n >= 1
      /\ n <= Cardinality(ks)
      /\ \A k : Rank(ks, k) \in Nat
  <2>1. IsFiniteSet(ks) /\ Cardinality(ks) \in Nat /\ \A k : Rank(ks, k) \in Nat
    BY RankIsNat
  <2> QED BY <2>1
<1>2. l \in T /\ T \subseteq Nat
  <2>1. {j \in ks : j <= l} = ks
    BY DEF Within
  <2>2. ks # {}
    BY <1>1, FS_EmptySet
  <2>3. l >= 1
    BY <2>2 DEF Within
  <2>4. Rank(ks, l) >= n
    BY <1>1, <2>1 DEF Rank
  <2> QED BY <2>3, <2>4
<1> HIDE DEF T
<1>3. PICK x \in T : \A y \in T : x <= y
  BY <1>2, LeastNumber
<1>4. x \in 1 .. l /\ Rank(ks, x) >= n
  BY <1>3 DEF T
<1> DEFINE S == {j \in ks : j <= x - 1}
<1>5. IsFiniteSet(S) /\ Cardinality(S) \in Nat /\ Rank(ks, x - 1) = Cardinality(S)
  BY RankIsNat DEF Rank
<1>6. Cardinality(S) < n
  <2>1. CASE x = 1
    <3>1. S = {}
      BY <2>1 DEF Within
    <3> QED BY <1>1, <3>1, FS_EmptySet
  <2>2. CASE x # 1
    <3>1. x - 1 \in 1 .. l /\ ~ (x <= x - 1)
      BY <1>4, <2>2
    <3>2. x - 1 \notin T
      BY <1>3, <3>1
    <3>3. ~ (Rank(ks, x - 1) >= n)
      BY <3>1, <3>2 DEF T
    <3> HIDE DEF S
    <3> QED BY <1>1, <1>5, <3>3
  <2> QED BY <2>1, <2>2
<1>7. x \in ks
  <2> SUFFICES ASSUME x \notin ks PROVE FALSE
    OBVIOUS
  <2>1. {j \in ks : j <= x} = S
    BY <1>4 DEF Within
  <2>2. Rank(ks, x) = Cardinality(S)
    BY <2>1 DEF Rank
  <2> HIDE DEF S
  <2> QED BY <1>1, <1>4, <1>5, <1>6, <2>2
<1>8. {j \in ks : j <= x} = S \cup {x} /\ x \notin S
  BY <1>4, <1>7 DEF Within
<1> HIDE DEF S
<1>9. Rank(ks, x) = Cardinality(S) + 1
  BY <1>5, <1>8, FS_AddElement DEF Rank
<1> QED BY <1>1, <1>4, <1>5, <1>6, <1>7, <1>9

\* Nth enumerates the positions in their order, each once.
LEMMA NthOrder ==
  ASSUME NEW l \in Nat, NEW ks, Within(ks, l)
  PROVE  /\ Cardinality(ks) \in Nat
         /\ \A n \in 1 .. Cardinality(ks) : Nth(ks, n) \in ks
         /\ \A m, n \in 1 .. Cardinality(ks) : m < n => Nth(ks, m) < Nth(ks, n)
         /\ \A k \in ks : \E n \in 1 .. Cardinality(ks) : Nth(ks, n) = k
<1>1. /\ Cardinality(ks) \in Nat
      /\ \A k : Rank(ks, k) \in Nat /\ Rank(ks, k) <= Cardinality(ks)
  BY RankIsNat
<1>2. ASSUME NEW n \in 1 .. Cardinality(ks)
      PROVE  Nth(ks, n) \in ks /\ Rank(ks, Nth(ks, n)) = n
  <2>1. \E k \in ks : Cardinality({j \in ks : j <= k}) = n
    BY RankReached DEF Rank
  <2> QED BY <2>1 DEF Nth, Rank
<1>3. ASSUME NEW m \in 1 .. Cardinality(ks), NEW n \in 1 .. Cardinality(ks), m < n
      PROVE  Nth(ks, m) < Nth(ks, n)
  <2>1. CASE Nth(ks, n) = Nth(ks, m)
    BY <1>1, <1>2, <1>3, <2>1
  <2>2. CASE Nth(ks, n) < Nth(ks, m)
    <3>1. Rank(ks, Nth(ks, n)) < Rank(ks, Nth(ks, m))
      BY <1>2, <2>2, RankGrows
    <3> QED BY <1>1, <1>2, <1>3, <3>1
  <2>3. Nth(ks, m) \in Nat /\ Nth(ks, n) \in Nat
    BY <1>2 DEF Within
  <2> QED BY <2>1, <2>2, <2>3
<1>4. ASSUME NEW k \in ks PROVE \E n \in 1 .. Cardinality(ks) : Nth(ks, n) = k
  <2> DEFINE n == Rank(ks, k)
             K == {j \in ks : j <= k}
  <2>1. n \in Nat /\ n <= Cardinality(ks) /\ k \in Nat
    BY <1>1 DEF Within
  <2>2. IsFiniteSet(K) /\ k \in K /\ n = Cardinality(K)
    BY <2>1, RankIsNat DEF Rank
  <2> HIDE DEF n, K
  <2>3. n # 0
    BY <2>2, FS_EmptySet
  <2>4. n \in 1 .. Cardinality(ks)
    BY <1>1, <2>1, <2>3
  <2>5. Nth(ks, n) \in ks /\ Rank(ks, Nth(ks, n)) = n
    BY <1>2, <2>4
  <2>6. Nth(ks, n) \in Nat
    BY <2>5 DEF Within
  <2>7. CASE Nth(ks, n) < k
    <3>1. Rank(ks, Nth(ks, n)) < Rank(ks, k)
      BY <2>5, <2>7, RankGrows
    <3> QED BY <2>1, <2>5, <3>1 DEF n
  <2>8. CASE k < Nth(ks, n)
    <3>1. Rank(ks, k) < Rank(ks, Nth(ks, n))
      BY <2>5, <2>8, RankGrows
    <3> QED BY <2>1, <2>5, <3>1 DEF n
  <2> QED BY <2>1, <2>4, <2>6, <2>7, <2>8
<1> QED BY <1>1, <1>2, <1>3, <1>4

-----------------------------------------------------------------------------
(* The invariant.                                                           *)

\* A list with its links: c is `current' and l is `last_step'.
Links(s, c, l) ==
  /\ s \in Seq(Event) /\ c \in Nat /\ l \in Nat
  /\ 1 <= l /\ l <= c /\ c <= Len(s) + 1

\* The event at `current', if there is one, is later than the solution.
SolveAhead ==
  phase = "solve" =>
    \A o \in Outputs : current[o] <= Len(list[o]) => list[o][current[o]].et > target

\* No event is posted for an earlier time, and what changed is dealt with.
PostedAhead(s) == \A n \in 1 .. Len(s) : s[n].et > s[n].pt

RoundShape ==
  /\ \A o \in Outputs : PostedAhead(list[o])
  /\ phase = "solve" => evt_step = target
  /\ phase # "iter" => changed = {}

QueueInv == TypeOK /\ NextTimeExact /\ SolveAhead /\ RoundShape

\* The rest holds until an output is misled.
StepOrder ==
  /\ last_time <= evt_step
  /\ phase \in {"loop", "iter"} => evt_step <= target
  /\ phase = "accepted" => evt_step = target /\ last_time = target

\* Two events, d before e in the list: in order of time, or one was cancelled
\* before the other was posted.
Pair(d, e) ==
  \/ d.et < e.et
  \/ d.removed /\ d.rt <= e.pt
  \/ e.removed /\ e.rt <= d.pt

Ordered(s, l) == \A m, n \in l .. Len(s) : m < n => Pair(s[m], s[n])

\* What was posted and removed since last_step was so by the event time `step',
\* and what stands is still to come exactly from `current' on.
Dated(s, c, l, step) ==
  \A n \in l .. Len(s) :
    /\ s[n].pt <= step /\ (s[n].removed => s[n].rt <= step)
    /\ ~ s[n].removed => (n < c <=> s[n].et <= step)

\* A removal since `base' is the work of an event that is still there.
Witnessed(s, l, base) ==
  \A n \in l .. Len(s) :
    s[n].removed /\ s[n].rt > base => \E m \in l .. Len(s) : s[m].pt = s[n].rt

\* The next event is not a removed one.
HeadStands(s, c) == c <= Len(s) => NotRemoved(s[c])

Good(s, c, l, step, base) ==
  Ordered(s, l) /\ Dated(s, c, l, step) /\ Witnessed(s, l, base) /\ HeadStands(s, c)

\* An output that is not modified has been left alone since last_step.
Idle(s, c, l, base) == c = l /\ \A n \in l .. Len(s) : s[n].pt <= base

\* With one delay only events for the time of a later post are removed, and
\* that post comes first.
Alike(ds) == \A d, e \in ds : d = e

OneDelay(o) == Alike(Delays[o])

Steady(s, l, ds) ==
  /\ \A n \in l .. Len(s) : s[n].et - s[n].pt \in ds
  /\ \A m, n \in l .. Len(s) : m < n => s[m].et <= s[n].et
  /\ \A n \in l .. Len(s) :
       s[n].removed => \E m \in l .. Len(s) : m < n /\ s[m].et = s[n].et

OrderInv ==
  /\ StepOrder
  /\ \A o \in Outputs :
       /\ Good(list[o], current[o], last_step[o], evt_step, last_time)
       /\ o \notin modified => Idle(list[o], current[o], last_step[o], last_time)
       /\ OneDelay(o) => Steady(list[o], last_step[o], Delays[o])

Unmisled == misled = {} => OrderInv

-----------------------------------------------------------------------------
(* What the operations do to a list.                                        *)

\* A function on 1 .. n is a sequence of length n.
LEMMA FunctionIsSeq ==
  ASSUME NEW S, NEW n \in Nat, NEW f \in [1 .. n -> S]
  PROVE  f \in Seq(S) /\ Len(f) = n
<1>1. f \in Seq(S)
  BY SeqDef
<1>2. Len(f) \in Nat /\ DOMAIN f = 1 .. Len(f)
  BY <1>1, LenProperties
<1> QED BY <1>1, <1>2

LEMMA Numbers ==
  /\ Time \subseteq Nat /\ MaxTime \in Nat /\ 0 \in Time /\ Infinity \in Nat
  /\ \A t \in Time : t <= MaxTime /\ t < Infinity
BY OutputAssumption DEF Time, Infinity

LEMMA EventFields ==
  ASSUME NEW e \in Event
  PROVE  /\ e.et \in Nat /\ e.pt \in Nat /\ e.rt \in Nat /\ e.removed \in BOOLEAN
         /\ e.et \in Time /\ e.pt \in Time /\ e.rt \in Time
BY Numbers DEF Event

LEMMA MarkIs ==
  ASSUME NEW e \in Event, NEW t \in Time
  PROVE  /\ Mark(e, t) \in Event
         /\ Mark(e, t).et = e.et /\ Mark(e, t).pt = e.pt
         /\ Mark(e, t).removed
         /\ Mark(e, t).rt = IF e.removed THEN e.rt ELSE t
BY DEF Mark, Event

\* A new entry at position h, and all after it marked.
Inserted(s, h, new, t) ==
  SubSeq(s, 1, h - 1) \o <<new>> \o [n \in 1 .. Len(s) - h + 1 |-> Mark(s[h + n - 1], t)]

LEMMA InsertIs ==
  ASSUME NEW s \in Seq(Event), NEW h \in Nat, 1 <= h, h <= Len(s) + 1,
         NEW new \in Event, NEW t \in Time
  PROVE  /\ Inserted(s, h, new, t) \in Seq(Event)
         /\ Len(Inserted(s, h, new, t)) = Len(s) + 1
         /\ \A n \in 1 .. h - 1 : Inserted(s, h, new, t)[n] = s[n]
         /\ Inserted(s, h, new, t)[h] = new
         /\ \A n \in h + 1 .. Len(s) + 1 : Inserted(s, h, new, t)[n] = Mark(s[n - 1], t)
<1> DEFINE l == Len(s)
           before == SubSeq(s, 1, h - 1)
           one == <<new>>
           after == [n \in 1 .. l - h + 1 |-> Mark(s[h + n - 1], t)]
           b == before \o one
           c == Inserted(s, h, new, t)
<1>0. l \in Nat /\ h <= l + 1 /\ Len(s) = l
  BY LenProperties
<1> HIDE DEF l
<1>1. \A n \in 1 .. l : s[n] \in Event
  BY <1>0, ElementOfSeq
<1>2. /\ before \in Seq(Event) /\ Len(before) = h - 1
      /\ \A n \in 1 .. h - 1 : before[n] = s[n]
  BY <1>0, <1>1, SubSeqProperties
<1>3. one \in Seq(Event) /\ Len(one) = 1 /\ one[1] = new
  OBVIOUS
<1>4. /\ after \in Seq(Event) /\ Len(after) = l - h + 1
      /\ \A n \in 1 .. l - h + 1 : after[n] = Mark(s[h + n - 1], t)
  <2>1. ASSUME NEW n \in 1 .. l - h + 1 PROVE Mark(s[h + n - 1], t) \in Event
    <3>1. h + n - 1 \in 1 .. l
      BY <1>0
    <3>2. s[h + n - 1] \in Event
      BY <1>1, <3>1
    <3> QED BY <3>2, MarkIs
  <2>2. after \in [1 .. l - h + 1 -> Event]
    BY <2>1
  <2>3. l - h + 1 \in Nat
    BY <1>0
  <2> HIDE DEF after
  <2>4. after \in Seq(Event) /\ Len(after) = l - h + 1
    BY <2>2, <2>3, FunctionIsSeq
  <2> QED BY <2>4 DEF after
<1>5. c = b \o after
  BY DEF Inserted, l
<1> HIDE DEF before, one, after, c
<1>6. /\ b \in Seq(Event) /\ Len(b) = h
      /\ \A n \in 1 .. h - 1 : b[n] = before[n]
      /\ b[h] = new
  <2>1. /\ b \in Seq(Event) /\ Len(b) = Len(before) + Len(one)
        /\ \A n \in 1 .. Len(before) + Len(one) :
             b[n] = IF n <= Len(before) THEN before[n] ELSE one[n - Len(before)]
    BY <1>2, <1>3, ConcatProperties
  <2> HIDE DEF b
  <2>2. b[h] = one[1]
    BY <1>2, <1>3, <2>1
  <2> QED BY <1>2, <1>3, <2>1, <2>2
<1> HIDE DEF b
<1>7. /\ c \in Seq(Event) /\ Len(c) = l + 1
      /\ \A n \in 1 .. h : c[n] = b[n]
      /\ \A n \in h + 1 .. l + 1 : c[n] = after[n - h]
  <2>1. /\ c \in Seq(Event) /\ Len(c) = Len(b) + Len(after)
        /\ \A n \in 1 .. Len(b) + Len(after) :
             c[n] = IF n <= Len(b) THEN b[n] ELSE after[n - Len(b)]
    BY <1>4, <1>5, <1>6, ConcatProperties
  <2> QED BY <1>0, <1>4, <1>6, <2>1
<1>8. /\ \A n \in 1 .. h - 1 : c[n] = s[n]
      /\ c[h] = new
  BY <1>0, <1>2, <1>6, <1>7
<1>9. ASSUME NEW n \in h + 1 .. l + 1 PROVE c[n] = Mark(s[n - 1], t)
  <2>1. n \in 1 .. l + 1 /\ n - h \in 1 .. l - h + 1 /\ h + (n - h) - 1 = n - 1 /\ ~ (n <= h)
    BY <1>0
  <2>2. after[n - h] = Mark(s[n - 1], t)
    BY <1>4, <2>1
  <2> QED BY <1>7, <2>1, <2>2
<1> QED BY <1>0, <1>7, <1>8, <1>9 DEF c

\* EVTqueue_output puts the event before the first that is not earlier.
NewEvent(t, step) == [et |-> t, pt |-> step, removed |-> FALSE, rt |-> 0]

Queued(s, c, t, step) ==
  Inserted(s, FirstOf(s, {n \in c .. Len(s) : t <= s[n].et}), NewEvent(t, step), step)

\* r is s with an event for t inserted at h.
QueuedAt(s, r, c, t, step, h) ==
  /\ c <= h /\ h <= Len(s) + 1
  /\ r \in Seq(Event) /\ Len(r) = Len(s) + 1
  /\ \A n \in 1 .. h - 1 : r[n] = s[n]
  /\ r[h] = NewEvent(t, step)
  /\ \A n \in h + 1 .. Len(s) + 1 : r[n] = Mark(s[n - 1], step)
  /\ \A n \in c .. h - 1 : s[n].et < t
  /\ h <= Len(s) => t <= s[h].et

LEMMA QueuedIs ==
  ASSUME NEW s \in Seq(Event), NEW c \in Nat, 1 <= c, c <= Len(s) + 1,
         NEW t \in Time, NEW step \in Time
  PROVE  \E h \in Nat : QueuedAt(s, Queued(s, c, t, step), c, t, step, h)
<1> DEFINE l == Len(s)
           ns == {n \in c .. l : t <= s[n].et}
           h == FirstOf(s, ns)
           new == NewEvent(t, step)
           r == Inserted(s, h, new, step)
<1>1. l \in Nat /\ \A n \in 1 .. l : s[n] \in Event
  BY LenProperties, ElementOfSeq
<1>2. Queued(s, c, t, step) = r
  BY DEF Queued
<1>3. Within(ns, l)
  BY <1>1 DEF Within
<1>4. Len(s) = l /\ c <= l + 1
  OBVIOUS
<1> HIDE DEF l
<1>5. /\ h \in ns \/ h = l + 1
      /\ h \in Nat /\ 1 <= h /\ h <= l + 1 /\ \A m \in ns : h <= m
  <2> HIDE DEF ns
  <2> QED BY <1>1, <1>3, <1>4, FirstOfIs
<1> HIDE DEF h
<1>6. /\ c <= h
      /\ h <= l => t <= s[h].et
      /\ \A n \in c .. h - 1 : ~ (t <= s[n].et)
  BY <1>1, <1>4, <1>5
<1>7. new \in Event
  BY Numbers DEF Event, NewEvent
<1> HIDE DEF new, ns
<1>8. /\ r \in Seq(Event) /\ Len(r) = l + 1
      /\ \A n \in 1 .. h - 1 : r[n] = s[n]
      /\ r[h] = new
      /\ \A n \in h + 1 .. l + 1 : r[n] = Mark(s[n - 1], step)
  <2>1. h <= Len(s) + 1
    BY <1>4, <1>5
  <2>2. /\ r \in Seq(Event) /\ Len(r) = Len(s) + 1
        /\ \A n \in 1 .. h - 1 : r[n] = s[n]
        /\ r[h] = new
        /\ \A n \in h + 1 .. Len(s) + 1 : r[n] = Mark(s[n - 1], step)
    BY <1>5, <1>7, <2>1, InsertIs
  <2> HIDE DEF r
  <2> QED BY <1>4, <2>2
<1> HIDE DEF r
<1>9. ASSUME NEW n \in c .. h - 1 PROVE s[n].et < t
  <2>1. n \in 1 .. l
    BY <1>1, <1>5
  <2>2. s[n].et \in Nat /\ t \in Nat
    BY <1>1, <2>1, EventFields, Numbers
  <2> QED BY <1>6, <2>2
<1> QED BY <1>2, <1>4, <1>5, <1>6, <1>8, <1>9 DEF new, QueuedAt

\* The entries of the list r that a post at position h makes of the list s: each
\* is an old one, the new one or an old one marked.
EntriesAre(s, r, c, t, step, h) ==
  /\ Len(s) \in Nat /\ 1 <= h /\ h <= Len(s) + 1 /\ c <= h
  /\ r \in Seq(Event) /\ Len(r) = Len(s) + 1
  /\ \A n \in 1 .. Len(s) : s[n] \in Event
  /\ \A n \in 1 .. h - 1 : r[n] = s[n]
  /\ r[h].et = t /\ r[h].pt = step /\ ~ r[h].removed /\ r[h].rt = 0
  /\ \A n \in h + 1 .. Len(s) + 1 :
       /\ r[n].et = s[n - 1].et /\ r[n].pt = s[n - 1].pt /\ r[n].removed
       /\ r[n].rt = IF s[n - 1].removed THEN s[n - 1].rt ELSE step

LEMMA QueuedEntries ==
  ASSUME NEW s \in Seq(Event), NEW r, NEW c \in Nat, NEW t \in Time, NEW step \in Time,
         NEW h \in Nat, QueuedAt(s, r, c, t, step, h), 1 <= c
  PROVE  EntriesAre(s, r, c, t, step, h)
<1>1. Len(s) \in Nat /\ \A n \in 1 .. Len(s) : s[n] \in Event
  BY LenProperties, ElementOfSeq
<1>2. /\ c <= h /\ h <= Len(s) + 1
      /\ r \in Seq(Event) /\ Len(r) = Len(s) + 1
      /\ \A n \in 1 .. h - 1 : r[n] = s[n]
      /\ r[h] = NewEvent(t, step)
      /\ \A n \in h + 1 .. Len(s) + 1 : r[n] = Mark(s[n - 1], step)
  BY DEF QueuedAt
<1>3. r[h].et = t /\ r[h].pt = step /\ ~ r[h].removed /\ r[h].rt = 0
  BY <1>2 DEF NewEvent
<1>4. ASSUME NEW n \in h + 1 .. Len(s) + 1
      PROVE  /\ r[n].et = s[n - 1].et /\ r[n].pt = s[n - 1].pt /\ r[n].removed
             /\ r[n].rt = IF s[n - 1].removed THEN s[n - 1].rt ELSE step
  <2>1. n - 1 \in 1 .. Len(s)
    BY <1>1, <1>2
  <2>2. s[n - 1] \in Event /\ r[n] = Mark(s[n - 1], step)
    BY <1>1, <1>2, <2>1
  <2> QED BY <2>2, MarkIs
<1> QED BY <1>1, <1>2, <1>3, <1>4 DEF EntriesAre

\* The links still lead into the list, and the event at `current' is the
\* earlier of the one that was there and the new one.
LEMMA QueuedLinks ==
  ASSUME NEW s, NEW r, NEW c, NEW l, Links(s, c, l),
         NEW t \in Time, NEW step \in Time, step < t,
         NEW h \in Nat, QueuedAt(s, r, c, t, step, h)
  PROVE  /\ Links(r, c, l)
         /\ PostedAhead(s) => PostedAhead(r)
         /\ c <= Len(r)
         /\ r[c].et = IF c <= Len(s) /\ s[c].et < t THEN s[c].et ELSE t
<1>1. s \in Seq(Event) /\ c \in Nat /\ l \in Nat /\ 1 <= l /\ l <= c /\ c <= Len(s) + 1
  BY DEF Links
<1>2. /\ Len(s) \in Nat /\ 1 <= h /\ h <= Len(s) + 1 /\ c <= h /\ 1 <= c
      /\ r \in Seq(Event) /\ Len(r) = Len(s) + 1
      /\ \A n \in 1 .. Len(s) : s[n] \in Event
      /\ \A n \in 1 .. h - 1 : r[n] = s[n]
      /\ r[h].et = t /\ r[h].pt = step
      /\ \A n \in h + 1 .. Len(s) + 1 : r[n].et = s[n - 1].et /\ r[n].pt = s[n - 1].pt
  <2>1. 1 <= c
    BY <1>1
  <2>2. EntriesAre(s, r, c, t, step, h)
    BY <1>1, <2>1, QueuedEntries
  <2> QED BY <2>1, <2>2 DEF EntriesAre
<1>3. Links(r, c, l) /\ c <= Len(r)
  BY <1>1, <1>2 DEF Links
<1>4. ASSUME PostedAhead(s), NEW n \in 1 .. Len(r) PROVE r[n].et > r[n].pt
  <2>1. \A m \in 1 .. Len(s) : s[m].et > s[m].pt
    BY <1>4 DEF PostedAhead
  <2>2. CASE n < h
    BY <1>2, <2>1, <2>2
  <2>3. CASE n = h
    BY <1>2, <2>3, Numbers
  <2>4. CASE n > h
    <3>1. n - 1 \in 1 .. Len(s) /\ n \in h + 1 .. Len(s) + 1
      BY <1>2, <2>4
    <3>2. s[n - 1].et > s[n - 1].pt /\ r[n].et = s[n - 1].et /\ r[n].pt = s[n - 1].pt
      BY <1>2, <2>1, <3>1
    <3> QED BY <3>2
  <2> QED BY <1>2, <2>2, <2>3, <2>4
<1>5. r[c].et = IF c <= Len(s) /\ s[c].et < t THEN s[c].et ELSE t
  <2>1. /\ \A n \in c .. h - 1 : s[n].et < t
        /\ h <= Len(s) => t <= s[h].et
    BY DEF QueuedAt
  <2>2. CASE c < h
    <3>1. c \in 1 .. h - 1 /\ c \in c .. h - 1 /\ c <= Len(s)
      BY <1>1, <1>2, <2>2
    <3> QED BY <1>2, <2>1, <3>1
  <2>3. CASE c = h
    <3>1. c <= Len(s) => s[c].et \in Nat /\ t \in Nat /\ t <= s[c].et
      BY <1>1, <1>2, <2>1, <2>3, EventFields, Numbers
    <3> QED BY <1>2, <2>3, <3>1
  <2> QED BY <1>1, <1>2, <2>2, <2>3
<1> QED BY <1>3, <1>4, <1>5 DEF PostedAhead

\* A post keeps the list in order.
LEMMA QueuedOrdered ==
  ASSUME NEW s, NEW r, NEW c, NEW l, Links(s, c, l),
         NEW t \in Time, NEW step \in Time, step < t,
         NEW h \in Nat, QueuedAt(s, r, c, t, step, h),
         Ordered(s, l), Dated(s, c, l, step)
  PROVE  Ordered(r, l)
<1>1. s \in Seq(Event) /\ c \in Nat /\ l \in Nat /\ 1 <= l /\ l <= c /\ c <= Len(s) + 1
  BY DEF Links
<1>2. /\ Len(s) \in Nat /\ 1 <= h /\ h <= Len(s) + 1 /\ c <= h /\ 1 <= c
      /\ Len(r) = Len(s) + 1
      /\ \A n \in 1 .. h - 1 : r[n] = s[n]
      /\ r[h].et = t /\ r[h].pt = step /\ ~ r[h].removed
      /\ \A n \in h + 1 .. Len(s) + 1 :
           /\ r[n].et = s[n - 1].et /\ r[n].pt = s[n - 1].pt /\ r[n].removed
           /\ r[n].rt = IF s[n - 1].removed THEN s[n - 1].rt ELSE step
  <2>1. 1 <= c
    BY <1>1
  <2>2. EntriesAre(s, r, c, t, step, h)
    BY <1>1, <2>1, QueuedEntries
  <2> QED BY <2>1, <2>2 DEF EntriesAre
<1>3. \A n \in l .. Len(s) :
        /\ s[n].pt <= step /\ (s[n].removed => s[n].rt <= step)
        /\ ~ s[n].removed => (n < c <=> s[n].et <= step)
  BY DEF Dated
<1>4. \A m, n \in l .. Len(s) : m < n => Pair(s[m], s[n])
  BY DEF Ordered
<1>5. \A n \in 1 .. Len(s) : s[n].et \in Nat /\ s[n].pt \in Nat /\ s[n].rt \in Nat
  BY <1>1, ElementOfSeq, EventFields
<1>6. step \in Nat /\ t \in Nat
  BY Numbers
<1>7. ASSUME NEW m \in l .. Len(r), NEW n \in l .. Len(r), m < n
      PROVE  Pair(r[m], r[n])
  <2>1. CASE n < h
    <3>1. m \in l .. Len(s) /\ n \in l .. Len(s) /\ m \in 1 .. h - 1 /\ n \in 1 .. h - 1
      BY <1>1, <1>2, <1>7, <2>1
    <3> QED BY <1>2, <1>4, <1>7, <3>1
  <2>2. CASE n = h
    <3>1. m \in l .. Len(s) /\ m \in 1 .. h - 1 /\ m \in 1 .. Len(s)
      BY <1>1, <1>2, <1>7, <2>2
    <3>2. r[m] = s[m] /\ (s[m].removed => s[m].rt <= step)
      BY <1>2, <1>3, <3>1
    <3>3. ASSUME ~ s[m].removed PROVE s[m].et < t
      <4>1. CASE m < c
        BY <1>3, <1>5, <1>6, <3>1, <3>3, <4>1
      <4>2. CASE ~ (m < c)
        <5>1. m \in c .. h - 1
          BY <1>1, <3>1, <4>2
        <5> QED BY <5>1 DEF QueuedAt
      <4> QED BY <4>1, <4>2
    <3> QED BY <1>2, <2>2, <3>2, <3>3 DEF Pair
  <2>3. CASE n > h
    <3>1. n \in h + 1 .. Len(s) + 1 /\ n - 1 \in l .. Len(s)
      BY <1>1, <1>2, <1>7, <2>3
    <3>2. /\ r[n].et = s[n - 1].et /\ r[n].pt = s[n - 1].pt /\ r[n].removed
          /\ r[n].rt = IF s[n - 1].removed THEN s[n - 1].rt ELSE step
      BY <1>2, <3>1
    <3>3. CASE m < h
      <4>1. m \in l .. Len(s) /\ m \in 1 .. h - 1 /\ m < n - 1
        BY <1>1, <1>2, <1>7, <2>3, <3>3
      <4>2. Pair(s[m], s[n - 1]) /\ r[m] = s[m]
        BY <1>2, <1>4, <3>1, <4>1
      <4> QED BY <3>2, <4>2 DEF Pair
    <3>4. CASE m = h
      <4>1. r[n].rt <= step
        BY <1>3, <1>6, <3>1, <3>2
      <4> QED BY <1>2, <3>2, <3>4, <4>1 DEF Pair
    <3>5. CASE m > h
      <4>1. m \in h + 1 .. Len(s) + 1 /\ m - 1 \in l .. Len(s) /\ m - 1 < n - 1
        BY <1>1, <1>2, <1>7, <3>5
      <4>2. Pair(s[m - 1], s[n - 1])
        BY <1>4, <3>1, <4>1
      <4>3. /\ r[m].et = s[m - 1].et /\ r[m].pt = s[m - 1].pt /\ r[m].removed
            /\ r[m].rt = IF s[m - 1].removed THEN s[m - 1].rt ELSE step
        BY <1>2, <4>1
      <4> QED BY <3>2, <4>2, <4>3 DEF Pair
    <3> QED BY <1>1, <1>2, <1>7, <3>3, <3>4, <3>5
  <2> QED BY <1>1, <1>2, <1>7, <2>1, <2>2, <2>3
<1> QED BY <1>7 DEF Ordered

\* It keeps the rest of the order too.
LEMMA QueuedGood ==
  ASSUME NEW s, NEW r, NEW c, NEW l, Links(s, c, l),
         NEW t \in Time, NEW step \in Time, step < t, NEW base \in Time,
         NEW h \in Nat, QueuedAt(s, r, c, t, step, h), Good(s, c, l, step, base)
  PROVE  Good(r, c, l, step, base)
<1>1. s \in Seq(Event) /\ c \in Nat /\ l \in Nat /\ 1 <= l /\ l <= c /\ c <= Len(s) + 1
  BY DEF Links
<1>2. /\ Len(s) \in Nat /\ 1 <= h /\ h <= Len(s) + 1 /\ c <= h /\ 1 <= c
      /\ Len(r) = Len(s) + 1
      /\ \A n \in 1 .. h - 1 : r[n] = s[n]
      /\ r[h].et = t /\ r[h].pt = step /\ ~ r[h].removed
      /\ \A n \in h + 1 .. Len(s) + 1 :
           /\ r[n].et = s[n - 1].et /\ r[n].pt = s[n - 1].pt /\ r[n].removed
           /\ r[n].rt = IF s[n - 1].removed THEN s[n - 1].rt ELSE step
  <2>1. 1 <= c
    BY <1>1
  <2>2. EntriesAre(s, r, c, t, step, h)
    BY <1>1, <2>1, QueuedEntries
  <2> QED BY <2>1, <2>2 DEF EntriesAre
<1>3. \A n \in l .. Len(s) :
        /\ s[n].pt <= step /\ (s[n].removed => s[n].rt <= step)
        /\ ~ s[n].removed => (n < c <=> s[n].et <= step)
  BY DEF Good, Dated
<1>4. step \in Nat /\ t \in Nat
  BY Numbers
<1>5. Ordered(r, l)
  BY QueuedOrdered DEF Good
<1>6. Dated(r, c, l, step)
  <2>1. ASSUME NEW n \in l .. Len(r)
        PROVE  /\ r[n].pt <= step /\ (r[n].removed => r[n].rt <= step)
               /\ ~ r[n].removed => (n < c <=> r[n].et <= step)
    <3>1. CASE n < h
      <4>1. n \in l .. Len(s) /\ n \in 1 .. h - 1
        BY <1>1, <1>2, <3>1
      <4> QED BY <1>2, <1>3, <4>1
    <3>2. CASE n = h
      BY <1>1, <1>2, <1>4, <3>2
    <3>3. CASE n > h
      <4>1. n \in h + 1 .. Len(s) + 1 /\ n - 1 \in l .. Len(s)
        BY <1>1, <1>2, <3>3
      <4>2. /\ r[n].pt = s[n - 1].pt /\ r[n].removed
            /\ r[n].rt = IF s[n - 1].removed THEN s[n - 1].rt ELSE step
        BY <1>2, <4>1
      <4>3. s[n - 1].pt <= step /\ (s[n - 1].removed => s[n - 1].rt <= step)
        BY <1>3, <4>1
      <4> QED BY <1>4, <4>2, <4>3
    <3> QED BY <1>1, <1>2, <3>1, <3>2, <3>3
  <2> QED BY <2>1 DEF Dated
<1>7. Witnessed(r, l, base)
  <2>1. ASSUME NEW m \in l .. Len(s) PROVE \E k \in l .. Len(r) : r[k].pt = s[m].pt
    <3>1. CASE m < h
      <4>1. m \in l .. Len(r) /\ m \in 1 .. h - 1
        BY <1>1, <1>2, <3>1
      <4> QED BY <1>2, <4>1
    <3>2. CASE m >= h
      <4>1. m + 1 \in l .. Len(r) /\ m + 1 \in h + 1 .. Len(s) + 1 /\ (m + 1) - 1 = m
        BY <1>1, <1>2, <3>2
      <4>2. r[m + 1].pt = s[(m + 1) - 1].pt
        BY <1>2, <4>1
      <4> QED BY <4>1, <4>2
    <3> QED BY <1>1, <3>1, <3>2
  <2>2. h \in l .. Len(r)
    BY <1>1, <1>2
  <2>3. ASSUME NEW n \in l .. Len(r), r[n].removed, r[n].rt > base
        PROVE  \E k \in l .. Len(r) : r[k].pt = r[n].rt
    <3>1. n # h
      BY <1>2, <2>3
    <3>2. ASSUME NEW m \in l .. Len(s), s[m].removed, r[n].rt = s[m].rt
          PROVE  \E k \in l .. Len(r) : r[k].pt = r[n].rt
      <4>1. PICK j \in l .. Len(s) : s[j].pt = s[m].rt
        BY <2>3, <3>2 DEF Good, Witnessed
      <4> QED BY <2>1, <3>2, <4>1
    <3>3. CASE n < h
      <4>1. n \in l .. Len(s) /\ n \in 1 .. h - 1
        BY <1>1, <1>2, <3>3
      <4> QED BY <1>2, <2>3, <3>2, <4>1
    <3>4. CASE n > h
      <4>1. n \in h + 1 .. Len(s) + 1 /\ n - 1 \in l .. Len(s)
        BY <1>1, <1>2, <3>4
      <4> QED BY <1>2, <2>2, <3>2, <4>1
    <3> QED BY <1>1, <1>2, <3>1, <3>3, <3>4
  <2> QED BY <2>3 DEF Witnessed
<1>8. HeadStands(r, c)
  <2>1. CASE c = h
    BY <1>2, <2>1 DEF HeadStands, NotRemoved
  <2>2. CASE c # h
    <3>1. c \in 1 .. h - 1 /\ c <= Len(s)
      BY <1>1, <1>2, <2>2
    <3> QED BY <1>2, <3>1 DEF Good, HeadStands
  <2> QED BY <2>1, <2>2
<1> QED BY <1>5, <1>6, <1>7, <1>8 DEF Good

\* With one delay, a post only removes events for its own time.
LEMMA QueuedSteady ==
  ASSUME NEW s, NEW r, NEW c, NEW l, Links(s, c, l),
         NEW t \in Time, NEW step \in Time, step < t,
         NEW h \in Nat, QueuedAt(s, r, c, t, step, h), Dated(s, c, l, step),
         NEW ds, Alike(ds), t - step \in ds, Steady(s, l, ds)
  PROVE  Steady(r, l, ds)
<1>1. s \in Seq(Event) /\ c \in Nat /\ l \in Nat /\ 1 <= l /\ l <= c /\ c <= Len(s) + 1
  BY DEF Links
<1>2. /\ Len(s) \in Nat /\ 1 <= h /\ h <= Len(s) + 1 /\ c <= h /\ 1 <= c
      /\ Len(r) = Len(s) + 1
      /\ \A n \in 1 .. h - 1 : r[n] = s[n]
      /\ r[h].et = t /\ r[h].pt = step /\ ~ r[h].removed
      /\ \A n \in h + 1 .. Len(s) + 1 :
           /\ r[n].et = s[n - 1].et /\ r[n].pt = s[n - 1].pt /\ r[n].removed
           /\ r[n].rt = IF s[n - 1].removed THEN s[n - 1].rt ELSE step
  <2>1. 1 <= c
    BY <1>1
  <2>2. EntriesAre(s, r, c, t, step, h)
    BY <1>1, <2>1, QueuedEntries
  <2> QED BY <2>1, <2>2 DEF EntriesAre
<1>3. step \in Nat /\ t \in Nat
  BY Numbers
<1>4. /\ \A n \in l .. Len(s) : s[n].et - s[n].pt \in ds
      /\ \A m, n \in l .. Len(s) : m < n => s[m].et <= s[n].et
      /\ \A n \in l .. Len(s) :
           s[n].removed => \E m \in l .. Len(s) : m < n /\ s[m].et = s[n].et
  BY DEF Steady
<1>5. \A n \in 1 .. Len(s) : s[n].et \in Nat /\ s[n].pt \in Nat
  BY <1>1, ElementOfSeq, EventFields
<1>6. ASSUME NEW n \in l .. Len(s) PROVE s[n].et <= t
  <2>1. s[n].et - s[n].pt = t - step
    BY <1>4 DEF Alike
  <2>2. s[n].pt <= step
    BY DEF Dated
  <2>3. s[n].et \in Nat /\ s[n].pt \in Nat
    BY <1>1, <1>2, <1>5
  <2> DEFINE e == s[n].et
             p == s[n].pt
  <2>4. e - p = t - step /\ p <= step /\ e \in Nat /\ p \in Nat
    BY <2>1, <2>2, <2>3
  <2> HIDE DEF e, p
  <2>5. e <= t
    BY <1>3, <2>4
  <2> QED BY <2>5 DEF e
<1>7. ASSUME NEW n \in h .. Len(s) PROVE s[n].et = t
  <2>1. n \in l .. Len(s) /\ h \in l .. Len(s) /\ h <= Len(s) /\ (h = n \/ h < n)
    BY <1>1, <1>2
  <2>2. t <= s[h].et /\ s[h].et <= s[n].et
    <3>1. t <= s[h].et
      BY <2>1 DEF QueuedAt
    <3>2. s[h].et \in Nat
      BY <1>1, <1>2, <1>5, <2>1
    <3> QED BY <1>4, <2>1, <3>1, <3>2
  <2>3. s[n].et <= t /\ s[n].et \in Nat /\ s[h].et \in Nat
    BY <1>1, <1>2, <1>5, <1>6, <2>1
  <2> QED BY <1>3, <2>2, <2>3
<1>8. ASSUME NEW n \in l .. Len(r)
      PROVE  /\ n < h => r[n] = s[n] /\ n \in l .. Len(s)
             /\ n >= h => r[n].et = t
             /\ r[n].et - r[n].pt \in ds
             /\ r[n].et <= t
  <2>1. CASE n < h
    <3>1. n \in l .. Len(s) /\ n \in 1 .. h - 1
      BY <1>1, <1>2, <2>1
    <3> QED BY <1>2, <1>4, <1>6, <2>1, <3>1
  <2>2. CASE n = h
    BY <1>2, <1>3, <2>2
  <2>3. CASE n > h
    <3>1. n \in h + 1 .. Len(s) + 1 /\ n - 1 \in l .. Len(s) /\ n - 1 \in h .. Len(s)
      BY <1>1, <1>2, <2>3
    <3>2. r[n].et = s[n - 1].et /\ r[n].pt = s[n - 1].pt /\ s[n - 1].et = t
      BY <1>2, <1>7, <3>1
    <3> QED BY <1>3, <1>4, <2>3, <3>1, <3>2
  <2> QED BY <1>1, <1>2, <2>1, <2>2, <2>3
<1>9. ASSUME NEW m \in l .. Len(r), NEW n \in l .. Len(r), m < n
      PROVE  r[m].et <= r[n].et
  <2>1. CASE n < h
    <3>1. m < h
      BY <1>1, <1>9, <2>1
    <3> QED BY <1>4, <1>8, <1>9, <2>1, <3>1
  <2>2. CASE n >= h
    BY <1>8, <2>2
  <2> QED BY <1>1, <1>2, <2>1, <2>2
<1>10. ASSUME NEW n \in l .. Len(r), r[n].removed
       PROVE  \E m \in l .. Len(r) : m < n /\ r[m].et = r[n].et
  <2>1. CASE n < h
    <3>1. PICK m \in l .. Len(s) : m < n /\ s[m].et = s[n].et
      BY <1>4, <1>8, <1>10, <2>1
    <3>2. m \in l .. Len(r) /\ m < h
      BY <1>1, <1>2, <2>1, <3>1
    <3> QED BY <1>8, <2>1, <3>1, <3>2
  <2>2. CASE n >= h
    <3>1. n # h
      BY <1>2, <1>10
    <3>2. h \in l .. Len(r) /\ h < n
      BY <1>1, <1>2, <2>2, <3>1
    <3> QED BY <1>8, <2>2, <3>2
  <2> QED BY <1>1, <1>2, <2>1, <2>2
<1> QED BY <1>8, <1>9, <1>10 DEF Steady

\* Event time moves on to a time before the next event.
LEMMA LaterGood ==
  ASSUME NEW s, NEW c, NEW l, Links(s, c, l), NEW step \in Time, NEW base \in Time,
         Good(s, c, l, step, base), NEW time \in Time, step <= time,
         c <= Len(s) => s[c].et > time
  PROVE  Good(s, c, l, time, base)
<1>1. /\ s \in Seq(Event) /\ c \in Nat /\ l \in Nat /\ 1 <= l /\ l <= c /\ c <= Len(s) + 1
      /\ Len(s) \in Nat /\ step \in Nat /\ time \in Nat
  BY Numbers, LenProperties DEF Links
<1>2. \A n \in 1 .. Len(s) : s[n].et \in Nat /\ s[n].pt \in Nat /\ s[n].rt \in Nat
  BY <1>1, ElementOfSeq, EventFields
<1>3. \A n \in l .. Len(s) :
        /\ s[n].pt <= step /\ (s[n].removed => s[n].rt <= step)
        /\ ~ s[n].removed => (n < c <=> s[n].et <= step)
  BY DEF Good, Dated
<1>4. ASSUME NEW n \in l .. Len(s), ~ s[n].removed, ~ (n < c) PROVE s[n].et > time
  <2>1. c \in l .. Len(s) /\ c <= Len(s) /\ (c = n \/ c < n)
    BY <1>1, <1>4
  <2>2. ~ s[c].removed
    BY <2>1 DEF Good, HeadStands, NotRemoved
  <2>3. c < n => s[c].et < s[n].et
    BY <1>4, <2>1, <2>2 DEF Good, Ordered, Pair
  <2>4. s[n].et \in Nat /\ s[c].et \in Nat /\ s[c].et > time
    BY <1>1, <1>2, <2>1
  <2> QED BY <1>1, <2>1, <2>3, <2>4
<1>5. ASSUME NEW n \in l .. Len(s)
      PROVE  /\ s[n].pt <= time /\ (s[n].removed => s[n].rt <= time)
             /\ ~ s[n].removed => (n < c <=> s[n].et <= time)
  <2>1. s[n].et \in Nat /\ s[n].pt \in Nat /\ s[n].rt \in Nat
    <3>1. n \in 1 .. Len(s)
      BY <1>1
    <3> QED BY <1>2, <3>1
  <2>2. ~ s[n].removed => (n < c <=> s[n].et <= time)
    BY <1>1, <1>3, <1>4, <2>1
  <2>3. s[n].pt <= step /\ (s[n].removed => s[n].rt <= step)
    BY <1>3
  <2>4. step <= time /\ step \in Nat /\ time \in Nat
    BY <1>1
  <2> QED BY <2>1, <2>2, <2>3, <2>4
<1>6. Dated(s, c, l, time)
  BY <1>5 DEF Dated
<1> QED BY <1>6 DEF Good

\* The position the next event that stands is at.
Following(s, c) == FirstOf(s, {n \in c + 1 .. Len(s) : NotRemoved(s[n])})

LEMMA FollowingIs ==
  ASSUME NEW s, NEW c, NEW l, Links(s, c, l), c <= Len(s), NEW d, d = Following(s, c)
  PROVE  /\ Links(s, d, l) /\ c < d
         /\ HeadStands(s, d)
         /\ \A n \in c + 1 .. d - 1 : s[n].removed
<1> DEFINE ns == {n \in c + 1 .. Len(s) : NotRemoved(s[n])}
<1>1. /\ s \in Seq(Event) /\ c \in Nat /\ l \in Nat /\ 1 <= l /\ l <= c /\ c <= Len(s)
      /\ Len(s) \in Nat
  BY LenProperties DEF Links
<1>2. Within(ns, Len(s)) /\ \A n \in ns : c < n /\ n <= Len(s)
  BY <1>1 DEF Within
<1>3. d = FirstOf(s, ns)
  BY DEF Following
<1>4. /\ \A n \in ns : NotRemoved(s[n])
      /\ \A n \in c + 1 .. Len(s) : NotRemoved(s[n]) => n \in ns
  OBVIOUS
<1> HIDE DEF ns
<1>5. /\ d \in ns \/ d = Len(s) + 1
      /\ d \in 1 .. Len(s) + 1
      /\ \A m \in ns : d <= m
  BY <1>1, <1>2, <1>3, FirstOfIs
<1>6. c < d /\ d \in Nat /\ d <= Len(s) + 1
  BY <1>1, <1>2, <1>5
<1>7. Links(s, d, l)
  BY <1>1, <1>6 DEF Links
<1>8. HeadStands(s, d)
  <2>1. CASE d \in ns
    BY <1>4, <2>1 DEF HeadStands
  <2>2. CASE d = Len(s) + 1
    BY <1>1, <2>2 DEF HeadStands
  <2> QED BY <1>5, <2>1, <2>2
<1>9. ASSUME NEW n \in c + 1 .. d - 1 PROVE s[n].removed
  <2>1. n \in c + 1 .. Len(s) /\ ~ (d <= n)
    BY <1>1, <1>6
  <2> QED BY <1>4, <1>5, <2>1 DEF NotRemoved
<1> QED BY <1>6, <1>7, <1>8, <1>9

\* An event is delivered and `current' moves on to the next that stands.
LEMMA DeliveredGood ==
  ASSUME NEW s, NEW c, NEW l, Links(s, c, l), NEW step \in Time, NEW base \in Time,
         Good(s, c, l, step, base), c <= Len(s),
         NEW time \in Time, s[c].et = time, NEW d, d = Following(s, c)
  PROVE  Good(s, d, l, time, base) /\ step < time
<1>1. /\ s \in Seq(Event) /\ c \in Nat /\ l \in Nat /\ 1 <= l /\ l <= c /\ c <= Len(s)
      /\ Len(s) \in Nat /\ step \in Nat /\ time \in Nat
  BY Numbers, LenProperties DEF Links
<1>2. \A n \in 1 .. Len(s) : s[n].et \in Nat /\ s[n].pt \in Nat /\ s[n].rt \in Nat
  BY <1>1, ElementOfSeq, EventFields
<1>3. \A n \in l .. Len(s) :
        /\ s[n].pt <= step /\ (s[n].removed => s[n].rt <= step)
        /\ ~ s[n].removed => (n < c <=> s[n].et <= step)
  BY DEF Good, Dated
<1>4. /\ c < d /\ d \in Nat /\ HeadStands(s, d)
      /\ \A n \in c + 1 .. d - 1 : s[n].removed
  BY FollowingIs DEF Links
<1>5. ~ s[c].removed /\ c \in l .. Len(s) /\ step < time
  <2>1. ~ s[c].removed
    BY DEF Good, HeadStands, NotRemoved
  <2>2. c \in l .. Len(s) /\ ~ (c < c)
    BY <1>1
  <2>3. ~ (s[c].et <= step)
    BY <1>3, <2>1, <2>2
  <2> QED BY <1>1, <2>1, <2>2, <2>3
<1>6. ASSUME NEW n \in l .. Len(s), ~ s[n].removed PROVE n < d <=> s[n].et <= time
  <2>1. s[n].et \in Nat
    BY <1>1, <1>2
  <2>2. CASE n < c
    <3>1. s[n].et <= step /\ n < d
      BY <1>1, <1>3, <1>4, <1>6, <2>2
    <3> QED BY <1>1, <1>5, <2>1, <3>1
  <2>3. CASE n = c
    BY <1>1, <1>4, <2>3
  <2>4. CASE c < n
    <3>1. s[c].et < s[n].et
      BY <1>5, <1>6, <2>4 DEF Good, Ordered, Pair
    <3>2. ~ (n < d)
      <4>1. n < d => n \in c + 1 .. d - 1
        BY <1>1, <1>4, <2>4
      <4> QED BY <1>4, <1>6, <4>1
    <3> QED BY <1>1, <2>1, <3>1, <3>2
  <2> QED BY <1>1, <2>2, <2>3, <2>4
<1>7. ASSUME NEW n \in l .. Len(s)
      PROVE  s[n].pt <= time /\ (s[n].removed => s[n].rt <= time)
  <2>1. s[n].pt \in Nat /\ s[n].rt \in Nat
    BY <1>1, <1>2
  <2> QED BY <1>1, <1>3, <1>5, <2>1
<1>8. Dated(s, d, l, time)
  BY <1>6, <1>7 DEF Dated
<1> QED BY <1>4, <1>5, <1>8 DEF Good

\* What EVTaccept frees of a list, and `current' in what is left.
Freed(s, c, time) ==
  LET stop == FirstOf(s, {n \in 1 .. Len(s) : s[n].et >= time})
  IN IF c - 1 >= 1 /\ c - 1 < stop THEN c - 1 - 1 ELSE stop - 1

Moved(s, c, n) ==
  IF c = 1 \/ n = Len(s) THEN 1 ELSE IF n < c - 1 THEN c - n ELSE 0

\* Nothing from the owner of `current' on is freed, so the link stays good.
LEMMA FreedIs ==
  ASSUME NEW s, NEW c, NEW l, Links(s, c, l), NEW time \in Time,
         c <= Len(s) => s[c].et > time
  PROVE  /\ Freed(s, c, time) \in Nat /\ Freed(s, c, time) < c
         /\ Moved(s, c, Freed(s, c, time)) = c - Freed(s, c, time)
<1> DEFINE ns == {n \in 1 .. Len(s) : s[n].et >= time}
           stop == FirstOf(s, ns)
           k == Freed(s, c, time)
<1>1. /\ s \in Seq(Event) /\ c \in Nat /\ 1 <= c /\ c <= Len(s) + 1
      /\ Len(s) \in Nat /\ time \in Nat
  BY Numbers, LenProperties DEF Links
<1>2. k = IF c - 1 >= 1 /\ c - 1 < stop THEN c - 1 - 1 ELSE stop - 1
  BY DEF Freed
<1>3. Within(ns, Len(s)) /\ (1 <= Len(s) /\ s[1].et >= time => 1 \in ns)
  BY <1>1 DEF Within
<1> HIDE DEF ns
<1>4. stop \in 1 .. Len(s) + 1 /\ \A m \in ns : stop <= m
  BY <1>1, <1>3, FirstOfIs
<1> HIDE DEF stop, k
<1>5. CASE c = 1
  <2>1. stop = 1
    <3>1. CASE Len(s) = 0
      BY <1>4, <3>1
    <3>2. CASE Len(s) # 0
      <4>1. 1 <= Len(s) /\ s[1].et \in Nat
        BY <1>1, <3>2, ElementOfSeq, EventFields
      <4>2. 1 \in ns
        BY <1>1, <1>3, <1>5, <4>1
      <4> QED BY <1>4, <4>2
    <3> QED BY <3>1, <3>2
  <2>2. k = 0
    BY <1>2, <1>5, <2>1
  <2> QED BY <1>1, <1>5, <2>2 DEF Moved, k
<1>6. CASE c # 1
  <2>1. k \in Nat /\ k <= c - 2
    BY <1>1, <1>2, <1>4, <1>6
  <2>2. k # Len(s) /\ k < c - 1
    BY <1>1, <2>1
  <2>3. Moved(s, c, k) = c - k
    BY <1>6, <2>2 DEF Moved
  <2> QED BY <1>1, <2>1, <2>3 DEF k
<1> QED BY <1>5, <1>6

\* r is s without its first k entries.
Suffix(s, r, k) ==
  /\ r \in Seq(Event) /\ Len(r) = Len(s) - k
  /\ \A n \in 1 .. Len(s) - k : r[n] = s[n + k]

LEMMA SuffixIs ==
  ASSUME NEW s \in Seq(Event), NEW k \in Nat, k <= Len(s)
  PROVE  Suffix(s, SubSeq(s, k + 1, Len(s)), k)
<1> DEFINE r == SubSeq(s, k + 1, Len(s))
<1>1. Len(s) \in Nat /\ \A n \in 1 .. Len(s) : s[n] \in Event
  BY LenProperties, ElementOfSeq
<1>2. /\ r \in Seq(Event)
      /\ Len(r) = IF k + 1 <= Len(s) THEN Len(s) - (k + 1) + 1 ELSE 0
      /\ \A n \in 1 .. Len(s) - (k + 1) + 1 : r[n] = s[(k + 1) + n - 1]
  BY <1>1, SubSeqProperties
<1> HIDE DEF r
<1>3. Len(r) = Len(s) - k
  BY <1>1, <1>2
<1>4. ASSUME NEW n \in 1 .. Len(s) - k PROVE r[n] = s[n + k]
  <2>1. n \in 1 .. Len(s) - (k + 1) + 1 /\ (k + 1) + n - 1 = n + k
    BY <1>1
  <2> QED BY <1>2, <2>1
<1>5. Suffix(s, r, k)
  BY <1>2, <1>3, <1>4 DEF Suffix
<1> QED BY <1>5 DEF r

\* The accepted list, with both links at what is still to come.
LEMMA AcceptedLinks ==
  ASSUME NEW s, NEW c, NEW l, Links(s, c, l), NEW k \in Nat, k < c,
         NEW r, Suffix(s, r, k), NEW d, d = c - k
  PROVE  /\ Links(r, d, d)
         /\ PostedAhead(s) => PostedAhead(r)
         /\ d <= Len(r) <=> c <= Len(s)
         /\ c <= Len(s) => r[d] = s[c]
<1>1. /\ s \in Seq(Event) /\ c \in Nat /\ 1 <= c /\ c <= Len(s) + 1 /\ Len(s) \in Nat
  BY LenProperties DEF Links
<1>2. k <= Len(s) /\ d \in Nat /\ 1 <= d /\ d + k = c /\ d - 1 + k < c
  BY <1>1
<1>3. /\ r \in Seq(Event) /\ Len(r) = Len(s) - k
      /\ \A n \in 1 .. Len(s) - k : r[n] = s[n + k]
  BY DEF Suffix
<1>0. Len(r) = Len(s) - k /\ r \in Seq(Event)
  BY <1>3
<1>4. Links(r, d, d) /\ (d <= Len(r) <=> c <= Len(s))
  <2>1. (d <= Len(r) <=> c <= Len(s)) /\ d <= Len(r) + 1
    BY <1>0, <1>1, <1>2
  <2> QED BY <1>0, <1>2, <2>1 DEF Links
<1>5. ASSUME c <= Len(s) PROVE r[d] = s[c]
  <2>1. d \in 1 .. Len(s) - k
    BY <1>1, <1>2, <1>5
  <2>2. r[d] = s[d + k]
    BY <1>3, <2>1
  <2> QED BY <1>2, <2>2
<1>6. ASSUME PostedAhead(s), NEW n \in 1 .. Len(r) PROVE r[n].et > r[n].pt
  <2>1. n + k \in 1 .. Len(s) /\ n \in 1 .. Len(s) - k
    BY <1>0, <1>1, <1>2
  <2>2. r[n] = s[n + k]
    BY <1>3, <2>1
  <2> QED BY <1>6, <2>1, <2>2 DEF PostedAhead
<1> QED BY <1>4, <1>5, <1>6 DEF PostedAhead

LEMMA AcceptedGood ==
  ASSUME NEW s, NEW c, NEW l, Links(s, c, l), NEW k \in Nat, k < c,
         NEW r, Suffix(s, r, k), NEW d, d = c - k,
         NEW step \in Time, NEW base, Good(s, c, l, step, base)
  PROVE  /\ Good(r, d, d, step, step) /\ Idle(r, d, d, step)
         /\ \A ds : Steady(s, l, ds) => Steady(r, d, ds)
<1>1. /\ s \in Seq(Event) /\ c \in Nat /\ l \in Nat /\ 1 <= l /\ l <= c /\ c <= Len(s) + 1
      /\ Len(s) \in Nat /\ step \in Nat
  BY Numbers, LenProperties DEF Links
<1>2. k <= Len(s) /\ d \in Nat /\ 1 <= d /\ d + k = c /\ d - 1 + k < c
  BY <1>1
<1>3. /\ r \in Seq(Event) /\ Len(r) = Len(s) - k
      /\ \A n \in 1 .. Len(s) - k : r[n] = s[n + k]
  BY DEF Suffix
<1>0. Len(r) = Len(s) - k
  BY <1>3
<1>4. ASSUME NEW n \in d .. Len(r)
      PROVE  /\ n + k \in l .. Len(s) /\ n + k \in c .. Len(s) /\ r[n] = s[n + k]
             /\ s[n + k].et \in Nat /\ s[n + k].pt \in Nat /\ s[n + k].rt \in Nat
  <2>1. n \in 1 .. Len(s) - k /\ n + k \in l .. Len(s) /\ n + k \in c .. Len(s)
        /\ n + k \in 1 .. Len(s)
    BY <1>0, <1>1, <1>2
  <2>2. s[n + k] \in Event
    BY <1>1, <2>1, ElementOfSeq
  <2>3. r[n] = s[n + k]
    BY <1>3, <2>1
  <2> QED BY <2>1, <2>2, <2>3, EventFields
<1>5. Ordered(r, d)
  <2>1. ASSUME NEW m \in d .. Len(r), NEW n \in d .. Len(r), m < n PROVE Pair(r[m], r[n])
    <3>1. m + k < n + k
      BY <1>0, <1>1, <1>2, <2>1
    <3>2. /\ m + k \in l .. Len(s) /\ n + k \in l .. Len(s)
          /\ r[m] = s[m + k] /\ r[n] = s[n + k]
      BY <1>4
    <3> QED BY <3>1, <3>2 DEF Good, Ordered
  <2> QED BY <2>1 DEF Ordered
<1>6. ASSUME NEW n \in d .. Len(r)
      PROVE  /\ r[n].pt <= step /\ (r[n].removed => r[n].rt <= step)
             /\ ~ r[n].removed => (n < d <=> r[n].et <= step)
  <2>1. /\ s[n + k].pt <= step /\ (s[n + k].removed => s[n + k].rt <= step)
        /\ ~ s[n + k].removed => (n + k < c <=> s[n + k].et <= step)
    <3>1. n + k \in l .. Len(s)
      BY <1>4
    <3> QED BY <3>1 DEF Good, Dated
  <2>2. n + k < c <=> n < d
    BY <1>0, <1>1, <1>2
  <2>3. r[n] = s[n + k]
    BY <1>4
  <2> QED BY <2>1, <2>2, <2>3
<1>7. Dated(r, d, d, step) /\ Idle(r, d, d, step)
  BY <1>6 DEF Dated, Idle
<1>8. Witnessed(r, d, step)
  <2>1. ASSUME NEW n \in d .. Len(r), r[n].removed PROVE ~ (r[n].rt > step)
    <3>1. r[n].rt <= step
      BY <1>6, <2>1
    <3>2. r[n].rt \in Nat
      BY <1>4
    <3> QED BY <1>1, <3>1, <3>2
  <2> QED BY <2>1 DEF Witnessed
<1>9. HeadStands(r, d)
  <2>1. (d <= Len(r) <=> c <= Len(s)) /\ (c <= Len(s) => r[d] = s[c])
    BY AcceptedLinks
  <2> QED BY <2>1 DEF Good, HeadStands
<1>10. ASSUME NEW ds, Steady(s, l, ds) PROVE Steady(r, d, ds)
  <2>1. /\ \A n \in l .. Len(s) : s[n].et - s[n].pt \in ds
        /\ \A m, n \in l .. Len(s) : m < n => s[m].et <= s[n].et
        /\ \A n \in l .. Len(s) :
             s[n].removed => \E m \in l .. Len(s) : m < n /\ s[m].et = s[n].et
    BY <1>10 DEF Steady
  <2>2. ASSUME NEW n \in d .. Len(r), r[n].removed
        PROVE  \E m \in d .. Len(r) : m < n /\ r[m].et = r[n].et
    <3>1. PICK j \in l .. Len(s) : j < n + k /\ s[j].et = s[n + k].et
      BY <1>4, <2>1, <2>2
    <3>2. s[j].et \in Nat
      BY <1>1, <3>1, ElementOfSeq, EventFields
    <3>3. CASE c <= j
      <4>1. j - k \in d .. Len(r) /\ (j - k) + k = j /\ j - k < n
        BY <1>0, <1>1, <1>2, <3>1, <3>3
      <4>2. r[j - k] = s[j] /\ r[n] = s[n + k]
        BY <1>4, <4>1
      <4> QED BY <3>1, <4>1, <4>2
    <3>4. CASE j < c
      <4>1. c <= Len(s) /\ c \in l .. Len(s) /\ c <= n + k /\ d \in d .. Len(r)
        BY <1>0, <1>1, <1>2
      <4>2. ~ s[c].removed /\ r[d] = s[c] /\ s[c].et \in Nat
        <5>1. r[d] = s[d + k] /\ s[d + k].et \in Nat
          BY <1>4, <4>1
        <5> QED BY <1>2, <4>1, <5>1 DEF Good, HeadStands, NotRemoved
      <4>3. c # n + k
        BY <1>4, <2>2, <4>2
      <4>4. s[j].et <= s[c].et /\ s[c].et <= s[n + k].et
        <5>1. c < n + k
          BY <1>1, <1>2, <4>1, <4>3
        <5>2. n + k \in l .. Len(s)
          BY <1>4
        <5> QED BY <2>1, <3>1, <3>4, <4>1, <5>1, <5>2
      <4>5. d < n
        BY <1>1, <1>2, <4>1, <4>3
      <4>6. s[n + k].et \in Nat
        BY <1>4
      <4>7. s[c].et = s[n + k].et
        <5> DEFINE p == s[j].et
                   q == s[c].et
                   e == s[n + k].et
        <5>1. p = e /\ p <= q /\ q <= e /\ p \in Nat /\ q \in Nat /\ e \in Nat
          BY <3>1, <3>2, <4>2, <4>4, <4>6
        <5> HIDE DEF p, q, e
        <5> QED
          <6>1. q = e
            BY <5>1
          <6> QED BY <6>1 DEF q, e
      <4>8. r[n].et = s[n + k].et
        BY <1>4
      <4> QED BY <4>1, <4>2, <4>5, <4>7, <4>8
    <3> QED BY <1>1, <3>3, <3>4
  <2>3. ASSUME NEW m \in d .. Len(r), NEW n \in d .. Len(r), m < n
        PROVE  r[m].et <= r[n].et
    <3>1. m + k < n + k
      BY <1>0, <1>1, <1>2, <2>3
    <3>2. /\ m + k \in l .. Len(s) /\ n + k \in l .. Len(s)
          /\ r[m] = s[m + k] /\ r[n] = s[n + k]
      BY <1>4
    <3> QED BY <2>1, <3>1, <3>2
  <2>4. \A n \in d .. Len(r) : r[n].et - r[n].pt \in ds
    BY <1>4, <2>1
  <2> QED BY <2>2, <2>3, <2>4 DEF Steady
<1> QED BY <1>5, <1>7, <1>8, <1>9, <1>10 DEF Good

\* What EVTbackup's first scan makes of an entry that it keeps.
Undo(e, time) ==
  IF e.removed /\ e.rt > time THEN [e EXCEPT !.removed = FALSE, !.rt = 0] ELSE e

LEMMA UndoIs ==
  ASSUME NEW e \in Event, NEW time \in Time
  PROVE  /\ Undo(e, time) \in Event
         /\ Undo(e, time).et = e.et /\ Undo(e, time).pt = e.pt
         /\ Undo(e, time).removed <=> e.removed /\ ~ (e.rt > time)
         /\ Undo(e, time).removed => Undo(e, time).rt = e.rt
BY Numbers DEF Undo, Event

Kept(s, l, time) == At(s, {n \in l .. Len(s) : s[n].pt <= time})

Scanned(s, l, time) ==
  SubSeq(s, 1, l - 1)
    \o [n \in 1 .. Len(Kept(s, l, time)) |-> Undo(Kept(s, l, time)[n], time)]

\* r is s after that scan, and f[n] is where its entry n was.
ScannedBy(s, r, l, time, f) ==
  /\ r \in Seq(Event) /\ l <= Len(r) + 1
  /\ \A n \in 1 .. l - 1 : r[n] = s[n]
  /\ \A n \in l .. Len(r) :
       f[n] \in l .. Len(s) /\ s[f[n]].pt <= time /\ r[n] = Undo(s[f[n]], time)
  /\ \A m, n \in l .. Len(r) : m < n => f[m] < f[n]
  /\ \A k \in l .. Len(s) : s[k].pt <= time => \E n \in l .. Len(r) : f[n] = k

LEMMA ScannedIs ==
  ASSUME NEW s, NEW c, NEW l, Links(s, c, l), NEW time \in Time
  PROVE  \E f : ScannedBy(s, Scanned(s, l, time), l, time, f)
<1> DEFINE ks == {n \in l .. Len(s) : s[n].pt <= time}
           K == Cardinality(ks)
           kept == Kept(s, l, time)
           before == SubSeq(s, 1, l - 1)
           after == [n \in 1 .. Len(kept) |-> Undo(kept[n], time)]
           r == Scanned(s, l, time)
           f == [n \in l .. Len(r) |-> Nth(ks, n - l + 1)]
<1>1. /\ s \in Seq(Event) /\ l \in Nat /\ 1 <= l /\ l <= Len(s) + 1 /\ Len(s) \in Nat
      /\ \A n \in 1 .. Len(s) : s[n] \in Event
  <2>1. s \in Seq(Event) /\ Len(s) \in Nat /\ \A n \in 1 .. Len(s) : s[n] \in Event
    BY LenProperties, ElementOfSeq DEF Links
  <2> QED BY <2>1 DEF Links
<1>2. /\ Within(ks, Len(s))
      /\ \A k \in ks : k \in l .. Len(s) /\ s[k].pt <= time /\ s[k] \in Event
      /\ \A k \in l .. Len(s) : s[k].pt <= time => k \in ks
  BY <1>1 DEF Within
<1>3. kept = [n \in 1 .. K |-> s[Nth(ks, n)]]
  BY DEF Kept, At
<1>4. r = before \o after
  BY DEF Scanned
<1> HIDE DEF ks, kept, r
<1>5. /\ K \in Nat
      /\ \A n \in 1 .. K : Nth(ks, n) \in ks
      /\ \A m, n \in 1 .. K : m < n => Nth(ks, m) < Nth(ks, n)
      /\ \A k \in ks : \E n \in 1 .. K : Nth(ks, n) = k
  BY <1>1, <1>2, NthOrder
<1> HIDE DEF K
<1>6. kept \in [1 .. K -> Event]
  BY <1>2, <1>3, <1>5
<1>7. Len(kept) = K
  BY <1>5, <1>6, FunctionIsSeq
<1>8. /\ after \in [1 .. K -> Event]
      /\ \A n \in 1 .. K : after[n] = Undo(s[Nth(ks, n)], time)
  <2>1. ASSUME NEW n \in 1 .. K
        PROVE  Undo(kept[n], time) \in Event /\ kept[n] = s[Nth(ks, n)]
    <3>1. kept[n] \in Event /\ kept[n] = s[Nth(ks, n)]
      BY <1>3, <1>6
    <3> QED BY <3>1, UndoIs
  <2> QED BY <1>7, <2>1
<1> HIDE DEF after
<1>9. after \in Seq(Event) /\ Len(after) = K
  BY <1>5, <1>8, FunctionIsSeq
<1>10. /\ before \in Seq(Event) /\ Len(before) = l - 1
       /\ \A n \in 1 .. l - 1 : before[n] = s[n]
  BY <1>1, SubSeqProperties
<1> HIDE DEF before
<1>11. /\ r \in Seq(Event) /\ Len(r) = l - 1 + K
       /\ \A n \in 1 .. l - 1 : r[n] = s[n]
       /\ \A n \in l .. l - 1 + K : r[n] = after[n - l + 1]
  <2>1. /\ r \in Seq(Event) /\ Len(r) = Len(before) + Len(after)
        /\ \A n \in 1 .. Len(before) + Len(after) :
             r[n] = IF n <= Len(before) THEN before[n] ELSE after[n - Len(before)]
    BY <1>4, <1>9, <1>10, ConcatProperties
  <2>2. Len(r) = l - 1 + K
    BY <1>9, <1>10, <2>1
  <2>3. ASSUME NEW n \in 1 .. l - 1 PROVE r[n] = s[n]
    <3>1. n \in 1 .. l - 1 + K /\ n <= l - 1
      BY <1>1, <1>5
    <3> QED BY <1>9, <1>10, <2>1, <3>1
  <2>4. ASSUME NEW n \in l .. l - 1 + K PROVE r[n] = after[n - l + 1]
    <3>1. n \in 1 .. l - 1 + K /\ ~ (n <= l - 1) /\ n - (l - 1) = n - l + 1
      BY <1>1, <1>5
    <3> QED BY <1>9, <1>10, <2>1, <3>1
  <2> QED BY <2>1, <2>2, <2>3, <2>4
<1>12. ASSUME NEW n \in l .. Len(r)
       PROVE  /\ n - l + 1 \in 1 .. K /\ f[n] = Nth(ks, n - l + 1)
              /\ f[n] \in l .. Len(s) /\ s[f[n]].pt <= time /\ r[n] = Undo(s[f[n]], time)
  <2>1. n - l + 1 \in 1 .. K /\ n \in l .. l - 1 + K
    BY <1>1, <1>5, <1>11
  <2>2. f[n] = Nth(ks, n - l + 1)
    OBVIOUS
  <2> QED BY <1>2, <1>5, <1>8, <1>11, <2>1, <2>2
<1>13. ASSUME NEW m \in l .. Len(r), NEW n \in l .. Len(r), m < n PROVE f[m] < f[n]
  <2>1. m - l + 1 < n - l + 1
    BY <1>1, <1>13
  <2> QED BY <1>5, <1>12, <2>1
<1>14. ASSUME NEW k \in l .. Len(s), s[k].pt <= time PROVE \E n \in l .. Len(r) : f[n] = k
  <2>1. PICK n \in 1 .. K : Nth(ks, n) = k
    BY <1>2, <1>5, <1>14
  <2>2. n + l - 1 \in l .. Len(r) /\ (n + l - 1) - l + 1 = n
    BY <1>1, <1>5, <1>11
  <2> QED BY <1>12, <2>1, <2>2
<1> HIDE DEF f
<1>15. l <= Len(r) + 1
  BY <1>1, <1>5, <1>11
<1>16. ScannedBy(s, r, l, time, f)
  BY <1>11, <1>12, <1>13, <1>14, <1>15 DEF ScannedBy
<1> QED BY <1>16 DEF r

\* Each entry after the scan, and the old one it comes from.
LEMMA ScannedEntries ==
  ASSUME NEW s, NEW c, NEW l, Links(s, c, l), NEW time \in Time,
         NEW r, NEW f, ScannedBy(s, r, l, time, f)
  PROVE  /\ Len(s) \in Nat /\ Len(r) \in Nat /\ l \in Nat /\ 1 <= l /\ l <= Len(r) + 1
         /\ r \in Seq(Event)
         /\ \A n \in l .. Len(r) :
              /\ f[n] \in l .. Len(s)
              /\ r[n].et = s[f[n]].et /\ r[n].pt = s[f[n]].pt /\ r[n].pt <= time
              /\ r[n].removed <=> s[f[n]].removed /\ s[f[n]].rt <= time
              /\ r[n].removed => r[n].rt = s[f[n]].rt
              /\ r[n].et \in Nat /\ r[n].pt \in Nat /\ r[n].rt \in Nat
         /\ \A m, n \in l .. Len(r) : m < n => f[m] < f[n]
         /\ \A k \in l .. Len(s) : s[k].pt <= time => \E n \in l .. Len(r) : f[n] = k
<1>1. /\ s \in Seq(Event) /\ l \in Nat /\ 1 <= l /\ Len(s) \in Nat
      /\ \A n \in 1 .. Len(s) : s[n] \in Event
  <2>1. s \in Seq(Event) /\ Len(s) \in Nat /\ \A n \in 1 .. Len(s) : s[n] \in Event
    BY LenProperties, ElementOfSeq DEF Links
  <2> QED BY <2>1 DEF Links
<1>2. /\ r \in Seq(Event) /\ l <= Len(r) + 1
      /\ \A n \in l .. Len(r) :
           f[n] \in l .. Len(s) /\ s[f[n]].pt <= time /\ r[n] = Undo(s[f[n]], time)
      /\ \A m, n \in l .. Len(r) : m < n => f[m] < f[n]
      /\ \A k \in l .. Len(s) : s[k].pt <= time => \E n \in l .. Len(r) : f[n] = k
  BY DEF ScannedBy
<1>3. Len(r) \in Nat
  BY <1>2, LenProperties
<1>4. ASSUME NEW n \in l .. Len(r)
      PROVE  /\ r[n].et = s[f[n]].et /\ r[n].pt = s[f[n]].pt /\ r[n].pt <= time
             /\ r[n].removed <=> s[f[n]].removed /\ s[f[n]].rt <= time
             /\ r[n].removed => r[n].rt = s[f[n]].rt
             /\ r[n].et \in Nat /\ r[n].pt \in Nat /\ r[n].rt \in Nat
  <2>1. f[n] \in 1 .. Len(s)
    BY <1>1, <1>2
  <2> DEFINE e == s[f[n]]
  <2>2. e \in Event /\ e.pt <= time /\ r[n] = Undo(e, time)
    BY <1>1, <1>2, <2>1
  <2>3. e.rt \in Nat /\ time \in Nat
    BY <2>2, EventFields, Numbers
  <2> HIDE DEF e
  <2>4. r[n] \in Event
    BY <2>2, UndoIs
  <2>5. /\ r[n].et = e.et /\ r[n].pt = e.pt /\ r[n].pt <= time
        /\ r[n].removed <=> e.removed /\ e.rt <= time
        /\ r[n].removed => r[n].rt = e.rt
    BY <2>2, <2>3, UndoIs
  <2> QED BY <2>4, <2>5, EventFields DEF e
<1> QED BY <1>1, <1>2, <1>3, <1>4

\* Where the second scan leaves `current'.
Sought(r, l, time) == FirstOf(r, {n \in l .. Len(r) : r[n].et > time})

LEMMA SoughtIs ==
  ASSUME NEW r \in Seq(Event), NEW l \in Nat, 1 <= l, l <= Len(r) + 1, NEW time \in Time
  PROVE  /\ Links(r, Sought(r, l, time), l)
         /\ \A n \in l .. Len(r) : n < Sought(r, l, time) => r[n].et <= time
         /\ Sought(r, l, time) <= Len(r) => r[Sought(r, l, time)].et > time
<1> DEFINE ns == {n \in l .. Len(r) : r[n].et > time}
           d == Sought(r, l, time)
<1>1. Len(r) \in Nat /\ time \in Nat /\ \A n \in 1 .. Len(r) : r[n].et \in Nat
  BY Numbers, LenProperties, ElementOfSeq, EventFields
<1>2. Within(ns, Len(r)) /\ \A n \in ns : l <= n /\ r[n].et > time
  BY <1>1 DEF Within
<1>3. \A n \in l .. Len(r) : n \notin ns => r[n].et <= time
  BY <1>1
<1>4. d = FirstOf(r, ns)
  BY DEF Sought
<1> HIDE DEF ns, d
<1>5. /\ d \in ns \/ d = Len(r) + 1
      /\ d \in 1 .. Len(r) + 1
      /\ \A m \in ns : d <= m
  BY <1>1, <1>2, <1>4, FirstOfIs
<1>6. d \in Nat /\ l <= d /\ d <= Len(r) + 1
  BY <1>1, <1>2, <1>5
<1>7. Links(r, d, l)
  BY <1>6 DEF Links
<1>8. ASSUME NEW n \in l .. Len(r), n < d PROVE r[n].et <= time
  <2>1. ~ (d <= n)
    BY <1>6, <1>8
  <2> QED BY <1>3, <1>5, <2>1
<1>9. d <= Len(r) => r[d].et > time
  <2>1. d = Len(r) + 1 => ~ (d <= Len(r))
    BY <1>1
  <2> QED BY <1>2, <1>5, <2>1
<1> QED BY <1>7, <1>8, <1>9 DEF d

\* After a backup that leaves `current' at an event that stands, what is on the
\* list is in order again at the earlier time.
LEMMA BackGood ==
  ASSUME NEW s, NEW c, NEW l, Links(s, c, l), NEW step \in Time, NEW base \in Time,
         Good(s, c, l, step, base), NEW time \in Time,
         NEW r, NEW f, ScannedBy(s, r, l, time, f),
         NEW d, d = Sought(r, l, time), HeadStands(r, d)
  PROVE  Good(r, d, l, time, base)
<1>1. /\ Len(s) \in Nat /\ Len(r) \in Nat /\ l \in Nat /\ 1 <= l /\ l <= Len(r) + 1
      /\ r \in Seq(Event)
      /\ \A n \in l .. Len(r) :
           /\ f[n] \in l .. Len(s)
           /\ r[n].et = s[f[n]].et /\ r[n].pt = s[f[n]].pt /\ r[n].pt <= time
           /\ r[n].removed <=> s[f[n]].removed /\ s[f[n]].rt <= time
           /\ r[n].removed => r[n].rt = s[f[n]].rt
           /\ r[n].et \in Nat /\ r[n].pt \in Nat /\ r[n].rt \in Nat
      /\ \A m, n \in l .. Len(r) : m < n => f[m] < f[n]
      /\ \A k \in l .. Len(s) : s[k].pt <= time => \E n \in l .. Len(r) : f[n] = k
  BY ScannedEntries
<1>2. /\ Links(r, d, l)
      /\ \A n \in l .. Len(r) : n < d => r[n].et <= time
      /\ d <= Len(r) => r[d].et > time
  BY <1>1, SoughtIs
<1>3. \A m, n \in l .. Len(s) : m < n => Pair(s[m], s[n])
  BY DEF Good, Ordered
<1>4. time \in Nat /\ d \in Nat /\ l <= d
  BY <1>2, Numbers DEF Links
<1>5. ASSUME NEW m \in l .. Len(r), NEW n \in l .. Len(r), m < n
      PROVE  Pair(r[m], r[n])
  <2>1. Pair(s[f[m]], s[f[n]])
    BY <1>1, <1>3, <1>5
  <2> DEFINE e == s[f[m]]
             g == s[f[n]]
  <2>2. /\ r[m].et = e.et /\ r[m].pt = e.pt /\ r[m].pt <= time
        /\ r[m].removed <=> e.removed /\ e.rt <= time
        /\ r[m].removed => r[m].rt = e.rt
        /\ r[n].et = g.et /\ r[n].pt = g.pt /\ r[n].pt <= time
        /\ r[n].removed <=> g.removed /\ g.rt <= time
        /\ r[n].removed => r[n].rt = g.rt
        /\ r[m].pt \in Nat /\ r[n].pt \in Nat
    BY <1>1
  <2>3. e.rt \in Nat /\ g.rt \in Nat
    <3>1. s \in Seq(Event) /\ f[m] \in 1 .. Len(s) /\ f[n] \in 1 .. Len(s)
      BY <1>1 DEF Links
    <3> QED BY <3>1, ElementOfSeq, EventFields
  <2> HIDE DEF e, g
  <2>4. Pair(e, g)
    BY <2>1 DEF e, g
  <2>5. CASE e.et < g.et
    BY <2>2, <2>5 DEF Pair
  <2>6. CASE e.removed /\ e.rt <= g.pt
    <3>1. e.rt <= time
      BY <1>4, <2>2, <2>3, <2>6
    <3> QED BY <2>2, <2>6, <3>1 DEF Pair
  <2>7. CASE g.removed /\ g.rt <= e.pt
    <3>1. g.rt <= time
      BY <1>4, <2>2, <2>3, <2>7
    <3> QED BY <2>2, <2>7, <3>1 DEF Pair
  <2> QED BY <2>4, <2>5, <2>6, <2>7 DEF Pair
<1>6. Ordered(r, l)
  BY <1>5 DEF Ordered
<1>7. ASSUME NEW n \in l .. Len(r)
      PROVE  /\ r[n].pt <= time /\ (r[n].removed => r[n].rt <= time)
             /\ ~ r[n].removed => (n < d <=> r[n].et <= time)
  <2>1. ASSUME ~ r[n].removed, ~ (n < d) PROVE r[n].et > time
    <3>1. d <= n /\ d <= Len(r) /\ d \in l .. Len(r)
      BY <1>1, <1>4, <2>1
    <3>2. ~ r[d].removed
      BY <3>1 DEF HeadStands, NotRemoved
    <3>3. CASE d < n
      <4>1. r[d].et < r[n].et
        BY <1>5, <2>1, <3>1, <3>2, <3>3 DEF Pair
      <4>2. r[d].et \in Nat /\ r[n].et \in Nat
        BY <1>1, <3>1
      <4> QED BY <1>2, <1>4, <3>1, <4>1, <4>2
    <3>4. CASE d = n
      BY <1>2, <3>1, <3>4
    <3>5. d < n \/ d = n
      <4>1. d \in Nat /\ n \in Nat
        BY <1>1, <1>4
      <4> QED BY <3>1, <4>1
    <3> QED BY <3>3, <3>4, <3>5
  <2>2. r[n].pt <= time /\ (r[n].removed => r[n].rt <= time)
    BY <1>1
  <2>3. r[n].et \in Nat /\ (n < d => r[n].et <= time)
    BY <1>1, <1>2
  <2>4. ~ r[n].removed => (n < d <=> r[n].et <= time)
    BY <1>4, <2>1, <2>3
  <2> QED BY <2>2, <2>4
<1>8. Dated(r, d, l, time)
  BY <1>7 DEF Dated
<1>9. Witnessed(r, l, base)
  <2>1. ASSUME NEW n \in l .. Len(r), r[n].removed, r[n].rt > base
        PROVE  \E m \in l .. Len(r) : r[m].pt = r[n].rt
    <3>1. f[n] \in l .. Len(s) /\ s[f[n]].removed /\ s[f[n]].rt > base /\ r[n].rt = s[f[n]].rt
      BY <1>1, <2>1
    <3>2. PICK k \in l .. Len(s) : s[k].pt = s[f[n]].rt
      BY <3>1 DEF Good, Witnessed
    <3>3. s[k].pt <= time
      BY <1>1, <2>1, <3>2
    <3>4. PICK m \in l .. Len(r) : f[m] = k
      BY <1>1, <3>3
    <3> QED BY <1>1, <3>1, <3>2, <3>4
  <2> QED BY <2>1 DEF Witnessed
<1> QED BY <1>6, <1>8, <1>9 DEF Good

\* With one delay nothing removed is left before an event that stands.
LEMMA BackSteady ==
  ASSUME NEW s, NEW c, NEW l, Links(s, c, l), NEW time \in Time,
         NEW r, NEW f, ScannedBy(s, r, l, time, f),
         NEW d, d = Sought(r, l, time), NEW ds, Alike(ds), Steady(s, l, ds)
  PROVE  Steady(r, l, ds) /\ HeadStands(r, d)
<1>1. /\ Len(s) \in Nat /\ Len(r) \in Nat /\ l \in Nat /\ 1 <= l /\ l <= Len(r) + 1
      /\ r \in Seq(Event)
      /\ \A n \in l .. Len(r) :
           /\ f[n] \in l .. Len(s)
           /\ r[n].et = s[f[n]].et /\ r[n].pt = s[f[n]].pt /\ r[n].pt <= time
           /\ r[n].removed <=> s[f[n]].removed /\ s[f[n]].rt <= time
           /\ r[n].removed => r[n].rt = s[f[n]].rt
           /\ r[n].et \in Nat /\ r[n].pt \in Nat /\ r[n].rt \in Nat
      /\ \A m, n \in l .. Len(r) : m < n => f[m] < f[n]
      /\ \A k \in l .. Len(s) : s[k].pt <= time => \E n \in l .. Len(r) : f[n] = k
  BY ScannedEntries
<1>2. /\ d \in Nat /\ l <= d
      /\ \A n \in l .. Len(r) : n < d => r[n].et <= time
      /\ d <= Len(r) => r[d].et > time
  BY <1>1, SoughtIs DEF Links
<1>3. /\ \A n \in l .. Len(s) : s[n].et - s[n].pt \in ds
      /\ \A m, n \in l .. Len(s) : m < n => s[m].et <= s[n].et
      /\ \A n \in l .. Len(s) :
           s[n].removed => \E m \in l .. Len(s) : m < n /\ s[m].et = s[n].et
  BY DEF Steady
<1>4. ASSUME NEW n \in l .. Len(r), r[n].removed
      PROVE  \E m \in l .. Len(r) : m < n /\ r[m].et = r[n].et
  <2>1. PICK k \in l .. Len(s) : k < f[n] /\ s[k].et = s[f[n]].et
    BY <1>1, <1>3, <1>4
  <2>2. s[k].pt = s[f[n]].pt
    <3>1. s[k].et - s[k].pt = s[f[n]].et - s[f[n]].pt
      BY <1>1, <1>3, <2>1 DEF Alike
    <3>2. s \in Seq(Event) /\ k \in 1 .. Len(s) /\ f[n] \in 1 .. Len(s)
      BY <1>1 DEF Links
    <3>3. s[k].et \in Nat /\ s[k].pt \in Nat /\ s[f[n]].pt \in Nat
      BY <3>2, ElementOfSeq, EventFields
    <3> DEFINE e == s[k].et
               p == s[k].pt
               g == s[f[n]].et
               q == s[f[n]].pt
    <3>4. e - p = g - q /\ e = g /\ e \in Nat /\ p \in Nat /\ q \in Nat
      BY <2>1, <3>1, <3>3
    <3> HIDE DEF e, p, g, q
    <3>5. p = q
      BY <3>4
    <3> QED BY <3>5 DEF p, q
  <2>3. s[k].pt <= time
    BY <1>1, <2>2
  <2>4. PICK m \in l .. Len(r) : f[m] = k
    BY <1>1, <2>3
  <2>5. m < n
    <3>1. m \in Nat /\ n \in Nat /\ k \in Nat /\ f[n] \in Nat
      BY <1>1
    <3>2. CASE n < m
      <4>1. f[n] < k
        BY <1>1, <2>4, <3>2
      <4> QED BY <2>1, <3>1, <4>1
    <3>3. CASE n = m
      BY <2>1, <2>4, <3>1, <3>3
    <3> QED BY <3>1, <3>2, <3>3
  <2> QED BY <1>1, <2>1, <2>4, <2>5
<1>5. ASSUME NEW m \in l .. Len(r), NEW n \in l .. Len(r), m < n PROVE r[m].et <= r[n].et
  <2>1. /\ f[m] \in l .. Len(s) /\ f[n] \in l .. Len(s) /\ f[m] < f[n]
        /\ r[m].et = s[f[m]].et /\ r[n].et = s[f[n]].et
    BY <1>1, <1>5
  <2>2. s[f[m]].et <= s[f[n]].et
    BY <1>3, <2>1
  <2> QED BY <2>1, <2>2
<1>6. \A n \in l .. Len(r) : r[n].et - r[n].pt \in ds
  BY <1>1, <1>3
<1>7. HeadStands(r, d)
  <2>1. ASSUME d <= Len(r), r[d].removed PROVE FALSE
    <3>1. d \in l .. Len(r)
      BY <1>1, <1>2, <2>1
    <3>2. PICK m \in l .. Len(r) : m < d /\ r[m].et = r[d].et
      BY <1>4, <2>1, <3>1
    <3>3. r[d].et <= time /\ r[d].et > time /\ r[d].et \in Nat /\ time \in Nat
      BY <1>1, <1>2, <2>1, <3>1, <3>2, Numbers
    <3> QED BY <3>3
  <2> QED BY <2>1 DEF HeadStands, NotRemoved
<1> QED BY <1>4, <1>5, <1>6, <1>7 DEF Steady

\* A list left alone since the last accepted timepoint is in order at any time
\* since then.
LEMMA IdleGood ==
  ASSUME NEW s, NEW c, NEW l, Links(s, c, l), NEW step \in Time, NEW base \in Time,
         Good(s, c, l, step, base), Idle(s, c, l, base),
         NEW time \in Time, base <= time, time <= step
  PROVE  Good(s, c, l, time, base)
<1>1. /\ s \in Seq(Event) /\ Len(s) \in Nat /\ l \in Nat /\ 1 <= l /\ c = l
      /\ step \in Nat /\ base \in Nat /\ time \in Nat
  BY Numbers, LenProperties DEF Links, Idle
<1>2. ASSUME NEW n \in l .. Len(s)
      PROVE  /\ s[n].pt <= time /\ (s[n].removed => s[n].rt <= time)
             /\ ~ s[n].removed => (n < c <=> s[n].et <= time)
  <2>1. /\ s[n].pt <= base /\ (s[n].removed => s[n].rt <= step)
        /\ ~ s[n].removed => (n < c <=> s[n].et <= step)
    BY DEF Good, Dated, Idle
  <2>2. s[n].et \in Nat /\ s[n].pt \in Nat /\ s[n].rt \in Nat
    <3>1. n \in 1 .. Len(s)
      BY <1>1
    <3> QED BY <1>1, <3>1, ElementOfSeq, EventFields
  <2>3. ASSUME s[n].removed PROVE s[n].rt <= base
    <3>1. s[n].rt > base => \E m \in l .. Len(s) : s[m].pt = s[n].rt
      BY <2>3 DEF Good, Witnessed
    <3>2. \A m \in l .. Len(s) : s[m].pt <= base
      BY DEF Idle
    <3>3. \A m \in l .. Len(s) : s[m].pt = s[n].rt => ~ (s[n].rt > base)
      BY <1>1, <2>2, <3>2
    <3> QED BY <1>1, <2>2, <3>1, <3>3
  <2>4. ~ (n < c)
    BY <1>1
  <2> QED BY <1>1, <2>1, <2>2, <2>3, <2>4
<1>3. Dated(s, c, l, time)
  BY <1>2 DEF Dated
<1> QED BY <1>3 DEF Good

-----------------------------------------------------------------------------
(* What the actions do to the lists of all outputs.                         *)

LEMMA MinTimeIs ==
  ASSUME NEW ts, \A t \in ts : t \in Nat
  PROVE  /\ ts # {} => MinTime(ts) \in ts /\ \A t \in ts : MinTime(ts) <= t
         /\ \A x \in ts : (\A t \in ts : x <= t) => MinTime(ts) = x
<1>1. ASSUME ts # {} PROVE MinTime(ts) \in ts /\ \A t \in ts : MinTime(ts) <= t
  <2>1. ts \subseteq Nat /\ \E t : t \in ts
    BY <1>1
  <2>2. PICK x \in ts : \A t \in ts : x <= t
    BY <2>1, LeastNumber
  <2> QED BY <1>1, <2>2 DEF MinTime
<1>2. ASSUME NEW x \in ts, \A t \in ts : x <= t PROVE MinTime(ts) = x
  <2>1. MinTime(ts) \in ts /\ MinTime(ts) <= x /\ x <= MinTime(ts)
    BY <1>1, <1>2
  <2> QED BY <2>1
<1> QED BY <1>1, <1>2

\* The times of the events at `current'.
Heads == {list[o][current[o]].et : o \in pending}

LEMMA StateIs ==
  ASSUME QueueInv
  PROVE  /\ \A o \in Outputs : Links(list[o], current[o], last_step[o])
         /\ \A o \in Outputs : current[o] <= Len(list[o]) => list[o][current[o]].et \in Time
         /\ \A o \in Outputs : o \in pending <=> current[o] <= Len(list[o])
         /\ pending # {} => next_time \in Time
         /\ \A o \in pending : next_time <= list[o][current[o]].et
         /\ pending # {} => \E o \in pending : next_time = list[o][current[o]].et
         /\ pending \subseteq Outputs
         /\ evt_step \in Nat /\ target \in Nat /\ last_time \in Nat
<1>1. ASSUME NEW o \in Outputs
      PROVE  /\ Links(list[o], current[o], last_step[o])
             /\ current[o] <= Len(list[o]) => list[o][current[o]].et \in Time
  <2> DEFINE s == list[o]
             c == current[o]
             l == last_step[o]
  <2>1. s \in Seq(Event) /\ c \in 1 .. Len(s) + 1 /\ l \in 1 .. c
    BY DEF QueueInv, TypeOK
  <2> HIDE DEF s, c, l
  <2>2. Links(s, c, l)
    BY <2>1, LenProperties DEF Links
  <2>3. c <= Len(s) => s[c].et \in Time
    BY <2>1, LenProperties, ElementOfSeq, EventFields
  <2> QED BY <2>2, <2>3 DEF s, c, l
<1>2. /\ \A o \in Outputs : o \in pending <=> current[o] <= Len(list[o])
      /\ pending # {} => next_time = MinTime(Heads)
      /\ pending \subseteq Outputs
      /\ evt_step \in Nat /\ target \in Nat /\ last_time \in Nat
  BY Numbers DEF QueueInv, TypeOK, NextTimeExact, Heads
<1>3. \A t \in Heads : t \in Nat /\ t \in Time
  BY <1>1, <1>2, Numbers DEF Heads
<1>4. ASSUME pending # {} PROVE next_time \in Heads /\ \A t \in Heads : next_time <= t
  <2>1. Heads # {}
    BY <1>4 DEF Heads
  <2> QED BY <1>2, <1>3, <1>4, <2>1, MinTimeIs
<1>5. \A o \in pending : next_time <= list[o][current[o]].et
  BY <1>4 DEF Heads
<1>6. pending # {} =>
        /\ next_time \in Time
        /\ \E o \in pending : next_time = list[o][current[o]].et
  BY <1>3, <1>4 DEF Heads
<1> QED BY <1>1, <1>2, <1>5, <1>6

LEMMA PostLists ==
  ASSUME QueueInv, NEW o \in Outputs, NEW delay \in Delays[o], Post(o, delay)
  PROVE  /\ evt_step + delay \in Time /\ evt_step < evt_step + delay
         /\ \E h \in Nat :
              QueuedAt(list[o], list'[o], current[o], evt_step + delay, evt_step, h)
         /\ \A p \in Outputs : p # o => list'[p] = list[p]
         /\ list' \in [Outputs -> Seq(Event)]
<1> DEFINE s == list[o]
           c == current[o]
           t == evt_step + delay
<1>1. delay \in Nat /\ delay >= 1 /\ evt_step \in Nat /\ t <= MaxTime
  <2>1. delay \in 1 .. MaxTime /\ evt_step \in Nat
    BY StateIs, OutputAssumption
  <2> QED BY <2>1, OutputAssumption DEF Post
<1>2. t \in Time /\ evt_step < t /\ evt_step \in Time
  BY <1>1, OutputAssumption DEF Time
<1>3. /\ list \in [Outputs -> Seq(Event)]
      /\ list' = [list EXCEPT ![o] = Queued(s, c, t, evt_step)]
  BY DEF QueueInv, TypeOK, Post, EVTqueue_output, Queued, Inserted, NewEvent
<1>4. list'[o] = Queued(s, c, t, evt_step) /\ \A p \in Outputs : p # o => list'[p] = list[p]
  BY <1>3
<1>5. s \in Seq(Event) /\ c \in Nat /\ 1 <= c /\ c <= Len(s) + 1
  <2>1. Links(list[o], current[o], last_step[o])
    BY StateIs
  <2> QED BY <2>1 DEF Links
<1> HIDE DEF s, c, t
<1>6. PICK h \in Nat : QueuedAt(s, Queued(s, c, t, evt_step), c, t, evt_step, h)
  BY <1>2, <1>5, QueuedIs
<1>7. Queued(s, c, t, evt_step) \in Seq(Event)
  BY <1>6 DEF QueuedAt
<1> QED BY <1>2, <1>3, <1>4, <1>6, <1>7 DEF s, c, t

\* In a round of the event loop the outputs that are due deliver; the next
\* event of any other is later.
LEMMA RoundLists ==
  ASSUME QueueInv, NEW time \in Time, EventRound(time), NEW o \in Outputs
  PROVE  /\ list' = list /\ last_step' = last_step
         /\ \/ /\ current'[o] = current[o]
               /\ current[o] <= Len(list[o]) => list[o][current[o]].et > time
               /\ o \in modified' <=> o \in modified
               /\ o \notin changed'
            \/ /\ current[o] <= Len(list[o]) /\ list[o][current[o]].et = time
               /\ current'[o] = Following(list[o], current[o])
               /\ o \in modified' /\ o \in changed'
         /\ NextTimeExact'
<1>0. time \in Nat /\ changed = {}
  BY Numbers DEF EventRound, QueueInv, RoundShape
<1>1. /\ o \in pending <=> current[o] <= Len(list[o])
      /\ current[o] <= Len(list[o]) => list[o][current[o]].et \in Nat
      /\ o \in pending => next_time <= list[o][current[o]].et
      /\ pending # {} => next_time \in Nat
  BY StateIs, Numbers
<1>2. CASE pending = {} \/ next_time # time
  <2>1. UNCHANGED <<queue, changed>>
    BY <1>2 DEF EventRound, EVTdequeue_output
  <2>2. pending # {} => time < next_time
    BY <1>2 DEF EventRound
  <2>3. current[o] <= Len(list[o]) => list[o][current[o]].et > time
    <3> DEFINE e == list[o][current[o]].et
    <3>1. o \in pending => next_time <= e /\ time < next_time /\ e \in Nat /\ next_time \in Nat
      BY <1>1, <2>2
    <3> HIDE DEF e
    <3>2. o \in pending => e > time
      BY <1>0, <3>1
    <3> QED BY <1>1, <3>2 DEF e
  <2>4. NextTimeExact'
    <3>1. NextTimeExact
      BY DEF QueueInv
    <3> QED BY <2>1, <3>1 DEF NextTimeExact, queue
  <2> QED BY <1>0, <2>1, <2>3, <2>4 DEF queue
<1>3. CASE ~ (pending = {} \/ next_time # time)
  <2>1. EVTdequeue_output(time)
    BY DEF EventRound
  <2>2. /\ changed' = changed \cup Due(time)
        /\ current' = [p \in Outputs |->
                         IF p \in Due(time) THEN Following(list[p], current[p]) ELSE current[p]]
        /\ modified' = modified \cup Due(time)
        /\ UNCHANGED <<list, last_step, last_time>>
        /\ Compact(pending)
    BY <1>3, <2>1 DEF EVTdequeue_output, Following
  <2>3. /\ list' = list /\ last_step' = last_step
        /\ o \in Due(time) => /\ current'[o] = Following(list[o], current[o])
                             /\ o \in modified' /\ o \in changed'
        /\ o \notin Due(time) => current'[o] = current[o]
    BY <2>2
  <2>4. NextTimeExact'
    <3>1. ASSUME NEW p \in Outputs PROVE p \in pending' <=> current'[p] <= Len(list'[p])
      <4>1. p \notin pending => current'[p] = current[p] /\ ~ (current[p] <= Len(list[p]))
        BY <2>2, StateIs DEF Due
      <4>2. pending' = {q \in pending : current'[q] <= Len(list'[q])} /\ list' = list
        BY <2>2 DEF Compact
      <4> QED BY <4>1, <4>2
    <3>2. next_time' = MinTime({list'[p][current'[p]].et : p \in pending'})
      BY <2>2 DEF Compact
    <3> QED BY <3>1, <3>2 DEF NextTimeExact
  <2>5. CASE o \in Due(time)
    <3>1. current[o] <= Len(list[o]) /\ list[o][current[o]].et = time
      BY <2>5 DEF Due
    <3> QED BY <2>3, <2>4, <2>5, <3>1
  <2>6. CASE o \notin Due(time)
    <3> DEFINE e == list[o][current[o]].et
    <3>1. o \in pending => e # time
      BY <1>1, <2>6 DEF Due
    <3>2. o \in pending => next_time <= e /\ e \in Nat
      BY <1>1
    <3>3. time = next_time
      BY <1>3
    <3> HIDE DEF e
    <3>4. o \in pending => e > time
      BY <1>0, <3>1, <3>2, <3>3
    <3>5. current[o] <= Len(list[o]) => e > time
      BY <1>1, <3>4
    <3>6. current'[o] = current[o] /\ o \notin changed' /\ (o \in modified' <=> o \in modified)
      BY <1>0, <2>2, <2>6
    <3> QED BY <2>3, <2>4, <3>5, <3>6 DEF e
  <2> QED BY <2>5, <2>6
<1> QED BY <1>2, <1>3

\* EVTaccept frees the delivered part of the lists of modified outputs.
LEMMA AcceptLists ==
  ASSUME QueueInv, EVTaccept, NEW o \in Outputs
  PROVE  \/ /\ o \notin modified
            /\ list'[o] = list[o] /\ current'[o] = current[o] /\ last_step'[o] = last_step[o]
         \/ /\ o \in modified
            /\ \E k \in Nat : /\ k < current[o] /\ Suffix(list[o], list'[o], k)
                              /\ current'[o] = current[o] - k
                              /\ last_step'[o] = current[o] - k
<1>1. /\ list'[o] = IF o \in modified
                    THEN SubSeq(list[o], Stale(o, target) + 1, Len(list[o])) ELSE list[o]
      /\ current'[o] = IF o \in modified THEN Shifted(o, Stale(o, target)) ELSE current[o]
      /\ last_step'[o] = IF o \in modified THEN current'[o] ELSE last_step[o]
  BY DEF EVTaccept
<1>2. CASE o \notin modified
  BY <1>1, <1>2
<1>3. CASE o \in modified
  <2> DEFINE s == list[o]
             c == current[o]
             l == last_step[o]
             k == Freed(s, c, target)
  <2>1. Stale(o, target) = k
    BY DEF Stale, Freed
  <2>2. Shifted(o, k) = Moved(s, c, k)
    BY DEF Shifted, Moved
  <2>3. /\ list'[o] = SubSeq(s, k + 1, Len(s))
        /\ current'[o] = Moved(s, c, k) /\ last_step'[o] = Moved(s, c, k)
    BY <1>1, <1>3, <2>1, <2>2
  <2>4. Links(s, c, l)
    BY StateIs
  <2>5. c <= Len(s) => s[c].et > target
    BY DEF QueueInv, SolveAhead, EVTaccept
  <2>6. target \in Time
    BY DEF QueueInv, TypeOK
  <2> HIDE DEF s, c, l
  <2>7. k \in Nat /\ k < c /\ Moved(s, c, k) = c - k
    BY <2>4, <2>5, <2>6, FreedIs
  <2> HIDE DEF k
  <2>8. Suffix(s, list'[o], k)
    <3>1. s \in Seq(Event) /\ k <= Len(s)
      BY <2>4, <2>7, LenProperties DEF Links
    <3> QED BY <2>3, <2>7, <3>1, SuffixIs
  <2> QED BY <1>3, <2>3, <2>7, <2>8 DEF s, c
<1> QED BY <1>2, <1>3

\* EVTbackup_output_queue scans the lists of modified outputs.
LEMMA BackLists ==
  ASSUME QueueInv, NEW time \in Time, Backup(time), NEW o \in Outputs
  PROVE  /\ last_step'[o] = last_step[o]
         /\ \/ /\ o \notin modified /\ o \notin modified'
               /\ list'[o] = list[o] /\ current'[o] = current[o]
            \/ /\ o \in modified
               /\ \E f : ScannedBy(list[o], list'[o], last_step[o], time, f)
               /\ current'[o] = Sought(list'[o], last_step[o], time)
               /\ o \notin modified' =>
                    \/ ~ (last_step[o] <= Len(list'[o]))
                    \/ /\ current'[o] = last_step[o]
                       /\ \A n \in last_step[o] .. Len(list'[o]) :
                            ~ (list'[o][n].pt > last_time)
<1>1. EVTbackup_output_queue(time)
  BY DEF Backup
<1>2. /\ list'[o] = IF o \in modified THEN ScanBack(o, time) ELSE list[o]
      /\ current'[o] = IF o \in modified THEN SeekBack(o, time) ELSE current[o]
      /\ modified' = {p \in modified : StillModified(p)}
      /\ last_step' = last_step
  BY <1>1 DEF EVTbackup_output_queue
<1>3. CASE o \notin modified
  BY <1>2, <1>3
<1>4. CASE o \in modified
  <2> DEFINE s == list[o]
             l == last_step[o]
  <2>1. ScanBack(o, time) = Scanned(s, l, time)
    BY DEF ScanBack, Scanned, Kept, Undo
  <2>2. SeekBack(o, time) = Sought(list'[o], l, time)
    BY DEF SeekBack, Sought
  <2>3. Links(s, current[o], l)
    BY StateIs
  <2> HIDE DEF s, l
  <2>4. \E f : ScannedBy(s, Scanned(s, l, time), l, time, f)
    BY <2>3, ScannedIs
  <2>5. list'[o] = Scanned(s, l, time) /\ current'[o] = Sought(list'[o], l, time)
    BY <1>2, <1>4, <2>1, <2>2
  <2>6. o \notin modified' => ~ StillModified(o)
    BY <1>2, <1>4
  <2> QED BY <1>2, <1>4, <2>4, <2>5, <2>6 DEF s, l, StillModified
<1> QED BY <1>3, <1>4

-----------------------------------------------------------------------------
(* QueueInv is inductive.                                                   *)

Sound(s, c, l) == Links(s, c, l) /\ PostedAhead(s)

LEMMA QueueInvAfter ==
  ASSUME list' \in [Outputs -> Seq(Event)],
         \A o \in Outputs : Sound(list'[o], current'[o], last_step'[o]),
         modified' \subseteq Outputs, changed' \subseteq Outputs, pending' \subseteq Outputs,
         NextTimeExact', pending' = {} => next_time' \in Time \cup {Infinity},
         last_time' \in Time, evt_step' \in Time, target' \in Time,
         phase' \in {"loop", "iter", "solve", "accepted"},
         SolveAhead', phase' = "solve" => evt_step' = target',
         phase' # "iter" => changed' = {}
  PROVE  QueueInv'
<1>1. ASSUME NEW o \in Outputs
      PROVE  /\ current'[o] \in 1 .. Len(list'[o]) + 1
             /\ last_step'[o] \in 1 .. current'[o]
             /\ current'[o] <= Len(list'[o]) => list'[o][current'[o]].et \in Time
  <2> DEFINE s == list'[o]
             c == current'[o]
             l == last_step'[o]
  <2>1. s \in Seq(Event) /\ Links(s, c, l)
    BY DEF Sound
  <2> HIDE DEF s, c, l
  <2>2. Len(s) \in Nat /\ c \in 1 .. Len(s) + 1 /\ l \in 1 .. c
    BY <2>1, LenProperties DEF Links
  <2>3. c <= Len(s) => s[c].et \in Time
    BY <2>1, <2>2, ElementOfSeq, EventFields
  <2> QED BY <2>2, <2>3 DEF s, c, l
<1>2. next_time' \in Time \cup {Infinity}
  <2>1. CASE pending' = {}
    BY <2>1
  <2>2. CASE pending' # {}
    <3> DEFINE hs == {list'[o][current'[o]].et : o \in pending'}
    <3>1. (\A t \in hs : t \in Time) /\ next_time' = MinTime(hs) /\ hs # {}
      BY <1>1, <2>2 DEF NextTimeExact
    <3> HIDE DEF hs
    <3>2. MinTime(hs) \in hs
      BY <3>1, Numbers, MinTimeIs
    <3> QED BY <3>1, <3>2
  <2> QED BY <2>1, <2>2
<1>3. TypeOK'
  BY <1>1, <1>2 DEF TypeOK
<1>4. RoundShape'
  BY DEF RoundShape, Sound
<1> QED BY <1>3, <1>4 DEF QueueInv

LEMMA SoundNow ==
  ASSUME QueueInv
  PROVE  \A o \in Outputs : Sound(list[o], current[o], last_step[o])
BY StateIs DEF QueueInv, RoundShape, Sound

\* A step that leaves the queue alone and does not start a solution.
LEMMA ControlQueue ==
  ASSUME QueueInv, UNCHANGED queue, changed' \subseteq Outputs,
         evt_step' \in Time, target' \in Time,
         phase' \in {"loop", "iter", "accepted"},
         phase' # "iter" => changed' = {}
  PROVE  QueueInv'
<1>1. \A o \in Outputs : Sound(list'[o], current'[o], last_step'[o])
  BY SoundNow DEF queue
<1>2. /\ list' \in [Outputs -> Seq(Event)] /\ modified' \subseteq Outputs
      /\ pending' \subseteq Outputs /\ last_time' \in Time
      /\ next_time' \in Time \cup {Infinity}
  BY DEF QueueInv, TypeOK, queue
<1>3. NextTimeExact'
  BY DEF QueueInv, NextTimeExact, queue
<1>4. SolveAhead'
  BY DEF SolveAhead
<1> QED BY <1>1, <1>2, <1>3, <1>4, QueueInvAfter

LEMMA PostQueue ==
  ASSUME QueueInv, NEW o \in Outputs, NEW delay \in Delays[o], Post(o, delay)
  PROVE  QueueInv'
<1> DEFINE t == evt_step + delay
           head(p) == list[p][current[p]].et
           after(p) == list'[p][current[p]].et
<1>1. /\ t \in Time /\ evt_step < t /\ evt_step \in Time
      /\ \A p \in Outputs : p # o => list'[p] = list[p]
      /\ list' \in [Outputs -> Seq(Event)]
  BY PostLists DEF QueueInv, TypeOK
<1>0. t \in Time /\ evt_step < t /\ evt_step \in Time
  BY <1>1
<1>2. /\ next_time' = IF pending = {} \/ t < next_time THEN t ELSE next_time
      /\ modified' = modified \cup {o}
      /\ pending' = pending \cup {o}
      /\ UNCHANGED <<current, last_step, last_time, changed, evt_step, target, phase>>
  BY DEF Post, EVTqueue_output
<1>3. /\ Sound(list'[o], current[o], last_step[o])
      /\ current[o] <= Len(list'[o])
      /\ after(o) = IF current[o] <= Len(list[o]) /\ head(o) < t THEN head(o) ELSE t
  <2> DEFINE s == list[o]
             r == list'[o]
             c == current[o]
             l == last_step[o]
  <2>1. PICK h \in Nat : QueuedAt(s, r, c, t, evt_step, h)
    BY PostLists
  <2>2. Links(s, c, l) /\ PostedAhead(s)
    BY SoundNow DEF Sound
  <2> HIDE DEF t, s, r, c, l
  <2>3. /\ Links(r, c, l)
        /\ PostedAhead(s) => PostedAhead(r)
        /\ c <= Len(r)
        /\ r[c].et = IF c <= Len(s) /\ s[c].et < t THEN s[c].et ELSE t
    BY <1>0, <2>1, <2>2, QueuedLinks
  <2>4. Sound(r, c, l)
    BY <2>2, <2>3 DEF Sound
  <2> QED BY <2>3, <2>4, Zenon DEF s, r, c, l
<1> HIDE DEF t
<1>4. /\ \A p \in Outputs : p \in pending <=> current[p] <= Len(list[p])
      /\ \A p \in pending : p \in Outputs /\ head(p) \in Nat /\ next_time <= head(p)
      /\ pending # {} => next_time \in Nat /\ \E p \in pending : next_time = head(p)
      /\ t \in Nat
  BY <1>1, StateIs, Numbers
<1>5. \A p \in pending : p # o => after(p) = head(p)
  BY <1>1, <1>4
<1>6. o \in pending <=> current[o] <= Len(list[o])
  BY <1>4
<1> HIDE DEF head, after
<1>13. after(o) = IF o \in pending /\ head(o) < t THEN head(o) ELSE t
  BY <1>3, <1>6
<1>7. ASSUME NEW p \in pending' PROVE after(p) \in Nat /\ next_time' <= after(p)
  <2>1. CASE p # o
    <3>1. p \in pending /\ after(p) = head(p)
      BY <1>2, <1>5, <1>7, <2>1
    <3>2. head(p) \in Nat /\ next_time <= head(p) /\ next_time \in Nat /\ pending # {}
      BY <1>4, <3>1
    <3> QED BY <1>2, <1>4, <3>1, <3>2
  <2>2. CASE p = o /\ o \in pending
    <3>1. head(o) \in Nat /\ next_time <= head(o) /\ next_time \in Nat /\ pending # {}
      BY <1>4, <2>2
    <3> QED BY <1>2, <1>4, <1>13, <2>2, <3>1
  <2>3. CASE p = o /\ o \notin pending
    <3>1. after(p) = t
      BY <1>13, <2>3
    <3>2. pending # {} => next_time \in Nat
      BY <1>4
    <3> QED BY <1>2, <1>4, <3>1, <3>2
  <2> QED BY <2>1, <2>2, <2>3
<1>8. \E p \in pending' : next_time' = after(p)
  <2>1. CASE pending = {} \/ t < next_time
    <3>1. after(o) = t
      <4>1. o \in pending => next_time \in Nat /\ head(o) \in Nat /\ next_time <= head(o)
        BY <1>4
      <4> QED BY <1>4, <1>13, <2>1, <4>1
    <3> QED BY <1>2, <2>1, <3>1
  <2>2. CASE ~ (pending = {} \/ t < next_time)
    <3>1. PICK p \in pending : next_time = head(p)
      BY <1>4, <2>2
    <3>2. next_time \in Nat /\ next_time <= t /\ next_time' = next_time
      BY <1>2, <1>4, <2>2
    <3>3. after(p) = next_time
      BY <1>4, <1>5, <1>13, <3>1, <3>2
    <3> QED BY <1>2, <3>2, <3>3
  <2> QED BY <2>1, <2>2
<1>9. NextTimeExact'
  <2>1. ASSUME NEW p \in Outputs PROVE p \in pending' <=> current'[p] <= Len(list'[p])
    BY <1>1, <1>2, <1>3, <1>4
  <2> DEFINE ts == {after(p) : p \in pending'}
  <2>2. /\ \A u \in ts : u \in Nat /\ next_time' <= u
        /\ next_time' \in ts
    BY <1>7, <1>8
  <2> HIDE DEF ts
  <2>3. next_time' = MinTime(ts)
    BY <2>2, MinTimeIs
  <2>4. ts = {list'[p][current'[p]].et : p \in pending'}
    BY <1>2 DEF ts, after
  <2> QED BY <2>1, <2>3, <2>4 DEF NextTimeExact
<1>10. SolveAhead'
  <2>1. ASSUME phase = "solve", NEW p \in Outputs, current[p] <= Len(list'[p])
        PROVE  after(p) > target
    <3>1. current[p] <= Len(list[p]) => head(p) > target
      BY <2>1 DEF QueueInv, SolveAhead, head
    <3>2. CASE p # o
      <4>1. p \in pending
        BY <1>1, <1>4, <2>1, <3>2
      <4> QED BY <1>1, <1>4, <1>5, <2>1, <3>1, <3>2, <4>1
    <3>3. CASE p = o
      <4>1. t > target
        BY <1>1, <2>1 DEF QueueInv, RoundShape
      <4> QED BY <1>3, <3>1, <3>3, <4>1 DEF after, head
    <3> QED BY <3>2, <3>3
  <2> QED BY <1>2, <2>1 DEF SolveAhead, after
<1>11. \A p \in Outputs : Sound(list'[p], current'[p], last_step'[p])
  <2>1. \A p \in Outputs : Sound(list[p], current[p], last_step[p])
    BY SoundNow
  <2> QED BY <1>1, <1>2, <1>3, <2>1
<1>12. /\ modified' \subseteq Outputs /\ changed' \subseteq Outputs /\ pending' \subseteq Outputs
       /\ last_time' \in Time /\ evt_step' \in Time /\ target' \in Time
       /\ phase' \in {"loop", "iter", "solve", "accepted"}
       /\ pending' # {}
       /\ phase' = "solve" => evt_step' = target'
       /\ phase' # "iter" => changed' = {}
  BY <1>2 DEF QueueInv, TypeOK, RoundShape
<1> QED BY <1>1, <1>9, <1>10, <1>11, <1>12, QueueInvAfter

LEMMA CompactIs ==
  ASSUME NEW os, os \subseteq Outputs, Compact(os),
         \A o \in Outputs : o \notin os => ~ (current'[o] <= Len(list'[o]))
  PROVE  /\ NextTimeExact' /\ pending' \subseteq Outputs
         /\ pending' = {} => next_time' \in Time \cup {Infinity}
<1>1. /\ pending' = {o \in os : current'[o] <= Len(list'[o])}
      /\ next_time' = MinTime({list'[o][current'[o]].et : o \in pending'})
  BY DEF Compact
<1>2. ASSUME pending' = {} PROVE next_time' = Infinity
  <2>1. {list'[o][current'[o]].et : o \in pending'} = {}
    BY <1>2
  <2> QED BY <1>1, <2>1 DEF MinTime
<1> QED BY <1>1, <1>2 DEF NextTimeExact

LEMMA RoundQueue ==
  ASSUME QueueInv, NEW time \in Time, EventRound(time)
  PROVE  QueueInv'
<1>1. /\ phase' = "iter" /\ evt_step' = time /\ target' = target
      /\ EVTdequeue_output(time)
  BY DEF EventRound
<1>2. /\ list' = list /\ last_step' = last_step /\ last_time' = last_time
      /\ modified' \subseteq Outputs /\ changed' \subseteq Outputs /\ pending' \subseteq Outputs
      /\ pending' = {} => next_time' \in Time \cup {Infinity}
  <2>1. /\ Due(time) \subseteq Outputs /\ pending \subseteq Outputs
        /\ modified \subseteq Outputs /\ changed \subseteq Outputs
        /\ next_time \in Time \cup {Infinity}
    BY DEF QueueInv, TypeOK, Due
  <2>2. CASE pending = {} \/ next_time # time
    <3>1. UNCHANGED <<queue, changed>>
      BY <1>1, <2>2 DEF EVTdequeue_output
    <3> QED BY <2>1, <3>1 DEF queue
  <2>3. CASE ~ (pending = {} \/ next_time # time)
    <3>1. /\ changed' = changed \cup Due(time)
          /\ modified' = modified \cup Due(time)
          /\ UNCHANGED <<list, last_step, last_time>>
          /\ Compact(pending)
          /\ current' = [o \in Outputs |->
               IF o \in Due(time) THEN Following(list[o], current[o]) ELSE current[o]]
      BY <1>1, <2>3 DEF EVTdequeue_output, Following
    <3>2. \A o \in Outputs : o \notin pending => ~ (current'[o] <= Len(list'[o]))
      <4>1. ASSUME NEW o \in Outputs, o \notin pending
            PROVE  current'[o] = current[o] /\ list'[o] = list[o]
        BY <3>1, <4>1 DEF Due
      <4> QED BY <4>1, StateIs
    <3>3. pending' \subseteq Outputs /\ (pending' = {} => next_time' \in Time \cup {Infinity})
      BY <2>1, <3>1, <3>2, CompactIs
    <3> QED BY <2>1, <3>1, <3>3
  <2> QED BY <2>2, <2>3
<1>3. ASSUME NEW o \in Outputs PROVE Sound(list'[o], current'[o], last_step'[o])
  <2> DEFINE s == list[o]
             c == current[o]
             l == last_step[o]
             d == current'[o]
  <2>1. Links(s, c, l) /\ PostedAhead(s)
    BY SoundNow DEF Sound
  <2>2. d = c \/ (c <= Len(s) /\ d = Following(s, c))
    BY RoundLists
  <2>3. list'[o] = s /\ last_step'[o] = l
    BY <1>2
  <2> HIDE DEF s, c, l, d
  <2>4. Links(s, d, l)
    BY <2>1, <2>2, FollowingIs
  <2> QED BY <2>1, <2>3, <2>4 DEF Sound, d
<1>4. NextTimeExact'
  <2>1. CASE Outputs = {}
    BY <1>2, <2>1 DEF NextTimeExact
  <2>2. CASE Outputs # {}
    BY <2>2, RoundLists
  <2> QED BY <2>1, <2>2
<1>5. /\ list' \in [Outputs -> Seq(Event)] /\ last_time' \in Time /\ evt_step' \in Time
      /\ target' \in Time
  BY <1>1, <1>2 DEF QueueInv, TypeOK
<1>6. SolveAhead'
  BY <1>1 DEF SolveAhead
<1> QED BY <1>1, <1>2, <1>3, <1>4, <1>5, <1>6, QueueInvAfter

LEMMA SolveQueue ==
  ASSUME QueueInv, Solve
  PROVE  QueueInv'
<1>1. /\ UNCHANGED queue /\ changed' = changed /\ evt_step' = target /\ target' = target
      /\ phase' = "solve" /\ (pending = {} \/ next_time > target)
  BY DEF Solve
<1>2. ASSUME NEW o \in Outputs, current[o] <= Len(list[o])
      PROVE  list[o][current[o]].et > target
  <2> DEFINE e == list[o][current[o]].et
  <2>1. o \in pending
    BY <1>2, StateIs
  <2>2. next_time <= e /\ e \in Nat /\ next_time \in Nat /\ next_time > target
    BY <1>1, <1>2, <2>1, StateIs, Numbers
  <2>3. target \in Nat
    BY StateIs
  <2> HIDE DEF e
  <2>4. e > target
    BY <2>2, <2>3
  <2> QED BY <2>4 DEF e
<1>3. SolveAhead'
  BY <1>1, <1>2 DEF SolveAhead, queue
<1>4. \A o \in Outputs : Sound(list'[o], current'[o], last_step'[o])
  BY <1>1, SoundNow DEF queue
<1>5. /\ list' \in [Outputs -> Seq(Event)] /\ modified' \subseteq Outputs
      /\ pending' \subseteq Outputs /\ last_time' \in Time /\ changed' \subseteq Outputs
      /\ next_time' \in Time \cup {Infinity} /\ evt_step' \in Time /\ target' \in Time
      /\ changed' = {}
  BY <1>1 DEF QueueInv, TypeOK, RoundShape, Solve, queue
<1>6. NextTimeExact'
  BY <1>1 DEF QueueInv, NextTimeExact, queue
<1> QED BY <1>1, <1>3, <1>4, <1>5, <1>6, QueueInvAfter

LEMMA AcceptQueue ==
  ASSUME QueueInv, EVTaccept
  PROVE  QueueInv'
<1>1. /\ phase = "solve" /\ modified' = {} /\ last_time' = target /\ phase' = "accepted"
      /\ UNCHANGED <<pending, next_time, changed, evt_step, target>>
      /\ list' = [o \in Outputs |->
                    IF o \in modified
                    THEN SubSeq(list[o], Stale(o, target) + 1, Len(list[o]))
                    ELSE list[o]]
  BY DEF EVTaccept
<1>2. ASSUME NEW o \in Outputs
      PROVE  /\ Sound(list'[o], current'[o], last_step'[o])
             /\ current'[o] <= Len(list'[o]) <=> current[o] <= Len(list[o])
             /\ current[o] <= Len(list[o]) => list'[o][current'[o]] = list[o][current[o]]
  <2> DEFINE s == list[o]
             r == list'[o]
             c == current[o]
             l == last_step[o]
             d == current'[o]
             m == last_step'[o]
  <2>1. Links(s, c, l) /\ PostedAhead(s)
    BY SoundNow DEF Sound
  <2>2. \/ r = s /\ d = c /\ m = l
        \/ \E k \in Nat : k < c /\ Suffix(s, r, k) /\ d = c - k /\ m = c - k
    BY AcceptLists
  <2> HIDE DEF s, r, c, l, d, m
  <2>3. /\ Sound(r, d, m)
        /\ d <= Len(r) <=> c <= Len(s)
        /\ c <= Len(s) => r[d] = s[c]
    <3>1. CASE r = s /\ d = c /\ m = l
      BY <2>1, <3>1 DEF Sound
    <3>2. CASE \E k \in Nat : k < c /\ Suffix(s, r, k) /\ d = c - k /\ m = c - k
      <4>1. PICK k \in Nat : k < c /\ Suffix(s, r, k) /\ d = c - k /\ m = c - k
        BY <3>2
      <4>2. /\ Links(r, d, d)
            /\ PostedAhead(s) => PostedAhead(r)
            /\ d <= Len(r) <=> c <= Len(s)
            /\ c <= Len(s) => r[d] = s[c]
        BY <2>1, <4>1, AcceptedLinks
      <4>3. m = d
        BY <4>1
      <4> QED BY <2>1, <4>2, <4>3 DEF Sound
    <3> QED BY <2>2, <3>1, <3>2
  <2> QED BY <2>3 DEF s, r, c, l, d, m
<1>3. list' \in [Outputs -> Seq(Event)]
  <2>1. \A o \in Outputs : list'[o] \in Seq(Event)
    BY <1>2 DEF Sound, Links
  <2> QED BY <1>1, <2>1
<1>4. NextTimeExact'
  <2>1. \A o \in Outputs : o \in pending' <=> current'[o] <= Len(list'[o])
    BY <1>1, <1>2, StateIs
  <2>2. \A o \in pending : list'[o][current'[o]].et = list[o][current[o]].et
    BY <1>2, StateIs
  <2>3. {list'[o][current'[o]].et : o \in pending'} = {list[o][current[o]].et : o \in pending}
    BY <1>1, <2>2
  <2>4. pending # {} => next_time = MinTime({list[o][current[o]].et : o \in pending})
    BY DEF QueueInv, NextTimeExact
  <2> QED BY <1>1, <2>1, <2>3, <2>4 DEF NextTimeExact
<1>5. /\ modified' \subseteq Outputs /\ pending' \subseteq Outputs /\ last_time' \in Time
      /\ next_time' \in Time \cup {Infinity} /\ evt_step' \in Time /\ target' \in Time
      /\ changed' \subseteq Outputs /\ changed' = {}
  BY <1>1 DEF QueueInv, TypeOK, RoundShape
<1>6. SolveAhead'
  BY <1>1 DEF SolveAhead
<1> QED BY <1>1, <1>2, <1>3, <1>4, <1>5, <1>6, QueueInvAfter

LEMMA BackQueue ==
  ASSUME QueueInv, NEW time \in Time, Backup(time)
  PROVE  QueueInv'
<1>1. /\ phase = "solve" /\ phase' = "solve" /\ changed' = changed
      /\ time < target /\ last_time' = last_time /\ last_step' = last_step
      /\ evt_step' = time /\ target' = time
      /\ modified' \subseteq modified /\ Compact(pending \cup modified)
      /\ list' = [o \in Outputs |-> IF o \in modified THEN ScanBack(o, time) ELSE list[o]]
      /\ current' = [o \in Outputs |-> IF o \in modified THEN SeekBack(o, time) ELSE current[o]]
  BY DEF Backup, EVTbackup_output_queue
<1>2. ASSUME NEW o \in Outputs
      PROVE  /\ Sound(list'[o], current'[o], last_step'[o])
             /\ current'[o] <= Len(list'[o]) => list'[o][current'[o]].et > time
             /\ o \notin modified => list'[o] = list[o] /\ current'[o] = current[o]
  <2> DEFINE s == list[o]
             r == list'[o]
             c == current[o]
             l == last_step[o]
             d == current'[o]
  <2>1. Links(s, c, l) /\ PostedAhead(s)
    BY SoundNow DEF Sound
  <2>2. \/ o \notin modified /\ r = s /\ d = c
        \/ o \in modified /\ (\E f : ScannedBy(s, r, l, time, f)) /\ d = Sought(r, l, time)
    BY BackLists
  <2>3. last_step'[o] = l
    BY <1>1
  <2>4. c <= Len(s) => s[c].et \in Nat /\ s[c].et > target
    BY <1>1, StateIs, Numbers DEF QueueInv, SolveAhead
  <2>5. time \in Nat /\ target \in Nat
    BY StateIs, Numbers
  <2> HIDE DEF s, r, c, l, d
  <2>6. CASE o \notin modified
    <3>1. r = s /\ d = c
      BY <2>2, <2>6
    <3>2. Sound(s, c, l) /\ (c <= Len(s) => s[c].et > time)
      BY <1>1, <2>1, <2>4, <2>5 DEF Sound
    <3>3. Sound(r, d, l) /\ (d <= Len(r) => r[d].et > time)
      BY <3>1, <3>2
    <3> QED BY <2>3, <3>1, <3>3 DEF s, r, c, d
  <2>7. CASE o \in modified
    <3>1. PICK f : ScannedBy(s, r, l, time, f)
      BY <2>2, <2>7
    <3>2. /\ Len(r) \in Nat /\ l \in Nat /\ 1 <= l /\ l <= Len(r) + 1 /\ r \in Seq(Event)
          /\ \A n \in l .. Len(r) :
               f[n] \in l .. Len(s) /\ r[n].et = s[f[n]].et /\ r[n].pt = s[f[n]].pt
      BY <2>1, <3>1, ScannedEntries
    <3>3. d = Sought(r, l, time)
      BY <2>2, <2>7
    <3>4. Links(r, d, l) /\ (d <= Len(r) => r[d].et > time)
      BY <3>2, <3>3, SoughtIs
    <3>5. ASSUME NEW n \in 1 .. Len(r) PROVE r[n].et > r[n].pt
      <4>1. Len(s) \in Nat /\ l <= Len(s) + 1 /\ \A k \in 1 .. Len(s) : s[k].et > s[k].pt
        BY <2>1, LenProperties DEF Links, PostedAhead
      <4>2. CASE n < l
        <5>1. r[n] = s[n]
          BY <3>1, <3>2, <4>2 DEF ScannedBy
        <5>2. n \in 1 .. Len(s)
          BY <3>2, <4>1, <4>2
        <5> QED BY <4>1, <5>1, <5>2
      <4>3. CASE n >= l
        <5>1. f[n] \in 1 .. Len(s) /\ r[n].et = s[f[n]].et /\ r[n].pt = s[f[n]].pt
          BY <3>2, <4>1, <4>3
        <5> QED BY <4>1, <5>1
      <4> QED BY <3>2, <4>2, <4>3
    <3>6. Sound(r, d, l)
      BY <3>4, <3>5 DEF Sound, PostedAhead
    <3> QED BY <2>3, <2>7, <3>4, <3>6 DEF r, d
  <2> QED BY <2>6, <2>7
<1>3. list' \in [Outputs -> Seq(Event)]
  <2>1. \A o \in Outputs : list'[o] \in Seq(Event)
    BY <1>2 DEF Sound, Links
  <2> QED BY <1>1, <2>1
<1>4. /\ NextTimeExact' /\ pending' \subseteq Outputs
      /\ pending' = {} => next_time' \in Time \cup {Infinity}
  <2>1. pending \cup modified \subseteq Outputs
    BY DEF QueueInv, TypeOK
  <2>2. ASSUME NEW o \in Outputs, o \notin pending \cup modified
        PROVE  ~ (current'[o] <= Len(list'[o]))
    BY <1>2, <2>2, StateIs
  <2> QED BY <1>1, <2>1, <2>2, CompactIs
<1>5. /\ modified' \subseteq Outputs /\ last_time' \in Time /\ evt_step' \in Time
      /\ target' \in Time /\ changed' \subseteq Outputs /\ changed' = {}
  BY <1>1 DEF QueueInv, TypeOK, RoundShape
<1>6. SolveAhead'
  BY <1>1, <1>2 DEF SolveAhead
<1>7. \A o \in Outputs : Sound(list'[o], current'[o], last_step'[o])
  BY <1>2
<1> QED BY <1>1, <1>3, <1>4, <1>5, <1>6, <1>7, QueueInvAfter

LEMMA QueueStep == QueueInv /\ [Next]_vars => QueueInv'
<1> SUFFICES ASSUME QueueInv, [Next]_vars PROVE QueueInv'
  OBVIOUS
<1>1. ASSUME NEW o \in Outputs, NEW d \in Delays[o], Post(o, d) PROVE QueueInv'
  BY <1>1, PostQueue
<1>2. ASSUME NEW t \in Time, EventRound(t) PROVE QueueInv'
  BY <1>2, RoundQueue
<1>3. ASSUME NEW t \in Time, EndRound(t) PROVE QueueInv'
  BY <1>3, ControlQueue DEF EndRound, QueueInv, TypeOK
<1>4. ASSUME NEW t \in Time, StartStep(t) PROVE QueueInv'
  <2>1. changed = {} /\ changed \subseteq Outputs /\ evt_step \in Time
    BY <1>4 DEF StartStep, QueueInv, TypeOK, RoundShape
  <2> QED BY <1>4, <2>1, ControlQueue DEF StartStep
<1>5. ASSUME NEW t \in Time, Backup(t) PROVE QueueInv'
  BY <1>5, BackQueue
<1>6. CASE Solve
  BY <1>6, SolveQueue
<1>7. CASE EVTaccept
  BY <1>7, AcceptQueue
<1>8. CASE UNCHANGED vars
  BY <1>8 DEF vars, QueueInv, TypeOK, NextTimeExact, SolveAhead, RoundShape
<1> QED BY <1>1, <1>2, <1>3, <1>4, <1>5, <1>6, <1>7, <1>8 DEF Next

LEMMA QueueStart == Init => QueueInv
<1> SUFFICES ASSUME Init PROVE QueueInv
  OBVIOUS
<1>1. \A o \in Outputs : list[o] = <<>> /\ current[o] = 1 /\ last_step[o] = 1
  BY DEF Init
<1>2. /\ list \in [Outputs -> Seq(Event)]
      /\ Len(<<>>) = 0
  BY EmptySeq DEF Init
<1>3. TypeOK
  BY <1>1, <1>2, Numbers DEF Init, TypeOK
<1>4. NextTimeExact
  BY <1>1, <1>2 DEF Init, NextTimeExact
<1>5. SolveAhead /\ RoundShape
  BY <1>1, <1>2 DEF Init, SolveAhead, RoundShape, PostedAhead
<1> QED BY <1>3, <1>4, <1>5 DEF QueueInv

\* The links `current' and `last_step' of every output lead into its list, in
\* this order: what EVTaccept frees and EVTbackup cuts out is never one of them.
THEOREM TypeCorrect == Spec => []TypeOK
<1>1. Init => QueueInv
  BY QueueStart
<1>2. QueueInv /\ [Next]_vars => QueueInv'
  BY QueueStep
<1>3. QueueInv => TypeOK
  BY DEF QueueInv
<1> QED BY <1>1, <1>2, <1>3, PTL DEF Spec

\* The cached next_time and list of pending outputs are exact after every post,
\* delivery and backup.
THEOREM NextTimeStaysExact == Spec => []NextTimeExact
<1>1. Init => QueueInv
  BY QueueStart
<1>2. QueueInv /\ [Next]_vars => QueueInv'
  BY QueueStep
<1>3. QueueInv => NextTimeExact
  BY DEF QueueInv
<1> QED BY <1>1, <1>2, <1>3, PTL DEF Spec

-----------------------------------------------------------------------------
(* OrderInv is inductive as long as no output is misled.                    *)

Tidy(o) ==
  /\ Good(list[o], current[o], last_step[o], evt_step, last_time)
  /\ o \notin modified => Idle(list[o], current[o], last_step[o], last_time)
  /\ OneDelay(o) => Steady(list[o], last_step[o], Delays[o])

LEMMA PostOrder ==
  ASSUME QueueInv, OrderInv, NEW o \in Outputs, NEW delay \in Delays[o], Post(o, delay)
  PROVE  OrderInv'
<1>1. /\ modified' = modified \cup {o}
      /\ UNCHANGED <<current, last_step, last_time, evt_step, target, phase>>
  BY DEF Post, EVTqueue_output
<1>2. \A p \in Outputs : p # o => list'[p] = list[p]
  BY PostLists
<1>3. StepOrder'
  BY <1>1 DEF OrderInv, StepOrder
<1>4. Tidy(o)'
  <2> DEFINE s == list[o]
             r == list'[o]
             c == current[o]
             l == last_step[o]
             t == evt_step + delay
             ds == Delays[o]
  <2>1. PICK h \in Nat : QueuedAt(s, r, c, t, evt_step, h)
    BY PostLists
  <2>2. /\ Links(s, c, l) /\ Good(s, c, l, evt_step, last_time)
        /\ OneDelay(o) => Steady(s, l, ds)
    BY StateIs DEF OrderInv
  <2>3. t \in Time /\ evt_step \in Time /\ last_time \in Time /\ evt_step < t
    BY PostLists DEF QueueInv, TypeOK
  <2>4. t - evt_step \in ds
    <3>1. delay \in Nat /\ evt_step \in Nat
      BY StateIs, OutputAssumption
    <3>2. t - evt_step = delay
      BY <3>1
    <3> QED BY <3>2
  <2>5. OneDelay(o) <=> Alike(ds)
    BY DEF OneDelay
  <2> HIDE DEF s, r, c, l, t, ds
  <2>6. Good(r, c, l, evt_step, last_time)
    BY <2>1, <2>2, <2>3, QueuedGood
  <2>7. OneDelay(o) => Steady(r, l, ds)
    BY <2>1, <2>2, <2>3, <2>4, <2>5, QueuedSteady DEF Good
  <2> QED BY <1>1, <2>6, <2>7 DEF Tidy, OneDelay, r, c, l, ds
<1>5. ASSUME NEW p \in Outputs, p # o PROVE Tidy(p)'
  BY <1>1, <1>2, <1>5 DEF OrderInv, Tidy, OneDelay
<1> QED BY <1>3, <1>4, <1>5 DEF OrderInv, Tidy

LEMMA NextIsLater ==
  ASSUME QueueInv, OrderInv, pending # {}
  PROVE  next_time > evt_step
<1>1. PICK o \in pending : next_time = list[o][current[o]].et
  BY StateIs
<1> DEFINE s == list[o]
           c == current[o]
           l == last_step[o]
<1>2. /\ Links(s, c, l) /\ Good(s, c, l, evt_step, last_time) /\ c <= Len(s)
      /\ next_time = s[c].et /\ next_time \in Nat /\ evt_step \in Nat
  BY <1>1, StateIs, Numbers DEF OrderInv
<1> HIDE DEF s, c, l
<1>3. c \in l .. Len(s) /\ ~ (c < c)
  BY <1>2, LenProperties DEF Links
<1>4. ~ s[c].removed
  BY <1>2 DEF Good, HeadStands, NotRemoved
<1>5. ~ (s[c].et <= evt_step)
  BY <1>2, <1>3, <1>4 DEF Good, Dated
<1> QED BY <1>2, <1>5

LEMMA RoundOrder ==
  ASSUME QueueInv, OrderInv, NEW time \in Time, EventRound(time)
  PROVE  OrderInv'
<1>1. /\ phase = "loop" /\ phase' = "iter" /\ evt_step' = time /\ target' = target
      /\ time <= target
      /\ (time = next_time /\ pending # {}) \/ evt_step <= time
  BY DEF EventRound
<1>2. /\ time \in Nat /\ evt_step \in Nat /\ last_time \in Nat
      /\ evt_step \in Time /\ last_time \in Time
  BY Numbers, StateIs DEF QueueInv, TypeOK
<1>3. evt_step <= time /\ last_time <= evt_step
  BY <1>1, <1>2, NextIsLater DEF OrderInv, StepOrder
<1>4. last_time' = last_time
  BY DEF EventRound, EVTdequeue_output, queue
<1>5. ASSUME NEW o \in Outputs PROVE Tidy(o)'
  <2> DEFINE s == list[o]
             c == current[o]
             l == last_step[o]
             d == current'[o]
  <2>1. /\ Links(s, c, l) /\ Good(s, c, l, evt_step, last_time)
        /\ o \notin modified => Idle(s, c, l, last_time)
        /\ OneDelay(o) => Steady(s, l, Delays[o])
    BY StateIs DEF OrderInv
  <2>2. /\ list'[o] = s /\ last_step'[o] = l
        /\ \/ /\ d = c /\ (c <= Len(s) => s[c].et > time)
              /\ o \in modified' <=> o \in modified
           \/ c <= Len(s) /\ s[c].et = time /\ d = Following(s, c) /\ o \in modified'
    BY RoundLists
  <2> HIDE DEF s, c, l, d
  <2>3. Good(s, d, l, time, last_time)
    <3>1. CASE d = c /\ (c <= Len(s) => s[c].et > time)
      BY <1>2, <1>3, <2>1, <3>1, LaterGood
    <3>2. CASE c <= Len(s) /\ s[c].et = time /\ d = Following(s, c)
      BY <1>2, <2>1, <3>2, DeliveredGood
    <3> QED BY <2>2, <3>1, <3>2
  <2>4. o \notin modified' => Idle(s, d, l, last_time)
    BY <2>1, <2>2
  <2> QED BY <1>1, <1>4, <2>1, <2>2, <2>3, <2>4 DEF Tidy, OneDelay, d
<1>6. StepOrder'
  BY <1>1, <1>2, <1>3, <1>4 DEF StepOrder
<1> QED BY <1>5, <1>6 DEF OrderInv, Tidy

LEMMA SolveOrder ==
  ASSUME QueueInv, OrderInv, Solve
  PROVE  OrderInv'
<1>1. /\ phase = "loop" /\ phase' = "solve" /\ evt_step' = target /\ target' = target
      /\ UNCHANGED queue
  BY DEF Solve
<1>2. /\ target \in Nat /\ evt_step \in Nat /\ last_time \in Nat /\ evt_step <= target
      /\ evt_step \in Time /\ last_time \in Time /\ target \in Time /\ last_time <= evt_step
  BY <1>1, StateIs DEF QueueInv, TypeOK, OrderInv, StepOrder
<1>3. SolveAhead' /\ phase' = "solve"
  BY SolveQueue, <1>1 DEF QueueInv
<1>4. ASSUME NEW o \in Outputs PROVE Tidy(o)'
  <2> DEFINE s == list[o]
             c == current[o]
             l == last_step[o]
  <2>1. Links(s, c, l) /\ Good(s, c, l, evt_step, last_time)
    BY StateIs DEF OrderInv
  <2>2. c <= Len(s) => s[c].et > target
    BY <1>1, <1>3 DEF SolveAhead, queue
  <2> HIDE DEF s, c, l
  <2>3. Good(s, c, l, target, last_time)
    BY <1>2, <2>1, <2>2, LaterGood
  <2> QED BY <1>1, <2>3 DEF Tidy, OrderInv, OneDelay, queue, s, c, l
<1>5. StepOrder'
  BY <1>1, <1>2 DEF StepOrder, queue
<1> QED BY <1>4, <1>5 DEF OrderInv, Tidy

LEMMA AcceptOrder ==
  ASSUME QueueInv, OrderInv, EVTaccept
  PROVE  OrderInv'
<1>1. /\ phase = "solve" /\ phase' = "accepted" /\ modified' = {} /\ last_time' = target
      /\ evt_step' = evt_step /\ target' = target /\ evt_step = target
      /\ target \in Time /\ last_time \in Time /\ target \in Nat /\ last_time \in Nat
      /\ last_time <= target
  BY StateIs DEF EVTaccept, QueueInv, TypeOK, RoundShape, OrderInv, StepOrder
<1>2. ASSUME NEW o \in Outputs PROVE Tidy(o)'
  <2> DEFINE s == list[o]
             r == list'[o]
             c == current[o]
             l == last_step[o]
             d == current'[o]
             m == last_step'[o]
  <2>1. /\ Links(s, c, l) /\ Good(s, c, l, target, last_time)
        /\ o \notin modified => Idle(s, c, l, last_time)
        /\ OneDelay(o) => Steady(s, l, Delays[o])
    BY <1>1, StateIs DEF OrderInv
  <2>2. \/ o \notin modified /\ r = s /\ d = c /\ m = l
        \/ \E k \in Nat : k < c /\ Suffix(s, r, k) /\ d = c - k /\ m = c - k
    BY AcceptLists
  <2> HIDE DEF s, r, c, l, d, m
  <2>3. /\ Good(r, d, m, target, target) /\ Idle(r, d, m, target)
        /\ OneDelay(o) => Steady(r, m, Delays[o])
    <3>1. CASE o \notin modified /\ r = s /\ d = c /\ m = l
      <4>1. c = l
        BY <2>1, <3>1 DEF Idle
      <4>2. Suffix(s, s, 0)
        <5>1. s \in Seq(Event) /\ Len(s) \in Nat
          BY <2>1, LenProperties DEF Links
        <5> QED BY <5>1 DEF Suffix
      <4>3. 0 < c /\ c = c - 0 /\ 0 \in Nat
        BY <2>1 DEF Links
      <4> QED BY <1>1, <2>1, <3>1, <4>1, <4>2, <4>3, AcceptedGood
    <3>2. CASE \E k \in Nat : k < c /\ Suffix(s, r, k) /\ d = c - k /\ m = c - k
      <4>1. PICK k \in Nat : k < c /\ Suffix(s, r, k) /\ d = c - k /\ m = c - k
        BY <3>2
      <4>2. m = d
        BY <4>1
      <4> QED BY <1>1, <2>1, <4>1, <4>2, AcceptedGood
    <3> QED BY <2>2, <3>1, <3>2
  <2> QED BY <1>1, <2>3 DEF Tidy, OneDelay, r, d, m
<1>3. StepOrder'
  BY <1>1 DEF StepOrder
<1> QED BY <1>2, <1>3 DEF OrderInv, Tidy

LEMMA BackOrder ==
  ASSUME QueueInv, OrderInv, NEW time \in Time, Backup(time), misled' = {}
  PROVE  OrderInv'
<1>1. /\ phase = "solve" /\ phase' = "solve" /\ evt_step' = time /\ target' = time
      /\ last_time < time /\ time < target /\ last_time' = last_time
      /\ evt_step = target
      /\ target \in Time /\ last_time \in Time /\ target \in Nat /\ last_time \in Nat
      /\ time \in Nat
  BY StateIs, Numbers
  DEF Backup, EVTbackup_output_queue, QueueInv, TypeOK, RoundShape, OrderInv
<1>2. ASSUME NEW o \in Outputs PROVE HeadStands(list'[o], current'[o])
  <2>1. current'[o] <= Len(list'[o]) => o \in pending'
    BY BackQueue DEF QueueInv, NextTimeExact
  <2>2. \A p \in pending' : NotRemoved(list'[p][current'[p]])
    BY DEF Backup
  <2> QED BY <2>1, <2>2 DEF HeadStands
<1>3. ASSUME NEW o \in Outputs PROVE Tidy(o)'
  <2> DEFINE s == list[o]
             r == list'[o]
             c == current[o]
             l == last_step[o]
             d == current'[o]
  <2>1. /\ Links(s, c, l) /\ Good(s, c, l, target, last_time)
        /\ o \notin modified => Idle(s, c, l, last_time)
        /\ OneDelay(o) => Steady(s, l, Delays[o])
    BY <1>1, StateIs DEF OrderInv
  <2>2. /\ last_step'[o] = l
        /\ \/ o \notin modified /\ o \notin modified' /\ r = s /\ d = c
           \/ /\ \E f : ScannedBy(s, r, l, time, f)
              /\ d = Sought(r, l, time)
              /\ o \notin modified' =>
                   \/ ~ (l <= Len(r))
                   \/ d = l /\ \A n \in l .. Len(r) : ~ (r[n].pt > last_time)
    BY BackLists
  <2>3. HeadStands(r, d)
    BY <1>2
  <2>4. OneDelay(o) <=> Alike(Delays[o])
    BY DEF OneDelay
  <2> HIDE DEF s, r, c, l, d
  <2>5. /\ Good(r, d, l, time, last_time)
        /\ o \notin modified' => Idle(r, d, l, last_time)
        /\ OneDelay(o) => Steady(r, l, Delays[o])
    <3>1. CASE o \notin modified /\ r = s /\ d = c
      <4>1. Good(s, c, l, time, last_time)
        BY <1>1, <2>1, <3>1, IdleGood
      <4> QED BY <2>1, <3>1, <4>1
    <3>2. CASE /\ \E f : ScannedBy(s, r, l, time, f)
               /\ d = Sought(r, l, time)
               /\ o \notin modified' =>
                    \/ ~ (l <= Len(r))
                    \/ d = l /\ \A n \in l .. Len(r) : ~ (r[n].pt > last_time)
      <4>1. PICK f : ScannedBy(s, r, l, time, f)
        BY <3>2
      <4>2. Good(r, d, l, time, last_time)
        BY <1>1, <2>1, <2>3, <3>2, <4>1, BackGood
      <4>3. OneDelay(o) => Steady(r, l, Delays[o])
        BY <2>1, <2>4, <3>2, <4>1, BackSteady
      <4>4. /\ Len(r) \in Nat /\ l \in Nat /\ 1 <= l /\ l <= Len(r) + 1 /\ r \in Seq(Event)
            /\ \A n \in l .. Len(r) : r[n].pt \in Nat
        BY <2>1, <4>1, ScannedEntries
      <4>5. Links(r, d, l)
        BY <3>2, <4>4, SoughtIs
      <4>6. ASSUME o \notin modified' PROVE Idle(r, d, l, last_time)
        <5>1. CASE ~ (l <= Len(r))
          <6>1. d = l /\ \A n \in l .. Len(r) : FALSE
            BY <4>4, <4>5, <5>1 DEF Links
          <6> QED BY <6>1 DEF Idle
        <5>2. CASE d = l /\ \A n \in l .. Len(r) : ~ (r[n].pt > last_time)
          BY <1>1, <4>4, <5>2 DEF Idle
        <5> QED BY <3>2, <4>6, <5>1, <5>2
      <4> QED BY <4>2, <4>3, <4>6
    <3> QED BY <2>2, <3>1, <3>2
  <2> QED BY <1>1, <2>2, <2>5 DEF Tidy, OneDelay, r, d
<1>4. StepOrder'
  BY <1>1 DEF StepOrder
<1> QED BY <1>3, <1>4 DEF OrderInv, Tidy

\* What a backup leaves at `current' of an output with one delay stands.
LEMMA OneDelayStands ==
  ASSUME QueueInv, OrderInv, NEW time \in Time, Backup(time),
         NEW o \in Outputs, OneDelay(o)
  PROVE  HeadStands(list'[o], current'[o])
<1> DEFINE s == list[o]
           r == list'[o]
           c == current[o]
           l == last_step[o]
           d == current'[o]
<1>1. /\ Links(s, c, l) /\ HeadStands(s, c)
      /\ Steady(s, l, Delays[o]) /\ Alike(Delays[o])
  BY StateIs DEF OrderInv, Good, OneDelay
<1>2. \/ r = s /\ d = c
      \/ (\E f : ScannedBy(s, r, l, time, f)) /\ d = Sought(r, l, time)
  BY BackLists
<1> HIDE DEF s, r, c, l, d
<1>3. HeadStands(r, d)
  BY <1>1, <1>2, BackSteady
<1> QED BY <1>3 DEF r, d

LEMMA UnmisledStep == QueueInv /\ Unmisled /\ [Next]_vars => Unmisled'
<1> SUFFICES ASSUME QueueInv, Unmisled, [Next]_vars, misled' = {} PROVE OrderInv'
  BY DEF Unmisled
<1>1. OrderInv
  BY DEF Unmisled, Next, vars, Post, EventRound, EndRound, StartStep, Backup, Solve, EVTaccept
<1>2. ASSUME NEW o \in Outputs, NEW d \in Delays[o], Post(o, d) PROVE OrderInv'
  BY <1>1, <1>2, PostOrder
<1>3. ASSUME NEW t \in Time, EventRound(t) PROVE OrderInv'
  BY <1>1, <1>3, RoundOrder
<1>4. ASSUME UNCHANGED queue, evt_step' = evt_step, StepOrder' PROVE OrderInv'
  BY <1>1, <1>4 DEF OrderInv, OneDelay, queue
<1>5. ASSUME NEW t \in Time, EndRound(t) PROVE OrderInv'
  <2>1. StepOrder'
    BY <1>1, <1>5 DEF EndRound, OrderInv, StepOrder, queue
  <2> QED BY <1>4, <1>5, <2>1 DEF EndRound
<1>6. ASSUME NEW t \in Time, StartStep(t) PROVE OrderInv'
  <2>1. t \in Nat /\ last_time \in Nat
    BY StateIs, Numbers
  <2>2. StepOrder'
    BY <1>1, <1>6, <2>1 DEF StartStep, OrderInv, StepOrder, queue
  <2> QED BY <1>4, <1>6, <2>2 DEF StartStep
<1>7. ASSUME NEW t \in Time, Backup(t) PROVE OrderInv'
  BY <1>1, <1>7, BackOrder
<1>8. CASE Solve
  BY <1>1, <1>8, SolveOrder
<1>9. CASE EVTaccept
  BY <1>1, <1>9, AcceptOrder
<1>10. CASE UNCHANGED vars
  BY <1>1, <1>10 DEF vars, OrderInv, StepOrder, OneDelay
<1> QED BY <1>2, <1>3, <1>5, <1>6, <1>7, <1>8, <1>9, <1>10 DEF Next

LEMMA UnmisledStart == Init => Unmisled
<1> SUFFICES ASSUME Init PROVE OrderInv
  BY DEF Unmisled
<1>1. \A o \in Outputs : list[o] = <<>> /\ current[o] = 1 /\ last_step[o] = 1
  BY DEF Init
<1>2. Len(<<>>) = 0
  BY EmptySeq
<1>3. ASSUME NEW o \in Outputs PROVE Tidy(o)
  <2>1. Good(<<>>, 1, 1, evt_step, last_time)
    BY <1>2 DEF Good, Ordered, Dated, Witnessed, HeadStands
  <2>2. Idle(<<>>, 1, 1, last_time) /\ \A ds : Steady(<<>>, 1, ds)
    BY <1>2 DEF Idle, Steady
  <2> QED BY <1>1, <2>1, <2>2 DEF Tidy
<1>4. StepOrder
  BY DEF Init, StepOrder
<1> QED BY <1>3, <1>4 DEF OrderInv, Tidy

\* Until some output is misled, the next event is never earlier than the time
\* the event solution has reached, over all posts, rounds and backups.
THEOREM EventTimeNeverBack == Spec => []NoLateEvent
<1>1. Init => QueueInv /\ Unmisled
  BY QueueStart, UnmisledStart
<1>2. QueueInv /\ Unmisled /\ [Next]_vars => QueueInv' /\ Unmisled'
  BY QueueStep, UnmisledStep
<1>3. QueueInv /\ Unmisled => NoLateEvent
  <2> SUFFICES ASSUME QueueInv, Unmisled, misled = {}, pending # {}
               PROVE  next_time >= evt_step
    BY DEF NoLateEvent
  <2>1. next_time > evt_step
    BY NextIsLater DEF Unmisled
  <2>2. next_time \in Nat /\ evt_step \in Nat
    BY StateIs, Numbers
  <2> QED BY <2>1, <2>2
<1> QED BY <1>1, <1>2, <1>3, PTL DEF Spec

\* Until some output is misled, no round of the event loop delivers an event
\* that a later post has cancelled, whatever was rejected in between.
THEOREM NothingCancelledDelivered == Spec => DeliversWhatStands
<1>1. Init => QueueInv /\ Unmisled
  BY QueueStart, UnmisledStart
<1>2. QueueInv /\ Unmisled /\ [Next]_vars => QueueInv' /\ Unmisled'
  BY QueueStep, UnmisledStep
<1>3. QueueInv /\ Unmisled /\ [Next]_vars =>
        [\A o \in Outputs : misled = {} /\ o \in changed' \ changed
                              => NotRemoved(list[o][current[o]])]_vars
  <2> SUFFICES ASSUME QueueInv, Unmisled, [Next]_vars, misled = {},
                      NEW o \in Outputs, o \in changed', o \notin changed
               PROVE  NotRemoved(list[o][current[o]])
    OBVIOUS
  <2>1. PICK t \in Time : EventRound(t)
    BY DEF Next, vars, Post, EndRound, StartStep, Backup, Solve, EVTaccept
  <2>2. current[o] <= Len(list[o])
    BY <2>1, RoundLists
  <2>3. HeadStands(list[o], current[o])
    BY DEF Unmisled, OrderInv, Good
  <2> QED BY <2>2, <2>3 DEF HeadStands
<1> QED BY <1>1, <1>2, <1>3, PTL DEF Spec, DeliversWhatStands

\* A backup can leave `current' at a removed event only for an output that posts
\* with more than one delay.
THEOREM OneDelayNeverMisled == Spec => OneDelayIsSafe
<1>1. Init => QueueInv /\ Unmisled
  BY QueueStart, UnmisledStart
<1>2. QueueInv /\ Unmisled /\ [Next]_vars => QueueInv' /\ Unmisled'
  BY QueueStep, UnmisledStep
<1>3. QueueInv /\ Unmisled /\ [Next]_vars =>
        [misled = {} => \A o \in misled' : Cardinality(Delays[o]) > 1]_vars
  <2> SUFFICES ASSUME QueueInv, Unmisled, [Next]_vars, misled = {}, NEW o \in misled'
               PROVE  Cardinality(Delays[o]) > 1
    OBVIOUS
  <2>1. PICK t \in Time : Backup(t)
    BY DEF Next, vars, Post, EventRound, EndRound, StartStep, Solve, EVTaccept
  <2>2. o \in pending' /\ ~ NotRemoved(list'[o][current'[o]])
    BY <2>1 DEF Backup
  <2>3. QueueInv'
    BY QueueStep
  <2>4. o \in Outputs /\ current'[o] <= Len(list'[o])
    <3>1. pending' \subseteq Outputs
      BY <2>3 DEF QueueInv, TypeOK
    <3> QED BY <2>2, <2>3, <3>1 DEF QueueInv, NextTimeExact
  <2>5. ~ HeadStands(list'[o], current'[o])
    BY <2>2, <2>4 DEF HeadStands
  <2>6. ~ OneDelay(o)
    BY <2>1, <2>4, <2>5, OneDelayStands DEF Unmisled
  <2>7. PICK d \in Delays[o], e \in Delays[o] : d # e
    BY <2>6 DEF OneDelay, Alike
  <2> DEFINE ds == Delays[o]
  <2>8. IsFiniteSet(ds)
    <3>1. ds \in SUBSET (1 .. MaxTime) /\ MaxTime \in Int
      BY <2>4, OutputAssumption
    <3>2. IsFiniteSet(1 .. MaxTime)
      BY <3>1, FS_Interval
    <3> QED BY <3>1, <3>2, FS_Subset
  <2>9. Cardinality({d, e}) = 2 /\ {d, e} \in SUBSET ds
    <3>1. IsFiniteSet({d}) /\ Cardinality({d}) = 1
      BY FS_Singleton
    <3>2. {d, e} = {d} \cup {e} /\ e \notin {d}
      BY <2>7
    <3>3. Cardinality({d} \cup {e}) = 1 + 1
      BY <3>1, <3>2, FS_AddElement
    <3> QED BY <3>2, <3>3
  <2> HIDE DEF ds
  <2>10. Cardinality({d, e}) <= Cardinality(ds) /\ Cardinality(ds) \in Nat
    BY <2>8, <2>9, FS_Subset, FS_CardinalityType
  <2>11. Cardinality(ds) > 1
    BY <2>9, <2>10
  <2> QED BY <2>11 DEF ds
<1> QED BY <1>1, <1>2, <1>3, PTL DEF Spec, OneDelayIsSafe

-----------------------------------------------------------------------------
(* What is on the list is what was promised.                                *)

\* r holds the entries of s at the positions ks, f[n] being that of its nth.
Picks(s, r, ks, f) ==
  /\ Len(r) \in Nat
  /\ \A n \in 1 .. Len(r) : f[n] \in ks /\ r[n] = s[f[n]]
  /\ \A m, n \in 1 .. Len(r) : m < n => f[m] < f[n]
  /\ \A k \in ks : \E n \in 1 .. Len(r) : f[n] = k

LEMMA AtIs ==
  ASSUME NEW S, NEW s \in Seq(S), NEW ks, Within(ks, Len(s))
  PROVE  At(s, ks) \in Seq(S) /\ \E f : Picks(s, At(s, ks), ks, f)
<1> DEFINE K == Cardinality(ks)
           r == At(s, ks)
           f == [n \in 1 .. K |-> Nth(ks, n)]
<1>1. Len(s) \in Nat /\ \A n \in 1 .. Len(s) : s[n] \in S
  BY LenProperties, ElementOfSeq
<1>2. /\ K \in Nat
      /\ \A n \in 1 .. K : Nth(ks, n) \in ks
      /\ \A m, n \in 1 .. K : m < n => Nth(ks, m) < Nth(ks, n)
      /\ \A k \in ks : \E n \in 1 .. K : Nth(ks, n) = k
  BY <1>1, NthOrder
<1>3. r = [n \in 1 .. K |-> s[Nth(ks, n)]]
  BY DEF At
<1> HIDE DEF K, r
<1>4. r \in [1 .. K -> S]
  BY <1>1, <1>2, <1>3 DEF Within
<1>5. r \in Seq(S) /\ Len(r) = K
  BY <1>2, <1>4, FunctionIsSeq
<1>6. Picks(s, r, ks, f)
  BY <1>2, <1>3, <1>5 DEF Picks
<1> QED BY <1>5, <1>6 DEF r

Posted == [et : Time, pt : Time]

\* An entry late in time is before an earlier one only where everything up to it
\* had been delivered or removed when the earlier one was posted.
Skipped(s, l) ==
  \A m, n \in l .. Len(s) : m < n /\ s[m].et > s[n].et =>
    \A j \in l .. m : s[j].et <= s[n].pt \/ (s[j].removed /\ s[j].rt <= s[n].pt)

\* The kth of the posts p is not cancelled by one made until u.
StandsAt(p, k, u) == \A m \in k + 1 .. Len(p) : p[m].pt <= u => p[m].et > p[k].et

\* The entry e, seen from time u, is still to come.
ComesAt(e, u) == e.pt <= u /\ u < e.et /\ ~ (e.removed /\ e.rt <= u)

Same(e, d) == e.et = d.et /\ e.pt = d.pt

\* Seen from time u, the entries still to come are the posts that stand.
Listed(s, l, p, u) ==
  /\ \A n \in l .. Len(s) : ComesAt(s[n], u) =>
       \E k \in 1 .. Len(p) : Same(p[k], s[n]) /\ StandsAt(p, k, u)
  /\ \A k \in 1 .. Len(p) : p[k].pt <= u /\ u < p[k].et /\ StandsAt(p, k, u) =>
       \E n \in l .. Len(s) : Same(p[k], s[n]) /\ ComesAt(s[n], u)

\* They are so from every time a backup may go back to.
Agrees(s, l, p, step, base) ==
  /\ p \in Seq(Posted) /\ \A k \in 1 .. Len(p) : p[k].pt <= step
  /\ Skipped(s, l)
  /\ \A u \in base .. step : Listed(s, l, p, u)

LEMMA PostedFields ==
  ASSUME NEW p \in Seq(Posted)
  PROVE  /\ Len(p) \in Nat
         /\ \A k \in 1 .. Len(p) : p[k] \in Posted /\ p[k].et \in Nat /\ p[k].pt \in Nat
<1>1. Len(p) \in Nat /\ \A k \in 1 .. Len(p) : p[k] \in Posted
  BY LenProperties, ElementOfSeq
<1> QED BY <1>1, Numbers DEF Posted

\* From `current' on the entries are in order of time.
LEMMA ComeInOrder ==
  ASSUME NEW s, NEW c, NEW l, Links(s, c, l), NEW step \in Time,
         Dated(s, c, l, step), HeadStands(s, c), Skipped(s, l)
  PROVE  \A m, n \in c .. Len(s) : m < n => s[m].et <= s[n].et
<1>1. /\ s \in Seq(Event) /\ c \in Nat /\ l \in Nat /\ 1 <= l /\ l <= c
      /\ Len(s) \in Nat /\ step \in Nat
  BY Numbers, LenProperties DEF Links
<1>2. \A n \in 1 .. Len(s) : s[n].et \in Nat /\ s[n].pt \in Nat /\ s[n].rt \in Nat
  BY <1>1, ElementOfSeq, EventFields
<1> SUFFICES ASSUME NEW m \in c .. Len(s), NEW n \in c .. Len(s), m < n, s[m].et > s[n].et
             PROVE  FALSE
  BY <1>1, <1>2
<1>3. m \in l .. Len(s) /\ n \in l .. Len(s) /\ c \in l .. m /\ c \in l .. Len(s) /\ c <= Len(s)
  BY <1>1
<1>4. s[c].et <= s[n].pt \/ s[c].removed
  BY <1>3 DEF Skipped
<1>5. ~ s[c].removed
  BY <1>3 DEF HeadStands, NotRemoved
<1>6. ~ (c < c) /\ s[n].pt <= step
  BY <1>1, <1>3 DEF Dated
<1>7. ~ (s[c].et <= step)
  BY <1>3, <1>5, <1>6 DEF Dated
<1>8. s[c].et \in Nat /\ s[n].pt \in Nat
  BY <1>1, <1>2, <1>3
<1> QED BY <1>1, <1>4, <1>5, <1>6, <1>7, <1>8

LEMMA QueuedSkipped ==
  ASSUME NEW s, NEW r, NEW c, NEW l, Links(s, c, l),
         NEW t \in Time, NEW step \in Time, step < t,
         NEW h \in Nat, QueuedAt(s, r, c, t, step, h),
         Dated(s, c, l, step), HeadStands(s, c), Skipped(s, l)
  PROVE  Skipped(r, l)
<1>1. s \in Seq(Event) /\ c \in Nat /\ l \in Nat /\ 1 <= l /\ l <= c /\ c <= Len(s) + 1
  BY DEF Links
<1>2. /\ Len(s) \in Nat /\ 1 <= h /\ h <= Len(s) + 1 /\ c <= h /\ 1 <= c
      /\ Len(r) = Len(s) + 1
      /\ \A n \in 1 .. h - 1 : r[n] = s[n]
      /\ r[h].et = t /\ r[h].pt = step /\ ~ r[h].removed
      /\ \A n \in h + 1 .. Len(s) + 1 : r[n].et = s[n - 1].et /\ r[n].pt = s[n - 1].pt
  <2>1. 1 <= c
    BY <1>1
  <2>2. EntriesAre(s, r, c, t, step, h)
    BY <1>1, <2>1, QueuedEntries
  <2> QED BY <2>1, <2>2 DEF EntriesAre
<1>3. \A n \in l .. Len(s) :
        /\ s[n].removed => s[n].rt <= step
        /\ ~ s[n].removed => (n < c <=> s[n].et <= step)
  BY DEF Dated
<1>4. \A n \in 1 .. Len(s) : s[n].et \in Nat /\ s[n].pt \in Nat /\ s[n].rt \in Nat
  BY <1>1, ElementOfSeq, EventFields
<1>5. step \in Nat /\ t \in Nat
  BY Numbers
<1>6. \A m, n \in c .. Len(s) : m < n => s[m].et <= s[n].et
  BY ComeInOrder
<1>7. /\ \A n \in c .. h - 1 : s[n].et < t
      /\ h <= Len(s) => t <= s[h].et
  BY DEF QueuedAt
<1>8. ASSUME NEW m \in l .. Len(r), NEW n \in l .. Len(r), m < n, r[m].et > r[n].et,
             NEW j \in l .. m
      PROVE  r[j].et <= r[n].pt \/ (r[j].removed /\ r[j].rt <= r[n].pt)
  <2>1. CASE m < h
    <3>1. /\ m \in l .. Len(s) /\ m \in 1 .. h - 1 /\ j \in 1 .. h - 1 /\ j \in l .. Len(s)
          /\ r[m] = s[m] /\ r[j] = s[j] /\ j \in 1 .. Len(s)
      BY <1>1, <1>2, <2>1
    <3>2. CASE n < h
      <4>1. n \in l .. Len(s) /\ n \in 1 .. h - 1 /\ r[n] = s[n]
        BY <1>1, <1>2, <3>2
      <4> QED BY <1>8, <3>1, <4>1 DEF Skipped
    <3>3. CASE n = h
      <4>1. m < c
        <5>1. ~ (m < c) => m \in c .. h - 1
          BY <1>1, <1>2, <3>1
        <5>2. s[m].et \in Nat
          BY <1>1, <1>4, <3>1
        <5> QED BY <1>2, <1>5, <1>7, <1>8, <3>1, <3>3, <5>1, <5>2
      <4>2. j < c
        BY <1>1, <4>1
      <4> QED BY <1>2, <1>3, <3>1, <3>3, <4>2
    <3>4. CASE n > h
      <4>1. n \in h + 1 .. Len(s) + 1 /\ n - 1 \in l .. Len(s) /\ m < n - 1
        BY <1>1, <1>2, <3>1, <3>4
      <4>2. r[n].et = s[n - 1].et /\ r[n].pt = s[n - 1].pt
        BY <1>2, <4>1
      <4> QED BY <1>8, <3>1, <4>1, <4>2 DEF Skipped
    <3> QED BY <1>1, <1>2, <3>2, <3>3, <3>4
  <2>2. CASE ~ (m < h)
    <3>1. n \in h + 1 .. Len(s) + 1 /\ n - 1 \in c .. Len(s) /\ n - 1 \in h .. Len(s)
      BY <1>1, <1>2, <1>8, <2>2
    <3>2. r[n].et = s[n - 1].et /\ s[n - 1].et \in Nat /\ n - 1 \in 1 .. Len(s)
      BY <1>1, <1>2, <1>4, <3>1
    <3>3. CASE m = h
      <4>1. h <= Len(s) /\ h \in c .. Len(s) /\ h \in 1 .. Len(s)
        BY <1>1, <1>2, <3>1
      <4>2. t <= s[h].et /\ s[h].et \in Nat
        BY <1>4, <1>7, <4>1
      <4>3. h < n - 1 => s[h].et <= s[n - 1].et
        BY <1>6, <3>1, <4>1
      <4>4. h = n - 1 \/ h < n - 1
        BY <3>1
      <4>5. t <= s[n - 1].et
        BY <1>5, <3>2, <4>2, <4>3, <4>4
      <4> QED BY <1>2, <1>5, <1>8, <3>2, <3>3, <4>5
    <3>4. CASE m > h
      <4>1. /\ m \in h + 1 .. Len(s) + 1 /\ m - 1 \in c .. Len(s) /\ m - 1 < n - 1
            /\ m - 1 \in 1 .. Len(s)
        BY <1>1, <1>2, <1>8, <3>4
      <4>2. r[m].et = s[m - 1].et /\ s[m - 1].et \in Nat
        BY <1>2, <1>4, <4>1
      <4>3. s[m - 1].et <= s[n - 1].et
        BY <1>6, <3>1, <4>1
      <4> QED BY <1>8, <3>2, <4>2, <4>3
    <3> QED BY <1>1, <1>2, <2>2, <3>3, <3>4
  <2> QED BY <2>1, <2>2
<1> QED BY <1>8 DEF Skipped

\* q is p and a post for t.
WithPost(p, q, t, step) == p \in Seq(Posted) /\ q = Append(p, [et |-> t, pt |-> step])

LEMMA QueuedListed ==
  ASSUME NEW s, NEW r, NEW c, NEW l, Links(s, c, l),
         NEW t \in Time, NEW step \in Time, step < t, NEW base \in Time,
         NEW h \in Nat, QueuedAt(s, r, c, t, step, h), Dated(s, c, l, step),
         HeadStands(s, c), NEW p, Agrees(s, l, p, step, base),
         NEW q, WithPost(p, q, t, step)
  PROVE  Agrees(r, l, q, step, base)
<1>1. s \in Seq(Event) /\ c \in Nat /\ l \in Nat /\ 1 <= l /\ l <= c /\ c <= Len(s) + 1
  BY DEF Links
<1>2. /\ Len(s) \in Nat /\ 1 <= h /\ h <= Len(s) + 1 /\ c <= h /\ 1 <= c
      /\ Len(r) = Len(s) + 1
      /\ \A n \in 1 .. h - 1 : r[n] = s[n]
      /\ r[h].et = t /\ r[h].pt = step /\ ~ r[h].removed
      /\ \A n \in h + 1 .. Len(s) + 1 :
           /\ r[n].et = s[n - 1].et /\ r[n].pt = s[n - 1].pt /\ r[n].removed
           /\ r[n].rt = IF s[n - 1].removed THEN s[n - 1].rt ELSE step
  <2>1. 1 <= c
    BY <1>1
  <2>2. EntriesAre(s, r, c, t, step, h)
    BY <1>1, <2>1, QueuedEntries
  <2> QED BY <2>1, <2>2 DEF EntriesAre
<1>3. \A n \in l .. Len(s) :
        /\ s[n].removed => s[n].rt <= step
        /\ ~ s[n].removed => (n < c <=> s[n].et <= step)
  BY DEF Dated
<1>4. \A n \in l .. Len(s) : /\ s[n].et \in Nat /\ s[n].pt \in Nat /\ s[n].rt \in Nat
                             /\ n \in 1 .. Len(s)
  BY <1>1, ElementOfSeq, EventFields
<1>5. step \in Nat /\ t \in Nat /\ base \in Nat
  BY Numbers
<1>6. \A m, n \in c .. Len(s) : m < n => s[m].et <= s[n].et
  BY ComeInOrder DEF Agrees
<1>7. /\ \A n \in c .. h - 1 : s[n].et < t
      /\ h <= Len(s) => t <= s[h].et
  BY DEF QueuedAt
<1>0. p \in Seq(Posted) /\ q = Append(p, [et |-> t, pt |-> step])
  BY DEF WithPost
<1>8. Len(p) \in Nat /\ \A k \in 1 .. Len(p) : p[k].et \in Nat /\ p[k].pt \in Nat
  BY <1>0, PostedFields
<1>9. /\ q \in Seq(Posted) /\ Len(q) = Len(p) + 1
      /\ q[Len(p) + 1].et = t /\ q[Len(p) + 1].pt = step
      /\ \A k \in 1 .. Len(p) : q[k] = p[k]
  <2>1. [et |-> t, pt |-> step] \in Posted
    BY DEF Posted
  <2>2. /\ q \in Seq(Posted) /\ Len(q) = Len(p) + 1
        /\ q[Len(p) + 1] = [et |-> t, pt |-> step]
        /\ \A k \in 1 .. Len(p) : q[k] = p[k]
    BY <1>0, <2>1, AppendProperties
  <2> QED BY <2>2
<1>10. \A k \in 1 .. Len(p) : p[k].pt <= step
  BY DEF Agrees
<1>11. ASSUME NEW k \in 1 .. Len(p), NEW u \in base .. step
       PROVE  StandsAt(q, k, u) <=> StandsAt(p, k, u) /\ (u = step => t > p[k].et)
  <2>1. \A m \in k + 1 .. Len(q) : m \in k + 1 .. Len(p) \/ m = Len(p) + 1
    BY <1>8, <1>9
  <2>2. \A m \in k + 1 .. Len(p) : m \in k + 1 .. Len(q) /\ q[m] = p[m]
    BY <1>8, <1>9
  <2>3. Len(p) + 1 \in k + 1 .. Len(q) /\ q[k] = p[k]
    BY <1>8, <1>9
  <2>4. step <= u <=> u = step
    BY <1>5
  <2> QED BY <1>9, <2>1, <2>2, <2>3, <2>4 DEF StandsAt
<1>12. \A u : StandsAt(q, Len(p) + 1, u)
  BY <1>8, <1>9 DEF StandsAt
\* Where an old entry has gone, and what of it is still to come.
<1>13. ASSUME NEW n \in l .. Len(s), NEW u \in base .. step
       PROVE  /\ u < step => \E m \in l .. Len(r) : /\ Same(r[m], s[n])
                                                    /\ ComesAt(r[m], u) <=> ComesAt(s[n], u)
              /\ n < h => n \in l .. Len(r) /\ r[n] = s[n]
              /\ step < s[n].et /\ ~ s[n].removed => (n < h <=> s[n].et < t)
  <2>1. CASE n < h
    <3>1. n \in l .. Len(r) /\ n \in 1 .. h - 1 /\ r[n] = s[n]
      BY <1>1, <1>2, <2>1
    <3>2. ASSUME step < s[n].et, ~ s[n].removed PROVE s[n].et < t
      <4>1. ~ (n < c)
        BY <1>3, <1>4, <1>5, <3>2
      <4>2. n \in c .. h - 1
        BY <1>1, <1>2, <2>1, <4>1
      <4> QED BY <1>7, <4>2
    <3> QED BY <2>1, <3>1, <3>2 DEF Same
  <2>2. CASE ~ (n < h)
    <3>1. n + 1 \in h + 1 .. Len(s) + 1 /\ n + 1 \in l .. Len(r) /\ (n + 1) - 1 = n
      BY <1>1, <1>2, <2>2
    <3>2. /\ Same(r[n + 1], s[n]) /\ r[n + 1].removed
          /\ r[n + 1].rt = IF s[n].removed THEN s[n].rt ELSE step
      BY <1>2, <3>1 DEF Same
    <3>3. ASSUME u < step PROVE ComesAt(r[n + 1], u) <=> ComesAt(s[n], u)
      BY <1>5, <3>2, <3>3 DEF ComesAt, Same
    <3>4. ~ (s[n].et < t)
      <4>1. h \in c .. Len(s) /\ n \in c .. Len(s) /\ h \in l .. Len(s) /\ h <= Len(s)
        BY <1>1, <1>2, <2>2
      <4>2. h = n \/ s[h].et <= s[n].et
        BY <1>2, <1>6, <2>2, <4>1
      <4>3. s[h].et \in Nat /\ s[n].et \in Nat
        BY <1>4, <4>1
      <4>4. t <= s[h].et
        BY <1>7, <4>1
      <4>5. t <= s[n].et
        BY <1>5, <4>2, <4>3, <4>4
      <4> QED BY <1>5, <4>3, <4>5
    <3> QED BY <2>2, <3>1, <3>2, <3>3, <3>4
  <2> QED BY <2>1, <2>2
\* Where an entry was.
<1>14. ASSUME NEW n \in l .. Len(r), n # h, NEW u \in base .. step, ComesAt(r[n], u)
       PROVE  \E m \in l .. Len(s) : /\ Same(r[n], s[m]) /\ ComesAt(s[m], u)
                                     /\ u = step => m < h
  <2>1. CASE n < h
    <3>1. n \in l .. Len(s) /\ n \in 1 .. h - 1 /\ r[n] = s[n]
      BY <1>1, <1>2, <2>1
    <3> QED BY <1>14, <2>1, <3>1 DEF Same
  <2>2. CASE n > h
    <3>1. n \in h + 1 .. Len(s) + 1 /\ n - 1 \in l .. Len(s)
      BY <1>1, <1>2, <2>2
    <3>2. /\ Same(r[n], s[n - 1]) /\ r[n].removed
          /\ r[n].rt = IF s[n - 1].removed THEN s[n - 1].rt ELSE step
      BY <1>2, <3>1 DEF Same
    <3>3. ComesAt(s[n - 1], u)
      BY <1>5, <1>14, <3>2 DEF ComesAt, Same
    <3>4. u # step
      <4>1. r[n].rt <= step
        BY <1>3, <1>5, <3>1, <3>2
      <4> QED BY <1>14, <3>2, <4>1 DEF ComesAt
    <3> QED BY <3>1, <3>2, <3>3, <3>4
  <2>3. n < h \/ n > h
    BY <1>1, <1>2, <1>14
  <2> QED BY <2>1, <2>2, <2>3
<1>15. ASSUME NEW u \in base .. step, NEW n \in l .. Len(r), ComesAt(r[n], u)
       PROVE  \E k \in 1 .. Len(q) : Same(q[k], r[n]) /\ StandsAt(q, k, u)
  <2>1. CASE n = h
    <3>1. Len(p) + 1 \in 1 .. Len(q)
      BY <1>8, <1>9
    <3> QED BY <1>2, <1>9, <1>12, <2>1, <3>1 DEF Same
  <2>2. CASE n # h
    <3>1. PICK m \in l .. Len(s) : /\ Same(r[n], s[m]) /\ ComesAt(s[m], u)
                                   /\ u = step => m < h
      BY <1>14, <1>15, <2>2
    <3>2. PICK k \in 1 .. Len(p) : Same(p[k], s[m]) /\ StandsAt(p, k, u)
      BY <3>1 DEF Agrees, Listed
    <3>3. ASSUME u = step PROVE t > p[k].et
      <4>1. step < s[m].et /\ ~ s[m].removed
        BY <1>3, <3>1, <3>3 DEF ComesAt
      <4>2. s[m].et < t
        BY <1>13, <3>1, <3>3, <4>1
      <4> QED BY <1>4, <1>5, <3>2, <4>2 DEF Same
    <3>4. k \in 1 .. Len(q) /\ q[k] = p[k] /\ StandsAt(q, k, u)
      BY <1>8, <1>9, <1>11, <3>2, <3>3
    <3> QED BY <3>1, <3>2, <3>4 DEF Same
  <2> QED BY <2>1, <2>2
<1>16. ASSUME NEW u \in base .. step, NEW k \in 1 .. Len(q),
              q[k].pt <= u, u < q[k].et, StandsAt(q, k, u)
       PROVE  \E n \in l .. Len(r) : Same(q[k], r[n]) /\ ComesAt(r[n], u)
  <2>1. CASE k = Len(p) + 1
    <3>1. h \in l .. Len(r) /\ Same(q[k], r[h])
      BY <1>1, <1>2, <1>9, <2>1 DEF Same
    <3>2. ComesAt(r[h], u)
      BY <1>2, <1>16, <3>1 DEF ComesAt, Same
    <3> QED BY <3>1, <3>2
  <2>2. CASE k # Len(p) + 1
    <3>1. k \in 1 .. Len(p) /\ q[k] = p[k]
      BY <1>8, <1>9, <2>2
    <3>2. StandsAt(p, k, u) /\ (u = step => t > p[k].et)
      BY <1>11, <1>16, <3>1
    <3>3. PICK n \in l .. Len(s) : Same(p[k], s[n]) /\ ComesAt(s[n], u)
      BY <1>16, <3>1, <3>2 DEF Agrees, Listed
    <3>4. CASE u = step
      <4>1. step < s[n].et /\ ~ s[n].removed /\ s[n].et < t
        BY <1>3, <1>4, <1>5, <3>2, <3>3, <3>4 DEF ComesAt, Same
      <4>2. n \in l .. Len(r) /\ r[n] = s[n]
        BY <1>13, <4>1, <3>4
      <4> QED BY <3>1, <3>3, <4>2
    <3>5. CASE u # step
      <4>1. u < step
        BY <1>5, <3>5
      <4>2. PICK m \in l .. Len(r) : Same(r[m], s[n]) /\ (ComesAt(r[m], u) <=> ComesAt(s[n], u))
        BY <1>13, <4>1
      <4> QED BY <3>1, <3>3, <4>2 DEF Same
    <3> QED BY <3>4, <3>5
  <2> QED BY <2>1, <2>2
<1>17. Skipped(r, l)
  BY QueuedSkipped DEF Agrees
<1>18. \A k \in 1 .. Len(q) : q[k].pt <= step
  <2>1. \A k \in 1 .. Len(q) : k = Len(p) + 1 \/ k \in 1 .. Len(p)
    BY <1>8, <1>9
  <2> QED BY <1>5, <1>9, <1>10, <2>1
<1> QED BY <1>9, <1>15, <1>16, <1>17, <1>18 DEF Agrees, Listed

\* Event time moves on: what the list holds does not change.
LEMMA LaterListed ==
  ASSUME NEW s, NEW c, NEW l, Links(s, c, l), NEW step \in Time, NEW base \in Time,
         Dated(s, c, l, step), NEW p, Agrees(s, l, p, step, base),
         NEW time \in Time, step <= time, base <= step
  PROVE  Agrees(s, l, p, time, base)
<1>1. step \in Nat /\ base \in Nat /\ time \in Nat /\ p \in Seq(Posted)
  BY Numbers DEF Agrees
<1>2. \A n \in l .. Len(s) : /\ s[n].et \in Nat /\ s[n].pt \in Nat /\ s[n].rt \in Nat
                             /\ s[n].pt <= step /\ (s[n].removed => s[n].rt <= step)
  <2>1. \A n \in l .. Len(s) : n \in 1 .. Len(s)
    BY LenProperties DEF Links
  <2> QED BY <2>1, ElementOfSeq, EventFields DEF Links, Dated
<1>3. Len(p) \in Nat /\ \A k \in 1 .. Len(p) : p[k].et \in Nat /\ p[k].pt \in Nat /\ p[k].pt <= step
  BY <1>1, PostedFields DEF Agrees
<1>4. ASSUME NEW u \in base .. time, step < u PROVE Listed(s, l, p, u)
  <2>0. u \in Nat
    BY <1>1
  <2>1. ASSUME NEW n \in l .. Len(s)
        PROVE  ComesAt(s[n], u) <=> ComesAt(s[n], step) /\ u < s[n].et
    <3> DEFINE e == s[n]
    <3>1. /\ e.et \in Nat /\ e.pt \in Nat /\ e.rt \in Nat
          /\ e.pt <= step /\ (e.removed => e.rt <= step)
      BY <1>2
    <3> HIDE DEF e
    <3>2. ComesAt(e, u) <=> ComesAt(e, step) /\ u < e.et
      BY <1>1, <1>4, <2>0, <3>1 DEF ComesAt
    <3> QED BY <3>2 DEF e
  <2>2. \A k \in 1 .. Len(p) : StandsAt(p, k, u) <=> StandsAt(p, k, step)
    <3>1. ASSUME NEW k \in 1 .. Len(p), NEW m \in k + 1 .. Len(p)
          PROVE  p[m].pt <= u /\ p[m].pt <= step
      <4>1. m \in 1 .. Len(p)
        BY <1>3
      <4>2. p[m].pt \in Nat /\ p[m].pt <= step
        BY <1>3, <4>1
      <4> QED BY <1>1, <1>4, <4>2
    <3> QED BY <3>1 DEF StandsAt
  <2>3. Listed(s, l, p, step)
    BY <1>1 DEF Agrees
  <2>4. ASSUME NEW k \in 1 .. Len(p), u < p[k].et
        PROVE  p[k].pt <= step /\ step < p[k].et
    BY <1>1, <1>3, <1>4, <2>4
  <2>5. ASSUME NEW n \in l .. Len(s), ComesAt(s[n], u)
        PROVE  \E k \in 1 .. Len(p) : Same(p[k], s[n]) /\ StandsAt(p, k, u)
    BY <2>1, <2>2, <2>3, <2>5 DEF Listed
  <2>6. ASSUME NEW k \in 1 .. Len(p), u < p[k].et, StandsAt(p, k, u)
        PROVE  \E n \in l .. Len(s) : Same(p[k], s[n]) /\ ComesAt(s[n], u)
    <3>1. PICK n \in l .. Len(s) : Same(p[k], s[n]) /\ ComesAt(s[n], step)
      BY <2>2, <2>3, <2>4, <2>6 DEF Listed
    <3> QED BY <2>1, <2>6, <3>1 DEF Same
  <2> QED BY <2>5, <2>6 DEF Listed
<1>5. ASSUME NEW u \in base .. time PROVE Listed(s, l, p, u)
  <2>1. u \in base .. step \/ step < u
    BY <1>1
  <2> QED BY <1>4, <2>1 DEF Agrees
<1>6. \A k \in 1 .. Len(p) : p[k].pt <= time
  BY <1>1, <1>3
<1> QED BY <1>5, <1>6 DEF Agrees

\* The posts made until time, and what is still to come of them before it.
LEMMA PostedBeforeListed ==
  ASSUME NEW s, NEW l, NEW p \in Seq(Posted), NEW time \in Time, NEW u \in Nat, u <= time,
         Listed(s, l, p, u), NEW q, q = PostedBefore(p, time)
  PROVE  /\ q \in Seq(Posted) /\ \A k \in 1 .. Len(q) : q[k].pt <= time
         /\ Listed(s, l, q, u)
<1> DEFINE ks == {k \in 1 .. Len(p) : p[k].pt <= time}
<1>1. /\ Len(p) \in Nat /\ time \in Nat
      /\ \A k \in 1 .. Len(p) : p[k].et \in Nat /\ p[k].pt \in Nat
  BY PostedFields, Numbers
<1>2. Within(ks, Len(p)) /\ \A k \in 1 .. Len(p) : p[k].pt <= u => k \in ks
  BY <1>1 DEF Within
<1>3. \A k \in ks : p[k].pt <= time /\ k \in 1 .. Len(p)
  OBVIOUS
<1>4. q = At(p, ks)
  BY DEF PostedBefore
<1> HIDE DEF ks
<1>5. q \in Seq(Posted) /\ \E f : Picks(p, q, ks, f)
  BY <1>2, <1>4, AtIs
<1>6. PICK f : Picks(p, q, ks, f)
  BY <1>5
<1>7. /\ Len(q) \in Nat
      /\ \A n \in 1 .. Len(q) : f[n] \in ks /\ f[n] \in 1 .. Len(p) /\ q[n] = p[f[n]]
      /\ \A m, n \in 1 .. Len(q) : m < n => f[m] < f[n]
      /\ \A k \in ks : \E n \in 1 .. Len(q) : f[n] = k
  BY <1>3, <1>6 DEF Picks
<1>8. ASSUME NEW n \in 1 .. Len(q) PROVE StandsAt(q, n, u) <=> StandsAt(p, f[n], u)
  <2>1. ASSUME StandsAt(p, f[n], u), NEW m \in n + 1 .. Len(q), q[m].pt <= u
        PROVE  q[m].et > q[n].et
    <3>1. m \in 1 .. Len(q) /\ n < m
      BY <1>7
    <3>2. f[m] \in f[n] + 1 .. Len(p) /\ q[m] = p[f[m]] /\ q[n] = p[f[n]]
      BY <1>1, <1>7, <3>1
    <3> QED BY <2>1, <3>2 DEF StandsAt
  <2>2. ASSUME StandsAt(q, n, u), NEW j \in f[n] + 1 .. Len(p), p[j].pt <= u
        PROVE  p[j].et > p[f[n]].et
    <3>1. j \in 1 .. Len(p) /\ f[n] < j
      BY <1>1, <1>7
    <3>2. PICK m \in 1 .. Len(q) : f[m] = j
      BY <1>2, <1>7, <2>2, <3>1
    <3>3. ~ (m < n) /\ m # n
      BY <1>1, <1>7, <3>1, <3>2
    <3>4. m \in n + 1 .. Len(q) /\ q[m] = p[j] /\ q[n] = p[f[n]]
      BY <1>7, <3>2, <3>3
    <3> QED BY <2>2, <3>4 DEF StandsAt
  <2> QED BY <2>1, <2>2 DEF StandsAt
<1>9. ASSUME NEW n \in l .. Len(s), ComesAt(s[n], u)
      PROVE  \E k \in 1 .. Len(q) : Same(q[k], s[n]) /\ StandsAt(q, k, u)
  <2>1. PICK k \in 1 .. Len(p) : Same(p[k], s[n]) /\ StandsAt(p, k, u)
    BY <1>9 DEF Listed
  <2>2. p[k].pt <= u
    BY <1>9, <2>1 DEF ComesAt, Same
  <2>3. PICK m \in 1 .. Len(q) : f[m] = k
    BY <1>2, <1>7, <2>2
  <2> QED BY <1>7, <1>8, <2>1, <2>3
<1>10. ASSUME NEW k \in 1 .. Len(q), q[k].pt <= u, u < q[k].et, StandsAt(q, k, u)
       PROVE  \E n \in l .. Len(s) : Same(q[k], s[n]) /\ ComesAt(s[n], u)
  <2>1. f[k] \in 1 .. Len(p) /\ q[k] = p[f[k]] /\ StandsAt(p, f[k], u)
    BY <1>7, <1>8, <1>10
  <2> QED BY <1>10, <2>1 DEF Listed
<1>11. \A k \in 1 .. Len(q) : q[k].pt <= time
  BY <1>3, <1>7
<1> QED BY <1>5, <1>9, <1>10, <1>11 DEF Listed

\* q is what stands of the posts p at some time, each later than the one before.
PromiseOf(q, p, time) ==
  /\ q \in Seq(Posted)
  /\ \A k \in 1 .. Len(q) : q[k].pt <= time /\ q[k].et > time
  /\ \A m, n \in 1 .. Len(q) : m < n => q[m].et < q[n].et
  /\ \A k \in 1 .. Len(q) : \E j \in 1 .. Len(p) :
       q[k] = p[j] /\ p[j].et > time /\ StandsAt(p, j, time)
  /\ \A j \in 1 .. Len(p) : p[j].et > time /\ StandsAt(p, j, time) =>
       \E k \in 1 .. Len(q) : q[k] = p[j]

LEMMA PromisedIs ==
  ASSUME NEW p \in Seq(Posted), NEW time \in Time, \A k \in 1 .. Len(p) : p[k].pt <= time
  PROVE  PromiseOf(Promised(p, time), p, time)
<1> DEFINE ks == {k \in 1 .. Len(p) : p[k].et > time /\ Stands(p, k)}
           q == Promised(p, time)
<1>1. /\ Len(p) \in Nat /\ time \in Nat
      /\ \A k \in 1 .. Len(p) : p[k].et \in Nat /\ p[k].pt \in Nat
  BY PostedFields, Numbers
<1>2. ASSUME NEW k \in 1 .. Len(p) PROVE Stands(p, k) <=> StandsAt(p, k, time)
  <2>1. \A m \in k + 1 .. Len(p) : m \in 1 .. Len(p)
    BY <1>1
  <2> QED BY <2>1 DEF Stands, StandsAt
<1>3. /\ Within(ks, Len(p))
      /\ \A k \in ks : k \in 1 .. Len(p) /\ p[k].et > time /\ StandsAt(p, k, time)
      /\ \A k \in 1 .. Len(p) : p[k].et > time /\ StandsAt(p, k, time) => k \in ks
  BY <1>2 DEF Within
<1>4. q = At(p, ks)
  BY DEF Promised
<1> HIDE DEF ks, q
<1>5. q \in Seq(Posted) /\ \E f : Picks(p, q, ks, f)
  BY <1>3, <1>4, AtIs
<1>6. PICK f : Picks(p, q, ks, f)
  BY <1>5
<1>7. /\ Len(q) \in Nat
      /\ \A n \in 1 .. Len(q) :
           /\ f[n] \in 1 .. Len(p) /\ q[n] = p[f[n]]
           /\ p[f[n]].et > time /\ StandsAt(p, f[n], time)
      /\ \A m, n \in 1 .. Len(q) : m < n => f[m] < f[n]
      /\ \A k \in ks : \E n \in 1 .. Len(q) : f[n] = k
  BY <1>3, <1>6 DEF Picks
<1>8. ASSUME NEW m \in 1 .. Len(q), NEW n \in 1 .. Len(q), m < n PROVE q[m].et < q[n].et
  <2>1. f[n] \in f[m] + 1 .. Len(p) /\ p[f[n]].pt <= time
    BY <1>1, <1>7, <1>8
  <2>2. p[f[n]].et > p[f[m]].et
    BY <1>7, <2>1 DEF StandsAt
  <2>3. p[f[n]].et \in Nat /\ p[f[m]].et \in Nat
    BY <1>1, <1>7
  <2> QED BY <1>7, <2>2, <2>3
<1>9. ASSUME NEW j \in 1 .. Len(p), p[j].et > time, StandsAt(p, j, time)
      PROVE  \E k \in 1 .. Len(q) : q[k] = p[j]
  <2>1. PICK k \in 1 .. Len(q) : f[k] = j
    BY <1>3, <1>7, <1>9
  <2> QED BY <1>7, <2>1
<1>10. PromiseOf(q, p, time)
  BY <1>5, <1>7, <1>8, <1>9 DEF PromiseOf
<1> QED BY <1>10 DEF q

\* What an accepted timepoint leaves of the list and of the posts agrees.
LEMMA AcceptedListed ==
  ASSUME NEW s, NEW c, NEW l, Links(s, c, l), NEW k \in Nat, k < c,
         NEW r, Suffix(s, r, k), NEW d, d = c - k,
         NEW step \in Time, NEW base \in Time, base <= step, Dated(s, c, l, step),
         NEW p, Agrees(s, l, p, step, base), NEW q, q = Promised(p, step)
  PROVE  Agrees(r, d, q, step, step)
<1>1. /\ s \in Seq(Event) /\ c \in Nat /\ l \in Nat /\ 1 <= l /\ l <= c /\ c <= Len(s) + 1
      /\ Len(s) \in Nat /\ step \in Nat /\ base \in Nat
  BY Numbers, LenProperties DEF Links
<1>2. /\ r \in Seq(Event) /\ Len(r) = Len(s) - k
      /\ \A n \in 1 .. Len(s) - k : r[n] = s[n + k]
  BY DEF Suffix
<1>3. d \in Nat /\ 1 <= d /\ d + k = c
  BY <1>1
<1>4. ASSUME NEW n \in d .. Len(r) PROVE n + k \in l .. Len(s) /\ r[n] = s[n + k]
  BY <1>1, <1>2, <1>3
<1>5. Skipped(r, d)
  <2>1. ASSUME NEW m \in d .. Len(r), NEW n \in d .. Len(r), m < n, r[m].et > r[n].et,
               NEW j \in d .. m
        PROVE  r[j].et <= r[n].pt \/ (r[j].removed /\ r[j].rt <= r[n].pt)
    <3>0. d \in Nat /\ m \in Int /\ n \in Int /\ j \in Int /\ l <= d + k
      BY <1>1, <1>3
    <3>4. Len(r) \in Int /\ l \in Int /\ d <= j /\ j <= m /\ m <= Len(r) /\ m < n
      BY <1>1, <1>2, <2>1
    <3>5. j + k \in Int /\ m + k \in Int /\ l <= j + k /\ j + k <= m + k
      BY <3>0, <3>4
    <3>1. j \in d .. Len(r) /\ j + k \in l .. m + k /\ m + k < n + k
      BY <3>0, <3>4, <3>5
    <3>2. /\ m + k \in l .. Len(s) /\ r[m] = s[m + k] /\ n + k \in l .. Len(s) /\ r[n] = s[n + k]
          /\ r[j] = s[j + k]
      BY <1>4, <3>1
    <3> QED BY <2>1, <3>1, <3>2 DEF Agrees, Skipped
  <2> QED BY <2>1 DEF Skipped
<1>6. /\ p \in Seq(Posted) /\ Listed(s, l, p, step) /\ \A j \in 1 .. Len(p) : p[j].pt <= step
  BY <1>1 DEF Agrees
<1>7. /\ q \in Seq(Posted)
      /\ \A j \in 1 .. Len(q) : q[j].pt <= step /\ q[j].et > step
      /\ \A m, n \in 1 .. Len(q) : m < n => q[m].et < q[n].et
      /\ \A j \in 1 .. Len(q) : \E i \in 1 .. Len(p) :
           q[j] = p[i] /\ p[i].et > step /\ StandsAt(p, i, step)
      /\ \A i \in 1 .. Len(p) : p[i].et > step /\ StandsAt(p, i, step) =>
           \E j \in 1 .. Len(q) : q[j] = p[i]
  BY <1>6, PromisedIs DEF PromiseOf
<1>8. Len(q) \in Nat /\ \A j \in 1 .. Len(q) : q[j].et \in Nat
  BY <1>7, PostedFields
<1>9. ASSUME NEW n \in d .. Len(r), ComesAt(r[n], step)
      PROVE  \E j \in 1 .. Len(q) : Same(q[j], r[n]) /\ StandsAt(q, j, step)
  <2>1. n + k \in l .. Len(s) /\ r[n] = s[n + k]
    BY <1>4
  <2>2. PICK i \in 1 .. Len(p) : Same(p[i], r[n]) /\ StandsAt(p, i, step)
    BY <1>6, <1>9, <2>1 DEF Listed
  <2>3. p[i].et > step
    BY <1>9, <2>2, <1>6, <1>1, PostedFields DEF ComesAt, Same
  <2>4. PICK j \in 1 .. Len(q) : q[j] = p[i]
    BY <1>7, <2>2, <2>3
  <2>5. StandsAt(q, j, step)
    <3>1. ASSUME NEW m \in j + 1 .. Len(q) PROVE q[m].et > q[j].et
      <4>1. m \in 1 .. Len(q) /\ j < m
        BY <1>8
      <4>2. q[j].et < q[m].et /\ q[j].et \in Nat /\ q[m].et \in Nat
        BY <1>7, <1>8, <4>1
      <4> QED BY <4>2
    <3> QED BY <3>1 DEF StandsAt
  <2> QED BY <2>2, <2>4, <2>5
<1>10. ASSUME NEW j \in 1 .. Len(q)
       PROVE  \E n \in d .. Len(r) : Same(q[j], r[n]) /\ ComesAt(r[n], step)
  <2>1. PICK i \in 1 .. Len(p) : q[j] = p[i] /\ p[i].et > step /\ StandsAt(p, i, step)
    BY <1>7
  <2>2. p[i].pt <= step /\ step < p[i].et
    BY <1>1, <1>6, <2>1, PostedFields
  <2>3. PICK n \in l .. Len(s) : Same(p[i], s[n]) /\ ComesAt(s[n], step)
    BY <1>6, <2>1, <2>2 DEF Listed
  <2>4. ~ (n < c)
    <3>1. /\ s[n].removed => s[n].rt <= step
          /\ ~ s[n].removed => (n < c <=> s[n].et <= step)
      BY DEF Dated
    <3>2. s[n].et \in Nat
      <4>1. n \in 1 .. Len(s)
        BY <1>1
      <4> QED BY <1>1, <4>1, ElementOfSeq, EventFields
    <3> QED BY <1>1, <2>3, <3>1, <3>2 DEF ComesAt
  <2>5. n - k \in d .. Len(r) /\ (n - k) + k = n
    BY <1>1, <1>2, <1>3, <2>4
  <2>6. r[n - k] = s[n]
    BY <1>4, <2>5
  <2> QED BY <2>1, <2>3, <2>5, <2>6
<1>11. \A u \in step .. step : u = step
  BY <1>1
<1>12. Listed(r, d, q, step)
  BY <1>9, <1>10 DEF Listed
<1>13. q \in Seq(Posted) /\ \A j \in 1 .. Len(q) : q[j].pt <= step
  BY <1>7
<1> QED BY <1>5, <1>11, <1>12, <1>13 DEF Agrees

\* What EVTbackup leaves of them agrees.
LEMMA BackListed ==
  ASSUME NEW s, NEW c, NEW l, Links(s, c, l), NEW step \in Time, NEW base \in Time,
         NEW time \in Time, base <= time, time <= step,
         NEW r, NEW f, ScannedBy(s, r, l, time, f),
         NEW p, Agrees(s, l, p, step, base), NEW q, q = PostedBefore(p, time)
  PROVE  Agrees(r, l, q, time, base)
<1>1. /\ Len(s) \in Nat /\ Len(r) \in Nat /\ l \in Nat
      /\ \A n \in l .. Len(r) :
           /\ f[n] \in l .. Len(s)
           /\ r[n].et = s[f[n]].et /\ r[n].pt = s[f[n]].pt /\ r[n].pt <= time
           /\ r[n].removed <=> s[f[n]].removed /\ s[f[n]].rt <= time
           /\ r[n].removed => r[n].rt = s[f[n]].rt
           /\ r[n].et \in Nat /\ r[n].pt \in Nat /\ r[n].rt \in Nat
      /\ \A m, n \in l .. Len(r) : m < n => f[m] < f[n]
      /\ \A k \in l .. Len(s) : s[k].pt <= time => \E n \in l .. Len(r) : f[n] = k
  BY ScannedEntries
<1>2. base \in Nat /\ time \in Nat /\ step \in Nat /\ p \in Seq(Posted)
  BY Numbers DEF Agrees
<1>3. \A n \in l .. Len(s) : s[n].et \in Nat /\ s[n].pt \in Nat /\ s[n].rt \in Nat
  <2>1. \A n \in l .. Len(s) : n \in 1 .. Len(s)
    BY <1>1 DEF Links
  <2> QED BY <2>1, ElementOfSeq, EventFields DEF Links
<1>4. ASSUME NEW m \in l .. Len(r), NEW n \in l .. Len(r), m < n, r[m].et > r[n].et,
             NEW j \in l .. m
      PROVE  r[j].et <= r[n].pt \/ (r[j].removed /\ r[j].rt <= r[n].pt)
  <2>1. j \in l .. Len(r) /\ (j < m \/ j = m)
    BY <1>1
  <2>2. f[j] < f[m] \/ f[j] = f[m]
    BY <1>1, <2>1
  <2>3. f[m] < f[n] /\ f[j] \in l .. f[m]
    BY <1>1, <1>4, <2>1, <2>2
  <2>4. s[f[j]].et <= s[f[n]].pt \/ (s[f[j]].removed /\ s[f[j]].rt <= s[f[n]].pt)
    BY <1>1, <1>4, <2>3 DEF Agrees, Skipped
  <2>5. s[f[j]].rt \in Nat /\ s[f[n]].pt \in Nat /\ s[f[n]].pt <= time
    BY <1>1, <1>3, <2>1
  <2>6. s[f[j]].rt <= s[f[n]].pt => s[f[j]].rt <= time
    BY <1>2, <2>5
  <2> QED BY <1>1, <2>1, <2>4, <2>6
<1>5. ASSUME NEW u \in base .. time PROVE q \in Seq(Posted) /\ Listed(r, l, q, u)
                                          /\ \A k \in 1 .. Len(q) : q[k].pt <= time
  <2>1. Listed(s, l, p, u) /\ u \in Nat /\ u <= time
    BY <1>2 DEF Agrees
  <2>2. q \in Seq(Posted) /\ Listed(s, l, q, u) /\ \A k \in 1 .. Len(q) : q[k].pt <= time
    BY <1>2, <2>1, PostedBeforeListed
  <2>3. ASSUME NEW n \in l .. Len(r)
        PROVE  /\ f[n] \in l .. Len(s) /\ r[n].et = s[f[n]].et /\ r[n].pt = s[f[n]].pt
               /\ ComesAt(r[n], u) <=> ComesAt(s[f[n]], u)
    <3>1. s[f[n]].rt \in Nat /\ f[n] \in l .. Len(s)
      BY <1>1, <1>3
    <3>2. /\ r[n].et = s[f[n]].et /\ r[n].pt = s[f[n]].pt
          /\ r[n].removed <=> s[f[n]].removed /\ s[f[n]].rt <= time
          /\ r[n].removed => r[n].rt = s[f[n]].rt
      BY <1>1
    <3> DEFINE e == s[f[n]]
               g == r[n]
    <3> HIDE DEF e, g
    <3>3. /\ g.et = e.et /\ g.pt = e.pt
          /\ g.removed <=> e.removed /\ e.rt <= time
          /\ g.removed => g.rt = e.rt
          /\ e.rt \in Nat /\ time \in Nat /\ u \in Nat /\ u <= time
      BY <1>2, <2>1, <3>1, <3>2 DEF e, g
    <3>4. g.removed /\ g.rt <= u <=> e.removed /\ e.rt <= u
      BY <3>3
    <3>5. ComesAt(g, u) <=> ComesAt(e, u)
      BY <3>3, <3>4 DEF ComesAt
    <3> QED BY <3>1, <3>2, <3>5 DEF e, g
  <2>4. ASSUME NEW n \in l .. Len(r), ComesAt(r[n], u)
        PROVE  \E k \in 1 .. Len(q) : Same(q[k], r[n]) /\ StandsAt(q, k, u)
    <3>1. PICK k \in 1 .. Len(q) : Same(q[k], s[f[n]]) /\ StandsAt(q, k, u)
      BY <2>2, <2>3, <2>4 DEF Listed
    <3> QED BY <2>3, <3>1 DEF Same
  <2>5. ASSUME NEW k \in 1 .. Len(q), q[k].pt <= u, u < q[k].et, StandsAt(q, k, u)
        PROVE  \E n \in l .. Len(r) : Same(q[k], r[n]) /\ ComesAt(r[n], u)
    <3>1. PICK i \in l .. Len(s) : Same(q[k], s[i]) /\ ComesAt(s[i], u)
      BY <2>2, <2>5 DEF Listed
    <3>2. s[i].pt <= time
      BY <1>2, <1>3, <2>1, <3>1 DEF ComesAt
    <3>3. PICK n \in l .. Len(r) : f[n] = i
      BY <1>1, <3>2
    <3> QED BY <2>3, <3>1, <3>3 DEF Same
  <2> QED BY <2>2, <2>4, <2>5 DEF Listed
<1>6. base \in base .. time
  BY <1>2
<1> QED BY <1>4, <1>5, <1>6 DEF Agrees, Skipped

LEMMA IdleListed ==
  ASSUME NEW s, NEW l, NEW step \in Time, NEW base \in Time,
         NEW time \in Time, base <= time, time <= step,
         NEW p, Agrees(s, l, p, step, base), NEW q, q = PostedBefore(p, time)
  PROVE  Agrees(s, l, q, time, base)
<1>1. base \in Nat /\ time \in Nat /\ step \in Nat /\ p \in Seq(Posted)
  BY Numbers DEF Agrees
<1>2. ASSUME NEW u \in base .. time PROVE q \in Seq(Posted) /\ Listed(s, l, q, u)
                                          /\ \A k \in 1 .. Len(q) : q[k].pt <= time
  <2>1. Listed(s, l, p, u) /\ u \in Nat /\ u <= time
    BY <1>1 DEF Agrees
  <2> QED BY <1>1, <2>1, PostedBeforeListed
<1>3. base \in base .. time
  BY <1>1
<1> QED BY <1>2, <1>3 DEF Agrees

Increasing(a) == \A m, n \in 1 .. Len(a) : m < n => a[m].et < a[n].et

Holds(a, b) == \A m \in 1 .. Len(a) : \E n \in 1 .. Len(b) : b[n] = a[m]

\* Two sequences in order of time with the same events have them at the same
\* positions.
LEMMA SamePlaces ==
  ASSUME NEW a \in Seq(Posted), NEW b \in Seq(Posted),
         Increasing(a), Increasing(b), Holds(a, b), Holds(b, a)
  PROVE  Len(a) <= Len(b) /\ \A n \in 1 .. Len(a) : a[n] = b[n]
<1> DEFINE T == {n \in 1 .. Len(a) : n > Len(b) \/ a[n] # b[n]}
<1>1. /\ Len(a) \in Nat /\ \A n \in 1 .. Len(a) : a[n].et \in Nat
      /\ Len(b) \in Nat /\ \A n \in 1 .. Len(b) : b[n].et \in Nat
  BY PostedFields
<1>2. T = {}
  <2> SUFFICES ASSUME T # {} PROVE FALSE
    OBVIOUS
  <2>1. T \subseteq Nat
    OBVIOUS
  <2>2. PICK i \in T : \A j \in T : i <= j
    BY <2>1, LeastNumber
  <2>3. i \in 1 .. Len(a) /\ (i > Len(b) \/ a[i] # b[i])
    BY <2>2
  <2>4. \A j \in 1 .. Len(a) : j < i => j \in 1 .. Len(b) /\ a[j] = b[j]
    <3>1. ASSUME NEW j \in 1 .. Len(a), j < i PROVE j \notin T
      BY <2>1, <2>2, <2>3, <3>1
    <3> QED BY <1>1, <3>1
  <2> HIDE DEF T
  <2>5. PICK j \in 1 .. Len(b) : b[j] = a[i]
    BY <2>3 DEF Holds
  <2>6. ~ (j < i)
    <3> SUFFICES ASSUME j < i PROVE FALSE
      OBVIOUS
    <3>1. j \in 1 .. Len(a) /\ a[j] = b[j]
      BY <1>1, <2>3, <2>4
    <3>2. a[j].et < a[i].et /\ a[j].et \in Nat
      BY <1>1, <2>3, <3>1 DEF Increasing
    <3> QED BY <2>5, <3>1, <3>2
  <2>7. i < j /\ i \in 1 .. Len(b)
    BY <1>1, <2>3, <2>5, <2>6
  <2>8. PICK k \in 1 .. Len(a) : a[k] = b[i]
    BY <2>7 DEF Holds
  <2>9. ~ (k < i)
    <3> SUFFICES ASSUME k < i PROVE FALSE
      OBVIOUS
    <3>1. k \in 1 .. Len(b) /\ a[k] = b[k]
      BY <2>4
    <3>2. b[k].et < b[i].et /\ b[k].et \in Nat
      BY <1>1, <2>7, <3>1 DEF Increasing
    <3> QED BY <2>8, <3>1, <3>2
  <2>10. i < k
    BY <1>1, <2>3, <2>7, <2>8, <2>9
  <2>11. a[i].et < a[k].et /\ b[i].et < b[j].et
    BY <2>3, <2>7, <2>10 DEF Increasing
  <2> QED BY <1>1, <2>3, <2>5, <2>7, <2>8, <2>11
<1>3. \A n \in 1 .. Len(a) : n <= Len(b) /\ a[n] = b[n]
  BY <1>1, <1>2
<1>4. Len(a) <= Len(b)
  BY <1>1, <1>3
<1> QED BY <1>3, <1>4

LEMMA SameInOrder ==
  ASSUME NEW a \in Seq(Posted), NEW b \in Seq(Posted),
         Increasing(a), Increasing(b), Holds(a, b), Holds(b, a)
  PROVE  a = b
<1>1. Len(a) <= Len(b) /\ \A n \in 1 .. Len(a) : a[n] = b[n]
  BY SamePlaces
<1>2. Len(b) <= Len(a)
  BY SamePlaces
<1>3. Len(a) = Len(b)
  BY <1>1, <1>2, LenProperties
<1> QED BY <1>1, <1>3, SeqEqual

\* What is still to come, as the list s has it from c on.
Coming(s, c) ==
  LET rest == At(s, {n \in c .. Len(s) : NotRemoved(s[n])})
  IN [n \in 1 .. Len(rest) |-> [et |-> rest[n].et, pt |-> rest[n].pt]]

LEMMA ComingIsPromised ==
  ASSUME NEW s, NEW c, NEW l, Links(s, c, l), NEW step \in Time, NEW base \in Time,
         base <= step, Good(s, c, l, step, base), NEW p, Agrees(s, l, p, step, base)
  PROVE  Coming(s, c) = Promised(p, step)
<1> DEFINE ks == {n \in c .. Len(s) : NotRemoved(s[n])}
           rest == At(s, ks)
           a == Coming(s, c)
           q == Promised(p, step)
<1>1. /\ s \in Seq(Event) /\ c \in Nat /\ l \in Nat /\ 1 <= l /\ l <= c
      /\ Len(s) \in Nat /\ step \in Nat /\ base \in Nat
  BY Numbers, LenProperties DEF Links
<1>2. \A n \in 1 .. Len(s) : /\ s[n].et \in Time /\ s[n].pt \in Time
                             /\ s[n].et \in Nat /\ s[n].pt \in Nat /\ s[n].rt \in Nat
  BY <1>1, ElementOfSeq, EventFields
<1>3. \A n \in l .. Len(s) :
        /\ s[n].pt <= step /\ (s[n].removed => s[n].rt <= step)
        /\ ~ s[n].removed => (n < c <=> s[n].et <= step)
  BY DEF Good, Dated
\* The entries that count are those still to come at the event time.
<1>4. /\ \A n \in ks : n \in 1 .. Len(s) /\ n \in l .. Len(s) /\ ComesAt(s[n], step)
                       /\ ~ s[n].removed
      /\ \A n \in l .. Len(s) : ComesAt(s[n], step) => n \in ks
  <2>1. ASSUME NEW n \in l .. Len(s), ~ s[n].removed
        PROVE  n \in 1 .. Len(s) /\ (ComesAt(s[n], step) <=> ~ (n < c))
    <3>1. n \in 1 .. Len(s)
      BY <1>1
    <3> QED BY <1>1, <1>2, <1>3, <2>1, <3>1 DEF ComesAt
  <2>2. \A n \in l .. Len(s) : ComesAt(s[n], step) => ~ s[n].removed
    BY <1>3 DEF ComesAt
  <2>3. \A n \in c .. Len(s) : n \in l .. Len(s) /\ ~ (n < c)
    BY <1>1
  <2>4. \A n \in l .. Len(s) : ~ (n < c) => n \in c .. Len(s)
    BY <1>1
  <2> QED BY <2>1, <2>2, <2>3, <2>4 DEF NotRemoved
<1>5. Within(ks, Len(s))
  BY <1>4 DEF Within
<1>6. a = [n \in 1 .. Len(rest) |-> [et |-> rest[n].et, pt |-> rest[n].pt]]
  BY DEF Coming
<1> HIDE DEF ks, a
<1>7. rest \in Seq(Event) /\ \E f : Picks(s, rest, ks, f)
  BY <1>1, <1>5, AtIs
<1> HIDE DEF rest
<1>8. PICK f : Picks(s, rest, ks, f)
  BY <1>7
<1>9. /\ Len(rest) \in Nat
      /\ \A n \in 1 .. Len(rest) : f[n] \in ks /\ rest[n] = s[f[n]]
      /\ \A m, n \in 1 .. Len(rest) : m < n => f[m] < f[n]
      /\ \A k \in ks : \E n \in 1 .. Len(rest) : f[n] = k
  BY <1>8 DEF Picks
<1>10. a \in [1 .. Len(rest) -> Posted]
  BY <1>2, <1>4, <1>6, <1>9 DEF Posted
<1>11. a \in Seq(Posted) /\ Len(a) = Len(rest)
  BY <1>9, <1>10, FunctionIsSeq
<1>12. \A n \in 1 .. Len(a) : /\ f[n] \in ks /\ a[n] \in Posted
                              /\ a[n].et = s[f[n]].et /\ a[n].pt = s[f[n]].pt
  BY <1>6, <1>9, <1>10, <1>11
<1>13. Increasing(a)
  <2>1. ASSUME NEW m \in 1 .. Len(a), NEW n \in 1 .. Len(a), m < n
        PROVE  a[m].et < a[n].et
    <3>1. f[m] < f[n] /\ f[m] \in ks /\ f[n] \in ks
      BY <1>9, <1>11, <2>1
    <3>2. Pair(s[f[m]], s[f[n]]) /\ ~ s[f[m]].removed /\ ~ s[f[n]].removed
      BY <1>4, <3>1 DEF Good, Ordered
    <3> QED BY <1>12, <3>2 DEF Pair
  <2> QED BY <2>1 DEF Increasing
<1>14. /\ p \in Seq(Posted) /\ \A k \in 1 .. Len(p) : p[k].pt <= step
       /\ Listed(s, l, p, step)
  BY <1>1 DEF Agrees
<1>15. PromiseOf(q, p, step)
  BY <1>14, PromisedIs
<1> HIDE DEF q
<1>16. /\ q \in Seq(Posted) /\ Increasing(q)
       /\ Len(q) \in Nat /\ \A k \in 1 .. Len(q) : q[k] \in Posted
  BY <1>15, PostedFields DEF PromiseOf, Increasing
<1>17. \A d \in Posted, e \in Posted : Same(d, e) => d = e
  BY DEF Posted, Same
<1>18. \A k \in 1 .. Len(p) : p[k] \in Posted /\ p[k].pt \in Nat /\ p[k].et \in Nat
  BY <1>14, PostedFields
<1>19. Holds(a, q)
  <2>1. ASSUME NEW m \in 1 .. Len(a) PROVE \E n \in 1 .. Len(q) : q[n] = a[m]
    <3>1. f[m] \in l .. Len(s) /\ ComesAt(s[f[m]], step)
      BY <1>4, <1>12
    <3>2. PICK k \in 1 .. Len(p) : Same(p[k], s[f[m]]) /\ StandsAt(p, k, step)
      BY <1>14, <3>1 DEF Listed
    <3>3. p[k].et > step
      BY <1>1, <1>18, <3>1, <3>2 DEF ComesAt, Same
    <3>4. PICK n \in 1 .. Len(q) : q[n] = p[k]
      BY <1>15, <3>2, <3>3 DEF PromiseOf
    <3>5. Same(p[k], a[m])
      BY <1>12, <3>2 DEF Same
    <3> QED BY <1>12, <1>17, <1>18, <3>4, <3>5
  <2> QED BY <2>1 DEF Holds
<1>20. Holds(q, a)
  <2>1. ASSUME NEW m \in 1 .. Len(q) PROVE \E n \in 1 .. Len(a) : a[n] = q[m]
    <3>1. PICK k \in 1 .. Len(p) : q[m] = p[k] /\ p[k].et > step /\ StandsAt(p, k, step)
      BY <1>15 DEF PromiseOf
    <3>2. p[k].pt <= step /\ step < p[k].et
      BY <1>1, <1>14, <1>18, <3>1
    <3>3. PICK i \in l .. Len(s) : Same(p[k], s[i]) /\ ComesAt(s[i], step)
      BY <1>14, <3>1, <3>2 DEF Listed
    <3>4. PICK n \in 1 .. Len(a) : f[n] = i
      BY <1>4, <1>9, <1>11, <3>3
    <3>5. Same(a[n], q[m])
      BY <1>12, <3>1, <3>3, <3>4 DEF Same
    <3> QED BY <1>12, <1>16, <1>17, <3>5
  <2> QED BY <2>1 DEF Holds
<1>21. a = q
  BY <1>11, <1>13, <1>16, <1>19, <1>20, SameInOrder
<1> QED BY <1>21 DEF a, q

-----------------------------------------------------------------------------
(* The promise is kept as long as no output is misled.                      *)

Promise(o) == Agrees(list[o], last_step[o], posts[o], evt_step, last_time)

PromiseKept ==
  misled = {} => posts \in [Outputs -> Seq(Posted)] /\ \A o \in Outputs : Promise(o)

LEMMA TimesAre ==
  ASSUME QueueInv, OrderInv
  PROVE  /\ evt_step \in Time /\ last_time \in Time /\ target \in Time
         /\ last_time <= evt_step
         /\ phase = "loop" => evt_step <= target
         /\ phase = "solve" => evt_step = target
         /\ \A o \in Outputs :
              /\ Links(list[o], current[o], last_step[o])
              /\ Good(list[o], current[o], last_step[o], evt_step, last_time)
BY StateIs DEF QueueInv, TypeOK, RoundShape, OrderInv, StepOrder

LEMMA PostPromise ==
  ASSUME QueueInv, OrderInv, posts \in [Outputs -> Seq(Posted)],
         \A o \in Outputs : Promise(o),
         NEW x \in Outputs, NEW delay \in Delays[x], Post(x, delay)
  PROVE  posts' \in [Outputs -> Seq(Posted)] /\ \A o \in Outputs : Promise(o)'
<1> DEFINE s == list[x]
           r == list'[x]
           c == current[x]
           l == last_step[x]
           p == posts[x]
           q == posts'[x]
           t == evt_step + delay
<1>1. /\ UNCHANGED <<current, last_step, last_time, evt_step>>
      /\ posts' = [posts EXCEPT ![x] = Append(@, [et |-> evt_step + delay, pt |-> evt_step])]
  BY DEF Post, EVTqueue_output
<1>2. /\ t \in Time /\ evt_step < t
      /\ \E h \in Nat : QueuedAt(s, r, c, t, evt_step, h)
      /\ \A o \in Outputs : o # x => list'[o] = list[o]
  BY PostLists
<1>3. /\ evt_step \in Time /\ last_time \in Time
      /\ Links(s, c, l) /\ Good(s, c, l, evt_step, last_time)
  BY TimesAre
<1>4. p \in Seq(Posted) /\ q = Append(p, [et |-> t, pt |-> evt_step])
  BY <1>1
<1>5. Agrees(s, l, p, evt_step, last_time)
  BY DEF Promise
<1> HIDE DEF s, r, c, l, p, q, t
<1>6. Agrees(r, l, q, evt_step, last_time)
  <2>1. PICK h \in Nat : QueuedAt(s, r, c, t, evt_step, h)
    BY <1>2
  <2>2. Dated(s, c, l, evt_step) /\ HeadStands(s, c)
    BY <1>3 DEF Good
  <2>3. Links(s, c, l)
    BY <1>3
  <2>4. t \in Time /\ evt_step \in Time /\ last_time \in Time /\ evt_step < t
    BY <1>2, <1>3
  <2>5. WithPost(p, q, t, evt_step)
    BY <1>4 DEF WithPost
  <2> QED BY <1>5, <2>1, <2>2, <2>3, <2>4, <2>5, QueuedListed
<1>7. Promise(x)'
  BY <1>1, <1>6 DEF Promise, r, l, q
<1>8. ASSUME NEW o \in Outputs, o # x PROVE Promise(o)'
  <2>1. list'[o] = list[o] /\ posts'[o] = posts[o]
    BY <1>1, <1>2, <1>8
  <2> QED BY <1>1, <2>1 DEF Promise
<1>9. posts' \in [Outputs -> Seq(Posted)]
  <2>1. q \in Seq(Posted)
    BY <1>6 DEF Agrees
  <2>2. posts' = [posts EXCEPT ![x] = q]
    BY <1>1, <1>4 DEF q
  <2> QED BY <2>1, <2>2
<1> QED BY <1>7, <1>8, <1>9

\* Event time moves on, and the lists and the posts stay.
LEMMA LaterPromise ==
  ASSUME QueueInv, OrderInv, \A o \in Outputs : Promise(o),
         UNCHANGED <<list, last_step, posts, last_time>>, evt_step' \in Time,
         evt_step <= evt_step', NEW o \in Outputs
  PROVE  Promise(o)'
<1> DEFINE s == list[o]
           c == current[o]
           l == last_step[o]
           p == posts[o]
           step == evt_step'
<1>1. /\ evt_step \in Time /\ last_time \in Time /\ last_time <= evt_step
      /\ Links(s, c, l) /\ Good(s, c, l, evt_step, last_time)
      /\ Agrees(s, l, p, evt_step, last_time)
  BY TimesAre DEF Promise
<1>2. Dated(s, c, l, evt_step) /\ step \in Time /\ evt_step <= step
  BY <1>1 DEF Good
<1> HIDE DEF s, c, l, p, step
<1>3. Agrees(s, l, p, step, last_time)
  BY <1>1, <1>2, LaterListed
<1> QED BY <1>3 DEF Promise, s, l, p, step

LEMMA AcceptPromise ==
  ASSUME QueueInv, OrderInv, \A o \in Outputs : Promise(o), EVTaccept
  PROVE  posts' \in [Outputs -> Seq(Posted)] /\ \A o \in Outputs : Promise(o)'
<1>1. ASSUME NEW o \in Outputs PROVE Promise(o)'
  <2> DEFINE s == list[o]
             r == list'[o]
             c == current[o]
             l == last_step[o]
             m == last_step'[o]
             p == posts[o]
             q == posts'[o]
  <2>1. /\ evt_step' = evt_step /\ last_time' = evt_step /\ evt_step = target
        /\ q = Promised(p, evt_step)
        /\ evt_step \in Time /\ last_time \in Time /\ last_time <= evt_step
        /\ Links(s, c, l) /\ Good(s, c, l, evt_step, last_time)
        /\ o \notin modified => Idle(s, c, l, last_time)
        /\ Agrees(s, l, p, evt_step, last_time)
    BY TimesAre DEF EVTaccept, OrderInv, Promise
  <2>2. \/ o \notin modified /\ r = s /\ m = l
        \/ \E k \in Nat : k < c /\ Suffix(s, r, k) /\ m = c - k
    BY AcceptLists
  <2>3. Dated(s, c, l, evt_step)
    BY <2>1 DEF Good
  <2> HIDE DEF s, r, c, l, m, p, q
  <2>4. \E k \in Nat : k < c /\ Suffix(s, r, k) /\ m = c - k
    <3>1. CASE o \notin modified /\ r = s /\ m = l
      <4>1. c = l
        BY <2>1, <3>1 DEF Idle
      <4>2. s \in Seq(Event) /\ Len(s) \in Nat /\ c \in Nat /\ 1 <= c
        BY <2>1, LenProperties DEF Links
      <4>3. Suffix(s, s, 0) /\ 0 < c /\ m = c - 0 /\ 0 \in Nat
        BY <3>1, <4>1, <4>2 DEF Suffix
      <4> QED BY <3>1, <4>3
    <3> QED BY <2>2, <3>1
  <2>5. Agrees(r, m, q, evt_step, evt_step)
    BY <2>1, <2>3, <2>4, AcceptedListed
  <2> QED BY <2>1, <2>5 DEF Promise, r, m, q
<1>2. posts' \in [Outputs -> Seq(Posted)]
  <2>1. posts' = [o \in Outputs |-> posts'[o]]
    BY DEF EVTaccept
  <2>2. \A o \in Outputs : posts'[o] \in Seq(Posted)
    BY <1>1 DEF Promise, Agrees
  <2> QED BY <2>1, <2>2
<1> QED BY <1>1, <1>2

LEMMA BackPromise ==
  ASSUME QueueInv, OrderInv, \A o \in Outputs : Promise(o), NEW time \in Time, Backup(time)
  PROVE  posts' \in [Outputs -> Seq(Posted)] /\ \A o \in Outputs : Promise(o)'
<1>1. ASSUME NEW o \in Outputs PROVE Promise(o)'
  <2> DEFINE s == list[o]
             r == list'[o]
             c == current[o]
             l == last_step[o]
             p == posts[o]
             q == posts'[o]
  <2>1. /\ evt_step' = time /\ last_time' = last_time /\ last_step' = last_step
        /\ time <= evt_step /\ last_time <= time
        /\ q = PostedBefore(p, time)
        /\ evt_step \in Time /\ last_time \in Time
        /\ Links(s, c, l)
        /\ Agrees(s, l, p, evt_step, last_time)
    <3>1. evt_step' = time /\ evt_step = target /\ last_time < time /\ time < target
      BY TimesAre DEF Backup
    <3>2. time \in Nat /\ last_time \in Nat /\ target \in Nat
      BY StateIs, Numbers
    <3>3. time <= evt_step /\ last_time <= time
      BY <3>1, <3>2
    <3> QED BY <3>1, <3>3, TimesAre DEF Backup, EVTbackup_output_queue, Promise
  <2>2. \/ r = s
        \/ \E f : ScannedBy(s, r, l, time, f)
    BY BackLists
  <2> HIDE DEF s, r, c, l, p, q
  <2>3. Agrees(r, l, q, time, last_time)
    BY <2>1, <2>2, BackListed, IdleListed
  <2> QED BY <2>1, <2>3 DEF Promise, r, l, q
<1>2. posts' \in [Outputs -> Seq(Posted)]
  <2>1. posts' = [o \in Outputs |-> posts'[o]]
    BY DEF Backup
  <2>2. \A o \in Outputs : posts'[o] \in Seq(Posted)
    BY <1>1 DEF Promise, Agrees
  <2> QED BY <2>1, <2>2
<1> QED BY <1>1, <1>2

LEMMA PromiseStep == QueueInv /\ Unmisled /\ PromiseKept /\ [Next]_vars => PromiseKept'
<1> DEFINE Goal == posts' \in [Outputs -> Seq(Posted)] /\ \A o \in Outputs : Promise(o)'
<1> SUFFICES ASSUME QueueInv, Unmisled, PromiseKept, [Next]_vars, misled' = {} PROVE Goal
  BY DEF PromiseKept
<1>1. misled = {}
  BY DEF Next, vars, Post, EventRound, EndRound, StartStep, Backup, Solve, EVTaccept
<1>2. OrderInv /\ posts \in [Outputs -> Seq(Posted)] /\ \A o \in Outputs : Promise(o)
  BY <1>1 DEF Unmisled, PromiseKept
<1>3. ASSUME NEW x \in Outputs, NEW delay \in Delays[x], Post(x, delay) PROVE Goal
  BY <1>2, <1>3, PostPromise
<1>4. ASSUME UNCHANGED <<list, last_step, posts, last_time>>, evt_step' \in Time,
             evt_step <= evt_step'
      PROVE  Goal
  BY <1>2, <1>4, LaterPromise
<1>5. ASSUME UNCHANGED <<list, last_step, posts, last_time, evt_step>> PROVE Goal
  BY <1>2, <1>5 DEF Promise
<1>6. ASSUME NEW time \in Time, EventRound(time) PROVE Goal
  <2>1. UNCHANGED <<list, last_step, posts, last_time>> /\ evt_step' = time
    BY <1>6 DEF EventRound, EVTdequeue_output, queue
  <2>2. evt_step <= time
    <3>1. (time = next_time /\ pending # {}) \/ evt_step <= time
      BY <1>6 DEF EventRound
    <3>2. time \in Nat /\ evt_step \in Nat
      BY StateIs, Numbers
    <3>3. pending # {} => next_time > evt_step
      BY <1>2, NextIsLater
    <3> QED BY <3>1, <3>2, <3>3
  <2> QED BY <1>4, <2>1, <2>2
<1>7. ASSUME NEW time \in Time, Backup(time) PROVE Goal
  BY <1>2, <1>7, BackPromise
<1>8. CASE Solve
  <2>1. UNCHANGED <<list, last_step, posts, last_time>> /\ evt_step' = target /\ phase = "loop"
    BY <1>8 DEF Solve, queue
  <2>2. target \in Time /\ evt_step <= target
    BY <1>2, <2>1, TimesAre
  <2> QED BY <1>4, <2>1, <2>2
<1>9. CASE EVTaccept
  BY <1>2, <1>9, AcceptPromise
<1>10. CASE \E t \in Time : EndRound(t) \/ StartStep(t)
  BY <1>5, <1>10 DEF EndRound, StartStep, queue
<1>11. CASE UNCHANGED vars
  BY <1>5, <1>11 DEF vars
<1> HIDE DEF Goal
<1> QED BY <1>3, <1>6, <1>7, <1>8, <1>9, <1>10, <1>11 DEF Next

LEMMA PromiseStart == Init => PromiseKept
<1> SUFFICES ASSUME Init PROVE posts \in [Outputs -> Seq(Posted)] /\ \A o \in Outputs : Promise(o)
  BY DEF PromiseKept
<1>1. /\ posts = [o \in Outputs |-> <<>>] /\ evt_step = 0 /\ last_time = 0
      /\ \A o \in Outputs : list[o] = <<>> /\ last_step[o] = 1
  BY DEF Init
<1>2. <<>> \in Seq(Posted) /\ Len(<<>>) = 0
  BY EmptySeq
<1>3. Agrees(<<>>, 1, <<>>, 0, 0)
  BY <1>2 DEF Agrees, Listed, Skipped
<1> QED BY <1>1, <1>2, <1>3 DEF Promise

\* Until some output is misled, what the list of an output has from `current' on
\* is what the output has posted and not cancelled since, in order of time: no
\* rejected work, and nothing accepted, has been lost or left behind.
THEOREM QueueKeepsPromises == Spec => []QueueIsPromise
<1>1. Init => QueueInv /\ Unmisled /\ PromiseKept
  BY QueueStart, UnmisledStart, PromiseStart
<1>2. QueueInv /\ Unmisled /\ PromiseKept /\ [Next]_vars => QueueInv' /\ Unmisled' /\ PromiseKept'
  BY QueueStep, UnmisledStep, PromiseStep
<1>3. QueueInv /\ Unmisled /\ PromiseKept => QueueIsPromise
  <2> SUFFICES ASSUME QueueInv, Unmisled, PromiseKept, misled = {}, NEW o \in Outputs
               PROVE  ToCome(o) = Promised(posts[o], evt_step)
    BY DEF QueueIsPromise
  <2>1. /\ evt_step \in Time /\ last_time \in Time /\ last_time <= evt_step
        /\ Links(list[o], current[o], last_step[o])
        /\ Good(list[o], current[o], last_step[o], evt_step, last_time)
        /\ Agrees(list[o], last_step[o], posts[o], evt_step, last_time)
    BY TimesAre DEF Unmisled, PromiseKept, Promise
  <2>2. Coming(list[o], current[o]) = Promised(posts[o], evt_step)
    BY <2>1, ComingIsPromised
  <2> QED BY <2>2 DEF ToCome, Coming
<1> QED BY <1>1, <1>2, <1>3, PTL DEF Spec

-----------------------------------------------------------------------------
(* The nodes.                                                               *)

NodeItem(n) == [step : Time, val : [Driven(n) -> Values]]

\* The values of a node with the position of the accepted one.
NodeShape(n, s, last) == s \in Seq(NodeItem(n)) /\ last \in 1 .. Len(s)

NodesOK ==
  /\ rhsold \in [Outputs -> Values]
  /\ to_eval \subseteq Nodes /\ node_modified \subseteq Nodes
  /\ \A n \in Nodes : NodeShape(n, data[n], node_last[n])

NodeInv == QueueInv /\ NodesOK

LEMMA RoundIsNext == [RoundNext]_<<vars, nodes>> => [Next]_vars
<1> SUFFICES ASSUME [RoundNext]_<<vars, nodes>> PROVE [Next]_vars
  OBVIOUS
<1>1. ASSUME NEW o \in Outputs, NEW d \in Delays[o], Post(o, d) PROVE Next
  BY <1>1 DEF Next
<1>2. ASSUME NEW t \in Time, Dequeue(t) \/ EVTiter(t) \/ EVTbackup(t) \/ StartStep(t) PROVE Next
  BY <1>2 DEF Dequeue, EVTiter, EVTbackup, Next
<1>3. ASSUME Solve \/ AcceptNodes PROVE Next
  BY <1>3 DEF AcceptNodes, Next
<1> QED BY <1>1, <1>2, <1>3 DEF RoundNext

LEMMA EntryTyped ==
  ASSUME NodeInv, NEW n
  PROVE  NodeEntry(n) \in NodeItem(n)
<1>1. evt_step \in Time /\ rhsold \in [Outputs -> Values] /\ Driven(n) \subseteq Outputs
  BY DEF NodeInv, QueueInv, TypeOK, NodesOK, Driven
<1> QED BY <1>1 DEF NodeEntry, NodeItem

\* A cut exists: the first position that is the last or whose next is later.
Cut(s, last, t) ==
  CHOOSE p \in last .. Len(s) :
    /\ p = Len(s) \/ s[p + 1].step > t
    /\ \A q \in last .. p - 1 : s[q + 1].step <= t

LEMMA CutIs ==
  ASSUME NEW n, NEW s, NEW last, NodeShape(n, s, last), NEW t \in Time
  PROVE  /\ Cut(s, last, t) \in last .. Len(s)
         /\ Cut(s, last, t) = Len(s) \/ s[Cut(s, last, t) + 1].step > t
         /\ \A q \in last .. Cut(s, last, t) - 1 : s[q + 1].step <= t
<1> DEFINE T == {p \in last .. Len(s) : p = Len(s) \/ s[p + 1].step > t}
<1>1. /\ Len(s) \in Nat /\ last \in Nat /\ 1 <= last /\ last <= Len(s) /\ t \in Nat
      /\ \A p \in 1 .. Len(s) : s[p] \in NodeItem(n)
  <2>1. s \in Seq(NodeItem(n)) /\ last \in 1 .. Len(s)
    BY DEF NodeShape
  <2>2. Len(s) \in Nat /\ \A p \in 1 .. Len(s) : s[p] \in NodeItem(n)
    BY <2>1, LenProperties, ElementOfSeq
  <2> QED BY <2>1, <2>2, Numbers
<1>2. T \subseteq Nat /\ Len(s) \in T
  BY <1>1
<1> HIDE DEF T
<1>3. PICK p \in T : \A q \in T : p <= q
  BY <1>2, LeastNumber
<1>4. p \in last .. Len(s) /\ (p = Len(s) \/ s[p + 1].step > t)
  BY <1>3 DEF T
<1>5. ASSUME NEW q \in last .. p - 1 PROVE s[q + 1].step <= t
  <2>1. q \in last .. Len(s) /\ ~ (p <= q) /\ q # Len(s) /\ q + 1 \in 1 .. Len(s)
    BY <1>1, <1>4
  <2>2. ~ (s[q + 1].step > t)
    BY <1>3, <2>1 DEF T
  <2>3. s[q + 1].step \in Nat
    BY <1>1, <2>1, Numbers DEF NodeItem
  <2> QED BY <1>1, <2>2, <2>3
<1>6. \E x \in last .. Len(s) : /\ x = Len(s) \/ s[x + 1].step > t
                                /\ \A q \in last .. x - 1 : s[q + 1].step <= t
  BY <1>4, <1>5
<1> QED BY <1>6 DEF Cut

\* The part of a node's list that a backup keeps.
LEMMA PrefixIs ==
  ASSUME NEW S, NEW s \in Seq(S), NEW p \in 1 .. Len(s)
  PROVE  /\ SubSeq(s, 1, p) \in Seq(S) /\ Len(SubSeq(s, 1, p)) = p
         /\ \A q \in 1 .. p : SubSeq(s, 1, p)[q] = s[q]
<1>1. Len(s) \in Nat /\ \A q \in 1 .. Len(s) : s[q] \in S
  BY LenProperties, ElementOfSeq
<1> QED BY <1>1, SubSeqProperties

LEMMA AppendIs ==
  ASSUME NEW S, NEW s \in Seq(S), NEW e \in S
  PROVE  /\ Append(s, e) \in Seq(S) /\ Len(Append(s, e)) = Len(s) + 1 /\ Len(s) \in Nat
         /\ \A q \in 1 .. Len(s) : Append(s, e)[q] = s[q]
         /\ Append(s, e)[Len(s) + 1] = e
BY AppendProperties, LenProperties

LEMMA DequeueNodes ==
  ASSUME NodeInv, NEW time \in Time, Dequeue(time)
  PROVE  NodesOK'
<1> DEFINE value(o) == ValueIn(o, list[o][current[o]])
           differ == {o \in changed' : value(o) # rhsold[o]}
<1>1. /\ rhsold' = [o \in Outputs |-> IF o \in differ THEN value(o) ELSE rhsold[o]]
      /\ to_eval' = {NodeOf[o] : o \in differ}
      /\ UNCHANGED <<data, node_last, node_modified>>
      /\ EventRound(time)
  BY DEF Dequeue
<1>2. changed' \subseteq Outputs
  BY <1>1, RoundQueue DEF NodeInv, QueueInv, TypeOK
<1>3. ASSUME NEW o \in changed' PROVE value(o) \in Values
  <2> DEFINE s == list[o]
             c == current[o]
  <2>1. o \in Outputs /\ c <= Len(s) /\ Links(s, c, last_step[o]) /\ PostedAhead(s)
    BY <1>1, <1>2, RoundLists, SoundNow DEF NodeInv, Sound
  <2>2. value(o) = ValueOf[o][s[c].et - s[c].pt]
    BY DEF ValueIn
  <2> HIDE DEF s, c, value
  <2>3. c \in 1 .. Len(s) /\ s \in Seq(Event)
    BY <2>1, LenProperties DEF Links
  <2>4. s[c] \in Event /\ s[c].et > s[c].pt
    BY <2>1, <2>3, ElementOfSeq DEF PostedAhead
  <2>5. s[c].et \in Nat /\ s[c].pt \in Nat /\ s[c].et <= MaxTime
    BY <2>4, EventFields, Numbers
  <2>6. s[c].et - s[c].pt \in Time
    BY <2>4, <2>5, Numbers DEF Time
  <2> QED BY <2>1, <2>2, <2>6, NodeAssumption
<1> HIDE DEF value
<1>4. rhsold' \in [Outputs -> Values]
  BY <1>1, <1>3 DEF NodeInv, NodesOK
<1>5. to_eval' \subseteq Nodes
  BY <1>1, <1>2, NodeAssumption
<1> QED BY <1>1, <1>4, <1>5 DEF NodeInv, NodesOK

LEMMA IterNodes ==
  ASSUME NodeInv, NEW t \in Time, EVTiter(t)
  PROVE  NodesOK'
<1>1. /\ data' = [n \in Nodes |-> IF n \in to_eval THEN Append(data[n], NodeEntry(n))
                                  ELSE data[n]]
      /\ node_modified' = node_modified \cup to_eval
      /\ to_eval' = {}
      /\ UNCHANGED <<rhsold, node_last>>
  BY DEF EVTiter
<1>2. ASSUME NEW n \in Nodes PROVE NodeShape(n, data'[n], node_last[n])
  <2> DEFINE s == data[n]
             last == node_last[n]
             e == NodeEntry(n)
  <2>1. NodeShape(n, s, last) /\ e \in NodeItem(n)
    BY EntryTyped DEF NodeInv, NodesOK
  <2>2. data'[n] = s \/ data'[n] = Append(s, e)
    BY <1>1
  <2> HIDE DEF s, last, e
  <2>3. NodeShape(n, Append(s, e), last)
    <3>1. s \in Seq(NodeItem(n)) /\ last \in 1 .. Len(s)
      BY <2>1 DEF NodeShape
    <3>2. Append(s, e) \in Seq(NodeItem(n)) /\ Len(Append(s, e)) = Len(s) + 1 /\ Len(s) \in Nat
      BY <2>1, <3>1, AppendIs
    <3> QED BY <3>1, <3>2 DEF NodeShape
  <2>4. NodeShape(n, data'[n], last)
    BY <2>1, <2>2, <2>3
  <2> QED BY <2>4 DEF last
<1> QED BY <1>1, <1>2 DEF NodeInv, NodesOK

LEMMA AcceptNodesOK ==
  ASSUME NodeInv, AcceptNodes
  PROVE  /\ NodesOK'
         /\ \A n \in Nodes : node_last'[n] = IF n \in node_modified THEN Len(data'[n])
                                             ELSE node_last[n]
         /\ \A n \in Nodes : \/ data'[n] = data[n]
                             \/ n \in node_modified /\ data'[n] = <<LastOf(data[n])>>
<1> DEFINE keep == IF target >= InitTime THEN Saved ELSE {}
<1>1. /\ data' = [n \in Nodes |-> IF n \in node_modified \ keep THEN <<LastOf(data[n])>>
                                  ELSE data[n]]
      /\ node_last' = [n \in Nodes |-> IF n \in node_modified THEN Len(data'[n])
                                       ELSE node_last[n]]
      /\ node_modified' = {}
      /\ UNCHANGED <<rhsold, to_eval>>
  BY DEF AcceptNodes
<1> HIDE DEF keep
<1>2. ASSUME NEW n \in Nodes
      PROVE  /\ NodeShape(n, data'[n], node_last'[n])
             /\ node_last'[n] = IF n \in node_modified THEN Len(data'[n]) ELSE node_last[n]
             /\ \/ data'[n] = data[n]
                \/ n \in node_modified /\ data'[n] = <<LastOf(data[n])>>
  <2> DEFINE s == data[n]
             r == data'[n]
             last == node_last[n]
             one == LastOf(s)
  <2>1. NodeShape(n, s, last)
    BY DEF NodeInv, NodesOK
  <2>2. /\ r = s \/ (n \in node_modified /\ r = <<one>>)
        /\ n \in node_modified => node_last'[n] = Len(r)
        /\ n \notin node_modified => node_last'[n] = last
    BY <1>1
  <2> HIDE DEF s, r, last, one
  <2>3. s \in Seq(NodeItem(n)) /\ last \in 1 .. Len(s) /\ Len(s) \in Nat
    BY <2>1, LenProperties DEF NodeShape
  <2>4. one \in NodeItem(n)
    BY <2>3, ElementOfSeq DEF LastOf, one
  <2>5. r \in Seq(NodeItem(n)) /\ Len(r) \in Nat /\ Len(r) >= 1
    <3>1. <<one>> \in Seq(NodeItem(n)) /\ Len(<<one>>) = 1
      BY <2>4
    <3>2. r = s \/ r = <<one>>
      BY <2>2
    <3>3. Len(s) >= 1
      BY <2>3
    <3>4. CASE r = s
      BY <2>3, <3>3, <3>4
    <3>5. CASE r = <<one>>
      <4> DEFINE w == <<one>>
      <4>1. w \in Seq(NodeItem(n)) /\ Len(w) = 1 /\ r = w
        BY <3>1, <3>5
      <4> HIDE DEF w
      <4> QED BY <4>1
    <3> QED BY <3>2, <3>4, <3>5
  <2>6. NodeShape(n, r, node_last'[n])
    BY <2>2, <2>3, <2>5 DEF NodeShape
  <2> QED BY <2>2, <2>6 DEF s, r, last, one
<1> QED BY <1>1, <1>2 DEF NodeInv, NodesOK

LEMMA BackNodes ==
  ASSUME NodeInv, NEW t \in Time, EVTbackup(t)
  PROVE  /\ NodesOK'
         /\ \A n \in Nodes :
              data'[n] = IF n \in node_modified
                         THEN SubSeq(data[n], 1, Cut(data[n], node_last[n], t)) ELSE data[n]
<1>1. /\ data' = [n \in Nodes |-> IF n \in node_modified
                                  THEN SubSeq(data[n], 1, NodeCut(n, t)) ELSE data[n]]
      /\ rhsold' = [o \in Outputs |-> IF NodeOf[o] \in node_modified
                                      THEN LastOf(data'[NodeOf[o]]).val[o] ELSE rhsold[o]]
      /\ node_modified' \subseteq node_modified
      /\ UNCHANGED <<to_eval, node_last>>
  BY DEF EVTbackup
<1>2. \A n \in Nodes : NodeCut(n, t) = Cut(data[n], node_last[n], t)
  BY DEF NodeCut, Cut
<1>3. ASSUME NEW n \in Nodes
      PROVE  /\ NodeShape(n, data'[n], node_last[n])
             /\ data'[n] = IF n \in node_modified
                           THEN SubSeq(data[n], 1, Cut(data[n], node_last[n], t)) ELSE data[n]
             /\ LastOf(data'[n]) \in NodeItem(n)
  <2> DEFINE s == data[n]
             r == data'[n]
             last == node_last[n]
             p == Cut(s, last, t)
  <2>1. NodeShape(n, s, last)
    BY DEF NodeInv, NodesOK
  <2>2. r = IF n \in node_modified THEN SubSeq(s, 1, p) ELSE s
    BY <1>1, <1>2
  <2> HIDE DEF s, r, last, p
  <2>3. s \in Seq(NodeItem(n)) /\ last \in 1 .. Len(s) /\ Len(s) \in Nat
    BY <2>1, LenProperties DEF NodeShape
  <2>4. p \in last .. Len(s)
    BY <2>1, CutIs DEF p
  <2>5. SubSeq(s, 1, p) \in Seq(NodeItem(n)) /\ Len(SubSeq(s, 1, p)) = p
    <3>1. p \in 1 .. Len(s)
      BY <2>3, <2>4
    <3> QED BY <2>3, <3>1, PrefixIs
  <2>6. r \in Seq(NodeItem(n)) /\ last \in 1 .. Len(r)
    BY <2>2, <2>3, <2>4, <2>5
  <2>7. NodeShape(n, r, last)
    BY <2>6 DEF NodeShape
  <2>8. LastOf(r) \in NodeItem(n)
    <3>1. Len(r) \in 1 .. Len(r)
      BY <2>6
    <3> QED BY <2>6, <3>1, ElementOfSeq DEF LastOf
  <2> QED BY <2>2, <2>7, <2>8 DEF s, r, last, p
<1>4. ASSUME NEW o \in Outputs, NodeOf[o] \in node_modified
      PROVE  LastOf(data'[NodeOf[o]]).val[o] \in Values
  <2>1. NodeOf[o] \in Nodes /\ o \in Driven(NodeOf[o])
    BY NodeAssumption DEF Driven
  <2>2. LastOf(data'[NodeOf[o]]).val \in [Driven(NodeOf[o]) -> Values]
    BY <1>3, <2>1 DEF NodeItem
  <2> QED BY <2>1, <2>2
<1>5. rhsold' \in [Outputs -> Values]
  BY <1>1, <1>4 DEF NodeInv, NodesOK
<1> QED BY <1>1, <1>3, <1>5 DEF NodeInv, NodesOK

LEMMA NodeStep == NodeInv /\ [RoundNext]_<<vars, nodes>> => NodeInv'
<1> SUFFICES ASSUME NodeInv, [RoundNext]_<<vars, nodes>> PROVE NodeInv'
  OBVIOUS
<1>1. QueueInv'
  BY RoundIsNext, QueueStep DEF NodeInv
<1>2. ASSUME UNCHANGED nodes PROVE NodesOK'
  BY <1>2 DEF NodeInv, NodesOK, nodes
<1>3. ASSUME NEW t \in Time, Dequeue(t) \/ EVTiter(t) \/ EVTbackup(t) PROVE NodesOK'
  BY <1>3, DequeueNodes, IterNodes, BackNodes
<1>4. ASSUME AcceptNodes PROVE NodesOK'
  BY <1>4, AcceptNodesOK
<1>5. NodesOK'
  BY <1>2, <1>3, <1>4 DEF RoundNext
<1> QED BY <1>1, <1>5 DEF NodeInv

LEMMA NodeStart == RoundInit => NodeInv
<1> SUFFICES ASSUME RoundInit PROVE NodeInv
  OBVIOUS
<1>1. QueueInv
  BY QueueStart DEF RoundInit
<1>2. ASSUME NEW n \in Nodes PROVE NodeShape(n, data[n], node_last[n])
  <2> DEFINE e == NodeEntry(n)
  <2>1. evt_step \in Time /\ rhsold \in [Outputs -> Values] /\ Driven(n) \subseteq Outputs
    BY <1>1 DEF QueueInv, TypeOK, RoundInit, Driven
  <2>2. e \in NodeItem(n)
    BY <2>1 DEF NodeEntry, NodeItem
  <2>3. data[n] = <<e>> /\ node_last[n] = 1
    BY DEF RoundInit
  <2> HIDE DEF e
  <2>4. <<e>> \in Seq(NodeItem(n)) /\ Len(<<e>>) = 1
    BY <2>2
  <2>5. NodeShape(n, <<e>>, 1)
    BY <2>4 DEF NodeShape
  <2> QED BY <2>3, <2>5
<1> QED BY <1>1, <1>2 DEF RoundInit, NodeInv, NodesOK

\* Adding the nodes leaves the queue's behaviour as it was.
THEOREM RoundImplementsQueue == RoundSpec => Spec
<1>1. RoundInit => Init
  BY DEF RoundInit
<1> QED BY <1>1, RoundIsNext, PTL DEF RoundSpec, Spec

\* The values of every node keep their shape, and the entry `last_step' leads to
\* is one of them: neither EVTaccept nor EVTbackup drops it.
THEOREM RoundTypeCorrect == RoundSpec => []RoundTypeOK
<1>1. NodeInv => RoundTypeOK
  BY DEF NodeInv, QueueInv, NodesOK, NodeShape, NodeItem, RoundTypeOK
<1> QED BY <1>1, NodeStart, NodeStep, PTL DEF RoundSpec

-----------------------------------------------------------------------------
(* The lists of node values are the abstract record of them.                *)

Rising(s) == \A p, q \in 1 .. Len(s) : p < q => s[p].step <= s[q].step

\* Values are in order of time, none later than `step'; the one at `last' held
\* at the last accepted timepoint.
Recorded(s, last, step, base) ==
  Rising(s) /\ LastOf(s).step <= step /\ s[last].step <= base

NodeOrdered(n) ==
  /\ Recorded(data[n], node_last[n], evt_step, last_time)
  /\ n \notin node_modified => node_last[n] = Len(data[n])

NodesOrdered == misled = {} => \A n \in Nodes : NodeOrdered(n)

LEMMA ShapeIs ==
  ASSUME NEW n, NEW s, NEW last, NodeShape(n, s, last)
  PROVE  /\ s \in Seq(NodeItem(n)) /\ Len(s) \in Nat /\ last \in Nat
         /\ 1 <= last /\ last <= Len(s) /\ last \in 1 .. Len(s) /\ Len(s) \in 1 .. Len(s)
         /\ \A p \in 1 .. Len(s) : s[p] \in NodeItem(n) /\ s[p].step \in Nat
<1>1. s \in Seq(NodeItem(n)) /\ last \in 1 .. Len(s)
  BY DEF NodeShape
<1>2. Len(s) \in Nat /\ \A p \in 1 .. Len(s) : s[p] \in NodeItem(n)
  BY <1>1, LenProperties, ElementOfSeq
<1>3. \A p \in 1 .. Len(s) : s[p].step \in Nat
  BY <1>2, Numbers DEF NodeItem
<1> QED BY <1>1, <1>2, <1>3

\* What the backup of a node cuts off is what came after the time.
LEMMA CutCounts ==
  ASSUME NEW n, NEW s, NEW last, NodeShape(n, s, last), NEW t \in Time,
         Rising(s), s[last].step <= t
  PROVE  NodeRecord!CountBy(s, t) = Cut(s, last, t) /\ s[Cut(s, last, t)].step <= t
<1> DEFINE c == Cut(s, last, t)
<1>1. /\ Len(s) \in Nat /\ last \in Nat /\ 1 <= last /\ last <= Len(s) /\ t \in Nat
      /\ \A p \in 1 .. Len(s) : s[p].step \in Nat
  BY ShapeIs, Numbers
<1>2. /\ c \in last .. Len(s)
      /\ c = Len(s) \/ s[c + 1].step > t
      /\ \A q \in last .. c - 1 : s[q + 1].step <= t
  BY CutIs
<1> HIDE DEF c
<1>3. s[c].step <= t
  <2>1. CASE c = last
    BY <2>1
  <2>2. CASE c # last
    <3>1. c - 1 \in last .. c - 1 /\ (c - 1) + 1 = c
      BY <1>1, <1>2, <2>2
    <3> QED BY <1>2, <3>1
  <2> QED BY <2>1, <2>2
<1>4. ASSUME NEW i \in 1 .. Len(s), NEW j \in 1 .. Len(s), i < j,
             i = Len(s) \/ s[i + 1].step > t, s[j].step <= t
      PROVE  FALSE
  <2>1. i + 1 \in 1 .. Len(s) /\ (i + 1 = j \/ i + 1 < j) /\ i # Len(s)
    BY <1>1, <1>4
  <2>2. s[i + 1].step <= s[j].step
    BY <1>1, <2>1 DEF Rising
  <2>3. s[i + 1].step \in Nat /\ s[j].step \in Nat
    BY <1>1, <2>1
  <2> QED BY <1>1, <1>4, <2>1, <2>2, <2>3
<1>5. c \in 1 .. Len(s)
  BY <1>1, <1>2
<1>6. ASSUME NEW i \in 1 .. Len(s), s[i].step <= t, i = Len(s) \/ s[i + 1].step > t
      PROVE  i = c
  <2>1. i < c \/ c < i \/ i = c
    BY <1>1, <1>5
  <2> QED BY <1>2, <1>3, <1>4, <1>5, <1>6, <2>1
<1>7. NodeRecord!CountBy(s, t) = c
  BY <1>2, <1>3, <1>5, <1>6 DEF NodeRecord!CountBy
<1> QED BY <1>3, <1>7 DEF c

LEMMA AppendRecorded ==
  ASSUME NEW n, NEW s, NEW last, NodeShape(n, s, last), NEW e \in NodeItem(n),
         NEW step, e.step = step, NEW base, Recorded(s, last, step, base)
  PROVE  Recorded(Append(s, e), last, step, base)
<1> DEFINE r == Append(s, e)
<1>1. /\ s \in Seq(NodeItem(n)) /\ Len(s) \in Nat /\ last \in 1 .. Len(s)
      /\ Len(s) \in 1 .. Len(s) /\ \A p \in 1 .. Len(s) : s[p].step \in Nat
      /\ step \in Nat
  BY ShapeIs, Numbers DEF NodeItem
<1>2. /\ r \in Seq(NodeItem(n)) /\ Len(r) = Len(s) + 1
      /\ \A p \in 1 .. Len(s) : r[p] = s[p]
      /\ r[Len(s) + 1] = e
  BY <1>1, AppendIs
<1>3. Rising(s) /\ s[Len(s)].step <= step /\ s[last].step <= base
  BY DEF Recorded, LastOf
<1> HIDE DEF r
<1>4. ASSUME NEW p \in 1 .. Len(s) PROVE s[p].step <= step
  <2>1. p = Len(s) \/ p < Len(s)
    BY <1>1
  <2>2. s[p].step <= s[Len(s)].step
    BY <1>1, <1>3, <2>1 DEF Rising
  <2>3. s[p].step \in Nat /\ s[Len(s)].step \in Nat
    BY <1>1
  <2> QED BY <1>1, <1>3, <2>2, <2>3
<1>5. ASSUME NEW p \in 1 .. Len(r), NEW q \in 1 .. Len(r), p < q
      PROVE  r[p].step <= r[q].step
  <2>1. CASE q = Len(s) + 1
    <3>1. p \in 1 .. Len(s)
      BY <1>1, <1>2, <1>5, <2>1
    <3> QED BY <1>2, <1>4, <2>1, <3>1
  <2>2. CASE q # Len(s) + 1
    <3>1. p \in 1 .. Len(s) /\ q \in 1 .. Len(s)
      BY <1>1, <1>2, <1>5, <2>2
    <3> QED BY <1>2, <1>3, <1>5, <3>1 DEF Rising
  <2> QED BY <2>1, <2>2
<1>6. LastOf(r).step <= step
  BY <1>1, <1>2 DEF LastOf
<1>7. r[last].step <= base
  BY <1>1, <1>2, <1>3
<1> QED BY <1>5, <1>6, <1>7 DEF Recorded, Rising, r

LEMMA CutRecorded ==
  ASSUME NEW n, NEW s, NEW last, NodeShape(n, s, last), NEW t \in Time,
         NEW step, NEW base \in Time, base < t, Recorded(s, last, step, base)
  PROVE  LET r == SubSeq(s, 1, Cut(s, last, t)) IN
         /\ Recorded(r, last, t, base) /\ Len(r) = Cut(s, last, t)
         /\ r = NodeRecord!Upto(s, t)
<1> DEFINE c == Cut(s, last, t)
           r == SubSeq(s, 1, c)
<1>1. /\ s \in Seq(NodeItem(n)) /\ Len(s) \in Nat /\ last \in Nat
      /\ 1 <= last /\ last <= Len(s) /\ t \in Nat /\ base \in Nat
      /\ \A p \in 1 .. Len(s) : s[p].step \in Nat
  BY ShapeIs, Numbers
<1>2. Rising(s) /\ s[last].step <= base /\ s[last].step <= t
  <2>1. Rising(s) /\ s[last].step <= base
    BY DEF Recorded
  <2>2. s[last].step \in Nat
    BY <1>1
  <2> QED BY <1>1, <2>1, <2>2
<1>3. c \in last .. Len(s) /\ NodeRecord!CountBy(s, t) = c /\ s[c].step <= t
  BY <1>2, CutIs, CutCounts
<1>4. r = NodeRecord!Upto(s, t)
  BY <1>3 DEF NodeRecord!Upto
<1> HIDE DEF c
<1>5. c \in 1 .. Len(s) /\ c \in Nat /\ last <= c
  BY <1>1, <1>3
<1>6. Len(r) = c /\ \A q \in 1 .. c : r[q] = s[q]
  BY <1>1, <1>5, PrefixIs
<1> HIDE DEF r
<1>7. Rising(r)
  <2>1. ASSUME NEW p \in 1 .. Len(r), NEW q \in 1 .. Len(r), p < q
        PROVE  r[p].step <= r[q].step
    <3>1. p \in 1 .. Len(s) /\ q \in 1 .. Len(s)
      BY <1>1, <1>5, <1>6
    <3> QED BY <1>2, <1>6, <2>1, <3>1 DEF Rising
  <2> QED BY <2>1 DEF Rising
<1>8. LastOf(r).step <= t /\ r[last].step <= base
  BY <1>1, <1>2, <1>3, <1>5, <1>6 DEF LastOf
<1> QED BY <1>4, <1>6, <1>7, <1>8 DEF Recorded, r, c

LEMMA OneRecorded ==
  ASSUME NEW n, NEW s, NEW last, NodeShape(n, s, last), NEW step, NEW base,
         Recorded(s, last, step, base), NEW r, NEW m,
         \/ r = s /\ m = Len(s)
         \/ r = <<LastOf(s)>> /\ m = 1
  PROVE  Recorded(r, m, step, step)
<1>1. CASE r = s /\ m = Len(s)
  BY <1>1 DEF Recorded, LastOf
<1>2. CASE r = <<LastOf(s)>> /\ m = 1
  <2> DEFINE e == LastOf(s)
  <2>1. r = <<e>> /\ e.step <= step
    BY <1>2 DEF Recorded
  <2> HIDE DEF e
  <2>2. Len(r) = 1 /\ r[1] = e
    BY <2>1
  <2> QED BY <1>2, <2>1, <2>2 DEF Recorded, Rising, LastOf
<1> QED BY <1>1, <1>2

LEMMA LaterRecorded ==
  ASSUME NEW n, NEW s, NEW last, NodeShape(n, s, last), NEW step \in Nat, NEW base,
         Recorded(s, last, step, base), NEW time \in Nat, step <= time
  PROVE  Recorded(s, last, time, base)
<1>1. LastOf(s).step \in Nat
  BY ShapeIs DEF LastOf
<1>2. Rising(s) /\ LastOf(s).step <= step /\ s[last].step <= base
  BY DEF Recorded
<1>3. LastOf(s).step <= time
  BY <1>1, <1>2
<1> QED BY <1>2, <1>3 DEF Recorded

\* What is assumed of a state with no output misled, and what follows from it.
NodeFacts == NodeInv /\ OrderInv /\ \A n \in Nodes : NodeOrdered(n)

LEMMA DequeueRecord ==
  ASSUME NodeFacts, NEW time \in Time, Dequeue(time)
  PROVE  /\ \A n \in Nodes : NodeOrdered(n)'
         /\ NodeRecord!Advance(time)
<1>1. /\ UNCHANGED <<data, node_last, node_modified>> /\ EventRound(time)
      /\ evt_step' = time /\ phase = "loop"
      /\ (time = next_time /\ pending # {}) \/ evt_step <= time
  BY DEF Dequeue, EventRound
<1>2. last_time' = last_time
  BY <1>1 DEF EventRound, EVTdequeue_output, queue
<1>3. evt_step <= time /\ evt_step \in Nat /\ time \in Nat
  BY <1>1, StateIs, NextIsLater, Numbers DEF NodeFacts, NodeInv
<1>4. ASSUME NEW n \in Nodes PROVE NodeOrdered(n)'
  <2>1. NodeShape(n, data[n], node_last[n])
    BY DEF NodeFacts, NodeInv, NodesOK
  <2>2. Recorded(data[n], node_last[n], evt_step, last_time)
    BY DEF NodeFacts, NodeOrdered
  <2>3. Recorded(data[n], node_last[n], time, last_time)
    BY <1>3, <2>1, <2>2, LaterRecorded
  <2> QED BY <1>1, <1>2, <2>3 DEF NodeFacts, NodeOrdered
<1>5. NodeRecord!Advance(time)
  BY <1>1, <1>2, <1>3 DEF NodeRecord!Advance
<1> QED BY <1>4, <1>5

LEMMA SolveRecord ==
  ASSUME NodeFacts, Solve, UNCHANGED nodes
  PROVE  /\ \A n \in Nodes : NodeOrdered(n)'
         /\ NodeRecord!Advance(target)
<1>1. /\ UNCHANGED <<data, node_last, node_modified>> /\ evt_step' = target
      /\ phase = "loop" /\ last_time' = last_time
  BY DEF Solve, nodes, queue
<1>2. evt_step <= target /\ evt_step \in Nat /\ target \in Nat
  BY <1>1, StateIs DEF NodeFacts, NodeInv, OrderInv, StepOrder
<1>3. ASSUME NEW n \in Nodes PROVE NodeOrdered(n)'
  <2>1. NodeShape(n, data[n], node_last[n])
    BY DEF NodeFacts, NodeInv, NodesOK
  <2>2. Recorded(data[n], node_last[n], evt_step, last_time)
    BY DEF NodeFacts, NodeOrdered
  <2>3. Recorded(data[n], node_last[n], target, last_time)
    BY <1>2, <2>1, <2>2, LaterRecorded
  <2> QED BY <1>1, <2>3 DEF NodeFacts, NodeOrdered
<1>4. NodeRecord!Advance(target)
  BY <1>1, <1>2 DEF NodeRecord!Advance
<1> QED BY <1>3, <1>4

LEMMA IterRecord ==
  ASSUME NodeFacts, NEW t \in Time, EVTiter(t)
  PROVE  /\ \A n \in Nodes : NodeOrdered(n)'
         /\ \E ks \in SUBSET Nodes :
              \E new \in [ks -> UNION {[Driven(n) -> Values] : n \in Nodes}] :
                NodeRecord!Write(new)
<1>1. /\ data' = [n \in Nodes |-> IF n \in to_eval THEN Append(data[n], NodeEntry(n))
                                  ELSE data[n]]
      /\ node_modified' = node_modified \cup to_eval
      /\ node_last' = node_last /\ evt_step' = evt_step /\ last_time' = last_time
  BY DEF EVTiter, EndRound, queue
<1>2. /\ to_eval \subseteq Nodes /\ rhsold \in [Outputs -> Values]
      /\ \A n \in Nodes : NodeEntry(n) \in NodeItem(n)
  BY EntryTyped DEF NodeFacts, NodeInv, NodesOK
<1>3. ASSUME NEW n \in Nodes PROVE NodeOrdered(n)'
  <2> DEFINE s == data[n]
             e == NodeEntry(n)
             last == node_last[n]
  <2>1. /\ NodeShape(n, s, last)
        /\ Recorded(s, last, evt_step, last_time) /\ (n \notin node_modified => last = Len(s))
    BY DEF NodeFacts, NodeInv, NodesOK, NodeOrdered
  <2>2. e \in NodeItem(n) /\ e.step = evt_step
    BY <1>2 DEF NodeEntry
  <2>3. /\ n \in to_eval => data'[n] = Append(s, e) /\ n \in node_modified'
        /\ n \notin to_eval => data'[n] = s /\ (n \notin node_modified' => n \notin node_modified)
    BY <1>1
  <2> HIDE DEF s, e, last
  <2>4. Recorded(data'[n], last, evt_step, last_time)
    BY <2>1, <2>2, <2>3, AppendRecorded
  <2>5. n \notin node_modified' => last = Len(data'[n])
    BY <2>1, <2>3
  <2> QED BY <1>1, <2>4, <2>5 DEF NodeOrdered, last
<1> DEFINE new == [n \in to_eval |-> [o \in Driven(n) |-> rhsold[o]]]
           Vals == UNION {[Driven(n) -> Values] : n \in Nodes}
<1>4. new \in [to_eval -> Vals]
  <2>1. ASSUME NEW n \in to_eval PROVE [o \in Driven(n) |-> rhsold[o]] \in Vals
    <3>1. [o \in Driven(n) |-> rhsold[o]] \in [Driven(n) -> Values]
      BY <1>2 DEF Driven
    <3> QED BY <1>2, <3>1
  <2> QED BY <2>1
<1>5. NodeRecord!Write(new)
  <2>1. DOMAIN new = to_eval
    OBVIOUS
  <2>2. \A n \in to_eval : NodeEntry(n) = [step |-> evt_step, val |-> new[n]]
    BY DEF NodeEntry
  <2> HIDE DEF new
  <2>3. data' = [n \in Nodes |-> IF n \in DOMAIN new
                                 THEN Append(data[n], [step |-> evt_step, val |-> new[n]])
                                 ELSE data[n]]
    BY <1>1, <2>1, <2>2
  <2> QED BY <1>1, <2>3 DEF NodeRecord!Write
<1> QED BY <1>2, <1>3, <1>4, <1>5

LEMMA AcceptRecord ==
  ASSUME NodeFacts, AcceptNodes
  PROVE  /\ \A n \in Nodes : NodeOrdered(n)'
         /\ \E ks \in SUBSET Nodes : NodeRecord!Accept(ks)
<1> DEFINE keep == IF target >= InitTime THEN Saved ELSE {}
<1>1. /\ EVTaccept /\ node_modified' = {} /\ phase = "solve"
      /\ evt_step' = evt_step /\ last_time' = target /\ evt_step = target
      /\ data' = [n \in Nodes |-> IF n \in node_modified \ keep THEN <<LastOf(data[n])>>
                                  ELSE data[n]]
  BY DEF AcceptNodes, EVTaccept, NodeFacts, NodeInv, QueueInv, RoundShape
<1>2. ASSUME NEW n \in Nodes PROVE NodeOrdered(n)'
  <2> DEFINE s == data[n]
             r == data'[n]
             m == node_last'[n]
  <2>1. /\ NodeShape(n, s, node_last[n])
        /\ Recorded(s, node_last[n], target, last_time)
        /\ n \notin node_modified => node_last[n] = Len(s)
    BY <1>1 DEF NodeFacts, NodeInv, NodesOK, NodeOrdered
  <2>2. /\ m = IF n \in node_modified THEN Len(r) ELSE node_last[n]
        /\ r = s \/ (n \in node_modified /\ r = <<LastOf(s)>>)
    BY AcceptNodesOK DEF NodeFacts
  <2> HIDE DEF s, r, m
  <2>3. (r = s /\ m = Len(s)) \/ (r = <<LastOf(s)>> /\ m = 1)
    <3>1. Len(<<LastOf(s)>>) = 1
      OBVIOUS
    <3> QED BY <2>1, <2>2, <3>1
  <2>4. Recorded(r, m, target, target)
    BY <2>1, <2>3, OneRecorded
  <2>5. m = Len(r)
    BY <2>1, <2>2
  <2> QED BY <1>1, <2>4, <2>5 DEF NodeOrdered, r, m
<1>3. NodeRecord!Accept(node_modified \ keep)
  BY <1>1 DEF NodeRecord!Accept, LastOf
<1>4. node_modified \ keep \in SUBSET Nodes
  BY DEF NodeFacts, NodeInv, NodesOK
<1> QED BY <1>2, <1>3, <1>4

LEMMA BackRecord ==
  ASSUME NodeFacts, NEW t \in Time, EVTbackup(t)
  PROVE  /\ \A n \in Nodes : NodeOrdered(n)'
         /\ NodeRecord!Retract(t)
<1>1. /\ phase = "solve" /\ evt_step' = t /\ last_time' = last_time
      /\ last_time < t /\ t < target /\ evt_step = target
      /\ node_last' = node_last
      /\ node_modified' = {n \in node_modified : Len(data'[n]) > node_last[n]}
      /\ last_time \in Time /\ last_time \in Nat /\ t \in Nat
      /\ DOMAIN data' = Nodes
      /\ data' = [n \in Nodes |-> data'[n]]
  BY StateIs, Numbers
  DEF EVTbackup, Backup, EVTbackup_output_queue, NodeFacts, NodeInv, QueueInv, TypeOK, RoundShape
<1>0. last_time < t /\ t < target /\ last_time \in Time
  BY <1>1
<1>2. ASSUME NEW n \in Nodes
      PROVE  NodeOrdered(n)' /\ data'[n] = NodeRecord!Upto(data[n], t)
  <2> DEFINE s == data[n]
             r == data'[n]
             last == node_last[n]
             c == Cut(s, last, t)
  <2>1. /\ NodeShape(n, s, last)
        /\ Recorded(s, last, target, last_time) /\ (n \notin node_modified => last = Len(s))
    BY <1>1 DEF NodeFacts, NodeInv, NodesOK, NodeOrdered
  <2>2. r = IF n \in node_modified THEN SubSeq(s, 1, c) ELSE s
    BY BackNodes DEF NodeFacts
  <2>3. n \notin node_modified' <=> n \notin node_modified \/ ~ (Len(r) > last)
    BY <1>1
  <2> HIDE DEF s, r, last
  <2>4. /\ Len(s) \in Nat /\ last \in Nat /\ 1 <= last /\ last <= Len(s)
        /\ s \in Seq(NodeItem(n))
    BY <2>1, ShapeIs
  <2>5. /\ Recorded(SubSeq(s, 1, c), last, t, last_time) /\ Len(SubSeq(s, 1, c)) = c
        /\ SubSeq(s, 1, c) = NodeRecord!Upto(s, t)
    <3>1. NodeShape(n, s, last) /\ Recorded(s, last, target, last_time)
      BY <2>1
    <3>2. last_time < t /\ last_time \in Time
      BY <1>0
    <3> QED BY <3>1, <3>2, CutRecorded, Zenon
  <2>6. c \in last .. Len(s)
    BY <2>1, CutIs
  <2> HIDE DEF c
  <2>7. r = SubSeq(s, 1, c)
    <3>1. CASE n \in node_modified
      BY <2>2, <3>1
    <3>2. CASE n \notin node_modified
      <4>1. c = Len(s)
        BY <2>1, <2>4, <2>6, <3>2
      <4>2. SubSeq(s, 1, Len(s)) = s
        BY <2>4, SubSeqFull
      <4> QED BY <2>2, <3>2, <4>1, <4>2
    <3> QED BY <3>1, <3>2
  <2>8. n \notin node_modified' => last = Len(r)
    <3>1. Len(r) = c
      BY <2>5, <2>7
    <3> QED BY <2>1, <2>2, <2>3, <2>4, <2>6, <3>1
  <2> QED BY <1>1, <2>5, <2>7, <2>8 DEF NodeOrdered, s, r, last
<1>3. data' = [n \in Nodes |-> NodeRecord!Upto(data[n], t)]
  BY <1>1, <1>2
<1>4. NodeRecord!Retract(t)
  BY <1>1, <1>3 DEF NodeRecord!Retract
<1> QED BY <1>2, <1>4

LEMMA RecordStep ==
  ASSUME NodeFacts, [RoundNext]_<<vars, nodes>>
  PROVE  /\ \A n \in Nodes : NodeOrdered(n)'
         /\ [NodeRecord!Next]_<<data, evt_step, last_time>>
<1>1. ASSUME UNCHANGED <<data, evt_step, last_time, node_last, node_modified>>
      PROVE  \A n \in Nodes : NodeOrdered(n)'
  BY <1>1 DEF NodeFacts, NodeOrdered
<1>2. ASSUME NEW o \in Outputs, NEW d \in Delays[o], Post(o, d), UNCHANGED nodes
      PROVE  UNCHANGED <<data, evt_step, last_time, node_last, node_modified>>
  BY <1>2 DEF Post, EVTqueue_output, nodes
<1>3. ASSUME NEW t \in Time, StartStep(t), UNCHANGED nodes
      PROVE  UNCHANGED <<data, evt_step, last_time, node_last, node_modified>>
  BY <1>3 DEF StartStep, queue, nodes
<1>4. ASSUME UNCHANGED <<vars, nodes>>
      PROVE  UNCHANGED <<data, evt_step, last_time, node_last, node_modified>>
  BY <1>4 DEF vars, nodes
<1>5. ASSUME NEW t \in Time, Dequeue(t) \/ EVTbackup(t) \/ EVTiter(t)
      PROVE  (\A n \in Nodes : NodeOrdered(n)') /\ NodeRecord!Next
  BY <1>5, DequeueRecord, BackRecord, IterRecord DEF NodeRecord!Next, NodeRecord!Time, Time
<1>6. ASSUME Solve, UNCHANGED nodes
      PROVE  (\A n \in Nodes : NodeOrdered(n)') /\ NodeRecord!Next
  <2>1. target \in Time
    BY DEF NodeFacts, NodeInv, QueueInv, TypeOK
  <2> QED BY <1>6, <2>1, SolveRecord DEF NodeRecord!Next, NodeRecord!Time, Time
<1>7. ASSUME AcceptNodes
      PROVE  (\A n \in Nodes : NodeOrdered(n)') /\ NodeRecord!Next
  BY <1>7, AcceptRecord DEF NodeRecord!Next
<1> QED BY <1>1, <1>2, <1>3, <1>4, <1>5, <1>6, <1>7 DEF RoundNext

AllInv == NodeInv /\ Unmisled /\ NodesOrdered

LEMMA AllStep == AllInv /\ [RoundNext]_<<vars, nodes>> => AllInv'
<1> SUFFICES ASSUME AllInv, [RoundNext]_<<vars, nodes>> PROVE AllInv'
  OBVIOUS
<1>1. NodeInv' /\ Unmisled'
  BY NodeStep, UnmisledStep, RoundIsNext DEF AllInv, NodeInv
<1>2. misled' = {} => misled = {}
  BY RoundIsNext DEF Next, vars, Post, EventRound, EndRound, StartStep, Backup, Solve, EVTaccept
<1>3. ASSUME misled = {} PROVE \A n \in Nodes : NodeOrdered(n)'
  BY <1>3, RecordStep DEF AllInv, NodeFacts, Unmisled, NodesOrdered
<1>4. NodesOrdered'
  BY <1>2, <1>3 DEF NodesOrdered
<1> QED BY <1>1, <1>4 DEF AllInv

LEMMA AllStart == RoundInit => AllInv
<1> SUFFICES ASSUME RoundInit PROVE AllInv
  OBVIOUS
<1>1. NodeInv /\ Unmisled
  BY NodeStart, UnmisledStart DEF RoundInit
<1>2. ASSUME NEW n \in Nodes PROVE NodeOrdered(n)
  <2> DEFINE e == NodeEntry(n)
  <2>1. data[n] = <<e>> /\ node_last[n] = 1 /\ e.step = 0 /\ evt_step = 0 /\ last_time = 0
    BY DEF RoundInit, Init, NodeEntry
  <2> HIDE DEF e
  <2>2. Len(<<e>>) = 1 /\ <<e>>[1] = e
    OBVIOUS
  <2>3. Recorded(<<e>>, 1, 0, 0)
    BY <2>1, <2>2 DEF Recorded, Rising, LastOf
  <2> QED BY <2>1, <2>2, <2>3 DEF NodeOrdered
<1> QED BY <1>1, <1>2 DEF AllInv, NodesOrdered

\* Until some output is misled, the lists of node values are the abstract record:
\* EVTiter adds a value to each node it evaluates, a backup takes away exactly the
\* values of the time it goes back over, and accepting forgets none that holds.
THEOREM NodeRefinement == RoundSpec => NodeRecordSpec
<1>1. RoundInit => NodeRecord!Init
  <2> SUFFICES ASSUME RoundInit PROVE NodeRecord!Init
    OBVIOUS
  <2> DEFINE Vals == UNION {[Driven(n) -> Values] : n \in Nodes}
             Start == {<<e>> : e \in [step : {0}, val : Vals]}
  <2>1. evt_step = 0 /\ last_time = 0 /\ data = [n \in Nodes |-> <<NodeEntry(n)>>]
    BY DEF RoundInit, Init
  <2>2. ASSUME NEW n \in Nodes PROVE <<NodeEntry(n)>> \in Start
    <3>1. [o \in Driven(n) |-> rhsold[o]] \in [Driven(n) -> Values]
      BY DEF RoundInit, Driven
    <3>2. [o \in Driven(n) |-> rhsold[o]] \in Vals
      BY <3>1
    <3> HIDE DEF Vals
    <3>3. NodeEntry(n) \in [step : {0}, val : Vals]
      BY <2>1, <3>2 DEF NodeEntry
    <3> QED BY <3>3
  <2> HIDE DEF Start
  <2>3. data \in [Nodes -> Start]
    BY <2>1, <2>2
  <2> QED BY <2>1, <2>3 DEF Start, NodeRecord!Init
<1>2. AllInv /\ [RoundNext]_<<vars, nodes>> =>
        [misled = {} => NodeRecord!Next]_<<data, evt_step, last_time>>
  BY RecordStep DEF AllInv, NodeFacts, Unmisled, NodesOrdered
<1> QED BY <1>1, <1>2, AllStart, AllStep, PTL DEF RoundSpec, NodeRecordSpec

-----------------------------------------------------------------------------
(* The nodes follow the queue.                                              *)

\* Nothing is removed at its time or later.
Early(s, l) == \A n \in l .. Len(s) : s[n].removed => s[n].rt < s[n].et

\* What has been delivered by time u.
Brought(s, l, u) == {n \in l .. Len(s) : ~ s[n].removed /\ s[n].et <= u}

\* v is the value of the last of the entries ks of output o, or the old one.
Shows(o, s, ks, v, old) ==
  /\ \A n \in ks : (\A m \in ks : m <= n) => v = ValueIn(o, s[n])
  /\ ks = {} => v = old

\* The entry p of a node's values d is the one that held at time u.
HeldAt(d, b, u, p) ==
  p \in b .. Len(d) /\ d[p].step <= u /\ (p = Len(d) \/ d[p + 1].step > u)

\* Output o drives v, and at each time a backup may go back to its node showed
\* what the queue had brought by then.
Followed(o, s, l, d, b, v, step, base) ==
  /\ Early(s, l)
  /\ Shows(o, s, Brought(s, l, step), v, d[b].val[o])
  /\ \A u \in base .. step - 1 : \A p : HeldAt(d, b, u, p) =>
       Shows(o, s, Brought(s, l, u), d[p].val[o], d[b].val[o])

\* The list r has the entries of s that were delivered by time u.
SameBrought(s, r, l, u) ==
  /\ Brought(r, l, u) = Brought(s, l, u)
  /\ \A n \in Brought(s, l, u) : r[n] = s[n]

LEMMA SameShown ==
  ASSUME NEW o, NEW s, NEW r, NEW l, NEW u, SameBrought(s, r, l, u), NEW v, NEW old,
         Shows(o, s, Brought(s, l, u), v, old)
  PROVE  Shows(o, r, Brought(r, l, u), v, old)
<1> DEFINE ks == Brought(s, l, u)
<1>1. Brought(r, l, u) = ks /\ \A n \in ks : r[n] = s[n]
  BY DEF SameBrought
<1>2. Shows(o, s, ks, v, old)
  OBVIOUS
<1> HIDE DEF ks
<1>3. Shows(o, r, ks, v, old)
  BY <1>1, <1>2 DEF Shows, ValueIn
<1> QED BY <1>1, <1>3

\* A post changes only what is still to come.
LEMMA QueuedBrought ==
  ASSUME NEW s, NEW r, NEW c, NEW l, Links(s, c, l),
         NEW t \in Time, NEW step \in Time, step < t,
         NEW h \in Nat, QueuedAt(s, r, c, t, step, h), Dated(s, c, l, step), Early(s, l)
  PROVE  /\ Early(r, l)
         /\ \A u \in Nat : u <= step => SameBrought(s, r, l, u)
<1>1. /\ s \in Seq(Event) /\ c \in Nat /\ l \in Nat /\ 1 <= l /\ l <= c
      /\ step \in Nat /\ t \in Nat
  BY Numbers DEF Links
<1>2. EntriesAre(s, r, c, t, step, h)
  BY <1>1, QueuedEntries
<1>3. /\ Len(s) \in Nat /\ h <= Len(s) + 1 /\ c <= h /\ Len(r) = Len(s) + 1
      /\ \A n \in 1 .. h - 1 : r[n] = s[n]
      /\ r[h].et = t /\ ~ r[h].removed
      /\ \A n \in h + 1 .. Len(s) + 1 :
           /\ r[n].et = s[n - 1].et /\ r[n].removed
           /\ r[n].rt = IF s[n - 1].removed THEN s[n - 1].rt ELSE step
  BY <1>2 DEF EntriesAre
<1>4. \A n \in 1 .. Len(s) : s[n].et \in Nat
  BY <1>1, ElementOfSeq, EventFields
<1>5. \A n \in l .. Len(s) : ~ s[n].removed => (n < c <=> s[n].et <= step)
  BY DEF Dated
<1>6. ASSUME NEW n \in l .. Len(r), r[n].removed PROVE r[n].rt < r[n].et
  <2>1. CASE n < h
    <3>1. n \in 1 .. h - 1 /\ n \in l .. Len(s)
      BY <1>1, <1>3, <2>1
    <3> QED BY <1>3, <1>6, <3>1 DEF Early
  <2>2. CASE n = h
    BY <1>3, <1>6, <2>2
  <2>3. CASE h < n
    <3>1. /\ n \in h + 1 .. Len(s) + 1 /\ n - 1 \in l .. Len(s) /\ n - 1 \in 1 .. Len(s)
          /\ ~ (n - 1 < c)
      BY <1>1, <1>3, <2>3
    <3>2. CASE s[n - 1].removed
      BY <1>3, <3>1, <3>2 DEF Early
    <3>3. CASE ~ s[n - 1].removed
      <4>1. ~ (s[n - 1].et <= step) /\ s[n - 1].et \in Nat
        BY <1>4, <1>5, <3>1, <3>3
      <4>2. r[n].rt = step /\ r[n].et = s[n - 1].et
        BY <1>3, <3>1, <3>3
      <4> QED BY <1>1, <4>1, <4>2
    <3> QED BY <3>2, <3>3
  <2> QED BY <1>1, <1>3, <2>1, <2>2, <2>3
<1>7. ASSUME NEW u \in Nat, u <= step PROVE SameBrought(s, r, l, u)
  <2>1. ASSUME NEW n \in Brought(s, l, u) PROVE n \in Brought(r, l, u) /\ r[n] = s[n]
    <3>1. n \in l .. Len(s) /\ ~ s[n].removed /\ s[n].et <= u /\ n \in 1 .. Len(s)
      BY <1>1 DEF Brought
    <3>2. s[n].et \in Nat
      BY <1>4, <3>1
    <3>3. n < c
      BY <1>1, <1>5, <1>7, <3>1, <3>2
    <3>4. n \in 1 .. h - 1 /\ n \in l .. Len(r)
      BY <1>1, <1>3, <3>1, <3>3
    <3> QED BY <1>3, <3>1, <3>4 DEF Brought
  <2>2. ASSUME NEW n \in Brought(r, l, u) PROVE n \in Brought(s, l, u)
    <3>1. n \in l .. Len(r) /\ ~ r[n].removed /\ r[n].et <= u
      BY DEF Brought
    <3>2. ~ (h < n)
      <4>1. h < n => n \in h + 1 .. Len(s) + 1
        BY <1>1, <1>3, <3>1
      <4> QED BY <1>3, <3>1, <4>1
    <3>3. n # h
      BY <1>1, <1>3, <1>7, <3>1
    <3>4. n \in 1 .. h - 1 /\ n \in l .. Len(s)
      BY <1>1, <1>3, <3>1, <3>2, <3>3
    <3> QED BY <1>3, <3>1, <3>4 DEF Brought
  <2> QED BY <2>1, <2>2 DEF SameBrought
<1> QED BY <1>6, <1>7 DEF Early

LEMMA QueuedFollowed ==
  ASSUME NEW s, NEW r, NEW c, NEW l, Links(s, c, l),
         NEW t \in Time, NEW step \in Time, step < t,
         NEW h \in Nat, QueuedAt(s, r, c, t, step, h), Dated(s, c, l, step),
         NEW o, NEW d, NEW b, NEW v, NEW base \in Nat, Followed(o, s, l, d, b, v, step, base)
  PROVE  Followed(o, r, l, d, b, v, step, base)
<1>1. /\ Early(s, l) /\ Shows(o, s, Brought(s, l, step), v, d[b].val[o])
      /\ \A u \in base .. step - 1 : \A p : HeldAt(d, b, u, p) =>
           Shows(o, s, Brought(s, l, u), d[p].val[o], d[b].val[o])
  BY DEF Followed
<1>2. /\ Early(r, l)
      /\ \A u \in Nat : u <= step => SameBrought(s, r, l, u)
  BY <1>1, QueuedBrought
<1>3. step \in Nat /\ step <= step /\ \A u \in base .. step - 1 : u \in Nat /\ u <= step
  BY Numbers
<1>4. Shows(o, r, Brought(r, l, step), v, d[b].val[o])
  BY <1>1, <1>2, <1>3, SameShown
<1>5. ASSUME NEW u \in base .. step - 1, NEW p, HeldAt(d, b, u, p)
      PROVE  Shows(o, r, Brought(r, l, u), d[p].val[o], d[b].val[o])
  <2>1. SameBrought(s, r, l, u) /\ Shows(o, s, Brought(s, l, u), d[p].val[o], d[b].val[o])
    BY <1>1, <1>2, <1>3, <1>5
  <2> QED BY <2>1, SameShown
<1> QED BY <1>2, <1>4, <1>5 DEF Followed

\* Times at which nothing is delivered bring nothing.
LEMMA QuietBrought ==
  ASSUME NEW s, NEW c, NEW l, Links(s, c, l), NEW step \in Nat, Dated(s, c, l, step),
         NEW u \in Nat, step <= u,
         \A n \in c .. Len(s) : ~ s[n].removed => ~ (s[n].et <= u)
  PROVE  Brought(s, l, u) = Brought(s, l, step)
<1>1. s \in Seq(Event) /\ c \in Nat /\ l \in Nat /\ 1 <= l /\ l <= c /\ Len(s) \in Nat
  BY LenProperties DEF Links
<1>2. \A n \in 1 .. Len(s) : s[n].et \in Nat
  BY <1>1, ElementOfSeq, EventFields
<1>3. \A n \in l .. Len(s) : ~ s[n].removed => (n < c <=> s[n].et <= step)
  BY DEF Dated
<1>4. ASSUME NEW n \in l .. Len(s), ~ s[n].removed PROVE s[n].et <= u <=> s[n].et <= step
  <2>1. s[n].et \in Nat
    BY <1>1, <1>2
  <2>2. CASE n < c
    BY <1>3, <1>4, <2>1, <2>2
  <2>3. CASE ~ (n < c)
    <3>1. n \in c .. Len(s)
      BY <1>1, <2>3
    <3> QED BY <1>3, <1>4, <2>3, <3>1
  <2> QED BY <2>2, <2>3
<1> QED BY <1>4 DEF Brought

\* The last value of a node holds from the event time on.
LEMMA LastHeld ==
  ASSUME NEW n, NEW d, NEW b, NodeShape(n, d, b), NEW step \in Nat, NEW base,
         Recorded(d, b, step, base), NEW u \in Nat, step <= u, NEW p, HeldAt(d, b, u, p)
  PROVE  p = Len(d)
<1>1. /\ Len(d) \in Nat /\ b \in Nat /\ 1 <= b /\ \A q \in 1 .. Len(d) : d[q].step \in Nat
      /\ Len(d) \in 1 .. Len(d)
  BY ShapeIs
<1>2. Rising(d) /\ d[Len(d)].step <= step
  BY DEF Recorded, LastOf
<1>3. p \in b .. Len(d) /\ (p = Len(d) \/ d[p + 1].step > u)
  BY DEF HeldAt
<1> SUFFICES ASSUME p # Len(d) PROVE FALSE
  OBVIOUS
<1>4. p + 1 \in 1 .. Len(d) /\ (p + 1 = Len(d) \/ p + 1 < Len(d)) /\ d[p + 1].step > u
  BY <1>1, <1>3
<1>5. d[p + 1].step <= d[Len(d)].step
  BY <1>1, <1>2, <1>4 DEF Rising
<1>6. d[p + 1].step \in Nat /\ d[Len(d)].step \in Nat
  BY <1>1, <1>4
<1> QED BY <1>2, <1>4, <1>5, <1>6

\* Event time moves on to `time': until then the node shows the same.
LEMMA LaterFollowed ==
  ASSUME NEW s, NEW l, NEW o, NEW n, NEW d, NEW b, NodeShape(n, d, b),
         NEW step \in Nat, NEW base \in Nat, NEW time \in Nat, step <= time,
         Recorded(d, b, step, base),
         NEW v, Followed(o, s, l, d, b, v, step, base), v = LastOf(d).val[o],
         \A u \in step .. time - 1 : Brought(s, l, u) = Brought(s, l, step),
         NEW w, Shows(o, s, Brought(s, l, time), w, d[b].val[o])
  PROVE  Followed(o, s, l, d, b, w, time, base)
<1>1. /\ Early(s, l)
      /\ Shows(o, s, Brought(s, l, step), v, d[b].val[o])
      /\ \A u \in base .. step - 1 : \A p : HeldAt(d, b, u, p) =>
           Shows(o, s, Brought(s, l, u), d[p].val[o], d[b].val[o])
  BY DEF Followed
<1>2. ASSUME NEW u \in base .. time - 1, NEW p, HeldAt(d, b, u, p)
      PROVE  Shows(o, s, Brought(s, l, u), d[p].val[o], d[b].val[o])
  <2>1. CASE u < step
    <3>1. u \in base .. step - 1
      BY <2>1
    <3> QED BY <1>1, <1>2, <3>1
  <2>2. CASE ~ (u < step)
    <3>1. u \in step .. time - 1 /\ u \in Nat /\ step <= u
      BY <2>2
    <3>2. p = Len(d)
      BY <1>2, <3>1, LastHeld
    <3>3. d[p].val[o] = v
      BY <3>2 DEF LastOf
    <3>4. Brought(s, l, u) = Brought(s, l, step)
      BY <3>1
    <3> QED BY <1>1, <3>3, <3>4
  <2> QED BY <2>1, <2>2
<1> QED BY <1>1, <1>2 DEF Followed

LEMMA QuietFollowed ==
  ASSUME NEW s, NEW c, NEW l, Links(s, c, l), NEW step \in Nat, NEW time \in Nat, step <= time,
         Dated(s, c, l, step), Dated(s, c, l, time),
         NEW o, NEW n, NEW d, NEW b, NodeShape(n, d, b), NEW base \in Nat,
         Recorded(d, b, step, base),
         NEW v, Followed(o, s, l, d, b, v, step, base), v = LastOf(d).val[o]
  PROVE  Followed(o, s, l, d, b, v, time, base)
<1>1. s \in Seq(Event) /\ c \in Nat /\ l \in Nat /\ 1 <= l /\ l <= c /\ Len(s) \in Nat
  BY LenProperties DEF Links
<1>2. \A m \in 1 .. Len(s) : s[m].et \in Nat
  BY <1>1, ElementOfSeq, EventFields
<1>3. ASSUME NEW u \in step .. time PROVE Brought(s, l, u) = Brought(s, l, step)
  <2>1. ASSUME NEW m \in c .. Len(s), ~ s[m].removed PROVE ~ (s[m].et <= u)
    <3>1. m \in l .. Len(s) /\ ~ (m < c) /\ s[m].et \in Nat
      BY <1>1, <1>2
    <3>2. ~ (s[m].et <= time)
      BY <2>1, <3>1 DEF Dated
    <3> QED BY <3>1, <3>2
  <2> QED BY <2>1, QuietBrought
<1>4. Shows(o, s, Brought(s, l, time), v, d[b].val[o])
  <2>1. Brought(s, l, time) = Brought(s, l, step)
    BY <1>3
  <2> QED BY <2>1 DEF Followed
<1>5. \A u \in step .. time - 1 : Brought(s, l, u) = Brought(s, l, step)
  BY <1>3
<1> QED BY <1>4, <1>5, LaterFollowed

\* The event at c is due, stands and has the value w; e is the position after it.
Delivers(s, c, e, time, o, w) ==
  /\ c <= Len(s) /\ HeadStands(s, c) /\ s[c].et = time
  /\ e = Following(s, c) /\ w = ValueIn(o, s[c])

LEMMA DueFollowed ==
  ASSUME NEW s, NEW c, NEW l, Links(s, c, l), NEW step \in Nat, NEW time \in Nat, step <= time,
         Dated(s, c, l, step), NEW e, NEW o, NEW w, Delivers(s, c, e, time, o, w),
         Dated(s, e, l, time), NEW n, NEW d, NEW b, NodeShape(n, d, b), NEW base \in Nat,
         Recorded(d, b, step, base),
         NEW v, Followed(o, s, l, d, b, v, step, base), v = LastOf(d).val[o]
  PROVE  Followed(o, s, l, d, b, w, time, base)
<1>1. /\ s \in Seq(Event) /\ c \in Nat /\ l \in Nat /\ 1 <= l /\ l <= c /\ Len(s) \in Nat
      /\ c \in l .. Len(s) /\ c <= Len(s) /\ e = Following(s, c)
      /\ s[c].et = time /\ w = ValueIn(o, s[c]) /\ HeadStands(s, c)
  BY LenProperties DEF Links, Delivers
<1>2. \A m \in 1 .. Len(s) : s[m].et \in Nat
  BY <1>1, ElementOfSeq, EventFields
<1>3. e \in Nat /\ \A m \in c + 1 .. e - 1 : s[m].removed
  BY <1>1, FollowingIs DEF Links
<1>4. ASSUME NEW m \in c + 1 .. Len(s), ~ s[m].removed PROVE ~ (s[m].et <= time)
  <2>1. m \in l .. Len(s)
    BY <1>1
  <2>2. ~ (m < e)
    <3>1. m < e => m \in c + 1 .. e - 1
      BY <1>1, <1>3
    <3> QED BY <1>3, <1>4, <3>1
  <2> QED BY <1>4, <2>1, <2>2 DEF Dated
<1>5. ASSUME NEW u \in step .. time - 1 PROVE Brought(s, l, u) = Brought(s, l, step)
  <2>1. ASSUME NEW m \in c .. Len(s), ~ s[m].removed PROVE ~ (s[m].et <= u)
    <3>1. s[m].et \in Nat /\ s[c].et = time /\ (m = c \/ m \in c + 1 .. Len(s))
      BY <1>1, <1>2
    <3>2. m \in c + 1 .. Len(s) => ~ (s[m].et <= time)
      BY <1>4, <2>1
    <3> QED BY <3>1, <3>2
  <2> QED BY <2>1, QuietBrought
<1>6. ~ s[c].removed
  BY <1>1 DEF HeadStands, NotRemoved
<1>7. c \in Brought(s, l, time)
  BY <1>1, <1>6 DEF Brought
<1>8. \A m \in Brought(s, l, time) : m <= c
  <2>1. ASSUME NEW m \in l .. Len(s), ~ s[m].removed, s[m].et <= time PROVE m <= c
    <3>1. m \notin c + 1 .. Len(s)
      BY <1>4, <2>1
    <3> QED BY <1>1, <3>1
  <2> QED BY <2>1 DEF Brought
<1>9. Shows(o, s, Brought(s, l, time), w, d[b].val[o])
  <2>1. ASSUME NEW m \in Brought(s, l, time), \A k \in Brought(s, l, time) : k <= m
        PROVE  m = c
    <3>1. m <= c /\ c <= m /\ m \in l .. Len(s)
      BY <1>7, <1>8, <2>1 DEF Brought
    <3> QED BY <1>1, <3>1
  <2> QED BY <1>1, <1>7, <2>1 DEF Shows
<1> QED BY <1>5, <1>9, LaterFollowed

\* EVTiter adds the value driven to the node's.
LEMMA AppendFollowed ==
  ASSUME NEW s, NEW l, NEW o, NEW n, NEW d, NEW b, NodeShape(n, d, b),
         NEW step \in Nat, NEW base \in Nat, NEW v, Followed(o, s, l, d, b, v, step, base),
         NEW e \in NodeItem(n), e.step = step
  PROVE  Followed(o, s, l, Append(d, e), b, v, step, base)
<1> DEFINE r == Append(d, e)
<1>1. /\ d \in Seq(NodeItem(n)) /\ Len(d) \in Nat /\ b \in Nat /\ 1 <= b /\ b <= Len(d)
  BY ShapeIs
<1>2. /\ Len(r) = Len(d) + 1 /\ \A q \in 1 .. Len(d) : r[q] = d[q]
      /\ r[Len(d) + 1] = e
  BY <1>1, AppendIs
<1> HIDE DEF r
<1>3. r[b] = d[b]
  BY <1>1, <1>2
<1>4. ASSUME NEW u \in base .. step - 1, NEW p, HeldAt(r, b, u, p)
      PROVE  HeldAt(d, b, u, p) /\ r[p] = d[p]
  <2>1. p \in b .. Len(d) + 1 /\ r[p].step <= u /\ (p = Len(r) \/ r[p + 1].step > u)
    BY <1>2, <1>4 DEF HeldAt
  <2>2. p # Len(d) + 1
    BY <1>2, <2>1
  <2>3. p \in b .. Len(d) /\ p \in 1 .. Len(d) /\ p # Len(r)
    BY <1>1, <1>2, <2>1, <2>2
  <2>4. p = Len(d) \/ d[p + 1].step > u
    <3>1. p # Len(d) => p + 1 \in 1 .. Len(d)
      BY <1>1, <2>3
    <3> QED BY <1>2, <2>1, <2>3, <3>1
  <2> QED BY <1>2, <2>1, <2>3, <2>4 DEF HeldAt
<1>5. Followed(o, s, l, r, b, v, step, base)
  BY <1>3, <1>4 DEF Followed
<1> QED BY <1>5 DEF r

\* After a timepoint is accepted nothing of what is left has been delivered.
LEMMA AcceptedFollowed ==
  ASSUME NEW s, NEW c, NEW l, Links(s, c, l), NEW step \in Nat, Dated(s, c, l, step),
         Early(s, l), NEW k \in Nat, k < c, NEW r, Suffix(s, r, k), NEW o, NEW d, NEW b
  PROVE  Followed(o, r, c - k, d, b, d[b].val[o], step, step)
<1> DEFINE j == c - k
<1>1. /\ s \in Seq(Event) /\ c \in Nat /\ l \in Nat /\ 1 <= l /\ l <= c /\ c <= Len(s) + 1
      /\ Len(s) \in Nat /\ j \in Nat /\ 1 <= j /\ j + k = c
  BY LenProperties DEF Links
<1>2. Len(r) = Len(s) - k /\ \A n \in 1 .. Len(s) - k : r[n] = s[n + k]
  BY DEF Suffix
<1> HIDE DEF j
<1>3. ASSUME NEW n \in j .. Len(r)
      PROVE  /\ r[n] = s[n + k] /\ n + k \in l .. Len(s) /\ ~ (n + k < c)
  <2>1. n \in 1 .. Len(s) - k /\ n + k \in l .. Len(s) /\ ~ (n + k < c)
    BY <1>1, <1>2
  <2> QED BY <1>2, <2>1
<1>4. Early(r, j)
  BY <1>3 DEF Early
<1>5. Brought(r, j, step) = {}
  BY <1>3 DEF Brought, Dated
<1>6. Followed(o, r, j, d, b, d[b].val[o], step, step)
  BY <1>4, <1>5 DEF Followed, Shows
<1> QED BY <1>6 DEF j

\* What a scan back to `time' leaves was delivered then as it was before.
LEMMA BackBrought ==
  ASSUME NEW s, NEW c, NEW l, Links(s, c, l), PostedAhead(s), Early(s, l), NEW time \in Time,
         NEW r, NEW f, ScannedBy(s, r, l, time, f)
  PROVE  /\ Early(r, l)
         /\ \A u \in Nat : u <= time => \A o, v, old :
              Shows(o, s, Brought(s, l, u), v, old) => Shows(o, r, Brought(r, l, u), v, old)
<1>1. /\ Len(s) \in Nat /\ Len(r) \in Nat /\ l \in Nat /\ 1 <= l
      /\ \A n \in l .. Len(r) :
           /\ f[n] \in l .. Len(s)
           /\ r[n].et = s[f[n]].et /\ r[n].pt = s[f[n]].pt
           /\ r[n].removed <=> s[f[n]].removed /\ s[f[n]].rt <= time
           /\ r[n].removed => r[n].rt = s[f[n]].rt
      /\ \A m, n \in l .. Len(r) : m < n => f[m] < f[n]
      /\ \A k \in l .. Len(s) : s[k].pt <= time => \E n \in l .. Len(r) : f[n] = k
  BY ScannedEntries
<1>2. s \in Seq(Event) /\ time \in Nat
  BY Numbers DEF Links
<1>3. \A n \in 1 .. Len(s) : s[n].et \in Nat /\ s[n].pt \in Nat /\ s[n].rt \in Nat
  BY <1>2, ElementOfSeq, EventFields
<1>4. ASSUME NEW n \in l .. Len(r), r[n].removed PROVE r[n].rt < r[n].et
  BY <1>1, <1>4 DEF Early
<1>5. ASSUME NEW u \in Nat, u <= time, NEW n \in Brought(r, l, u)
      PROVE  n \in l .. Len(r) /\ f[n] \in Brought(s, l, u)
  <2>1. n \in l .. Len(r) /\ ~ r[n].removed /\ r[n].et <= u
    BY DEF Brought
  <2>2. f[n] \in l .. Len(s) /\ f[n] \in 1 .. Len(s) /\ s[f[n]].et <= u
    BY <1>1, <2>1
  <2>3. ~ s[f[n]].removed
    <3>1. s[f[n]].et \in Nat /\ s[f[n]].rt \in Nat
      BY <1>3, <2>2
    <3>2. s[f[n]].removed => s[f[n]].rt < s[f[n]].et /\ ~ (s[f[n]].rt <= time)
      BY <1>1, <2>1, <2>2 DEF Early
    <3> QED BY <1>2, <1>5, <2>2, <3>1, <3>2
  <2> QED BY <2>1, <2>2, <2>3 DEF Brought
<1>6. ASSUME NEW u \in Nat, u <= time, NEW k \in Brought(s, l, u)
      PROVE  \E n \in Brought(r, l, u) : f[n] = k
  <2>1. k \in l .. Len(s) /\ ~ s[k].removed /\ s[k].et <= u /\ k \in 1 .. Len(s)
    BY <1>1 DEF Brought
  <2>2. s[k].pt <= time
    <3>1. s[k].pt < s[k].et /\ s[k].pt \in Nat /\ s[k].et \in Nat
      BY <1>3, <2>1 DEF PostedAhead
    <3> QED BY <1>2, <1>6, <2>1, <3>1
  <2>3. PICK n \in l .. Len(r) : f[n] = k
    BY <1>1, <2>1, <2>2
  <2>4. ~ r[n].removed /\ r[n].et <= u
    BY <1>1, <2>1, <2>3
  <2> QED BY <2>3, <2>4 DEF Brought
<1>7. ASSUME NEW u \in Nat, u <= time, NEW o, NEW v, NEW old,
             Shows(o, s, Brought(s, l, u), v, old)
      PROVE  Shows(o, r, Brought(r, l, u), v, old)
  <2> DEFINE ks == Brought(s, l, u)
             ns == Brought(r, l, u)
  <2>1. /\ \A n \in ns : n \in l .. Len(r) /\ f[n] \in ks
        /\ \A k \in ks : \E n \in ns : f[n] = k
    BY <1>5, <1>6, <1>7
  <2>2. Shows(o, s, ks, v, old)
    BY <1>7
  <2>3. \A k \in ks : k \in l .. Len(s)
    BY DEF Brought
  <2> HIDE DEF ks, ns
  <2>4. ASSUME NEW n \in ns, \A m \in ns : m <= n PROVE v = ValueIn(o, r[n])
    <3>1. n \in l .. Len(r) /\ f[n] \in ks
      BY <2>1
    <3>2. ASSUME NEW k \in ks PROVE k <= f[n]
      <4>1. PICK m \in ns : f[m] = k
        BY <2>1
      <4>2. m \in l .. Len(r) /\ m <= n /\ f[m] \in l .. Len(s) /\ f[n] \in l .. Len(s)
        BY <1>1, <2>1, <2>4, <3>1
      <4>3. m < n => f[m] < f[n]
        BY <1>1, <3>1, <4>2
      <4>4. m = n \/ m < n
        BY <1>1, <3>1, <4>2
      <4> QED BY <1>1, <4>1, <4>2, <4>3, <4>4
    <3>3. v = ValueIn(o, s[f[n]])
      BY <2>2, <3>1, <3>2 DEF Shows
    <3>4. r[n].et = s[f[n]].et /\ r[n].pt = s[f[n]].pt
      BY <1>1, <3>1
    <3> QED BY <3>3, <3>4 DEF ValueIn
  <2>5. ns = {} => v = old
    BY <2>1, <2>2 DEF Shows
  <2>6. Shows(o, r, ns, v, old)
    BY <2>4, <2>5 DEF Shows
  <2> QED BY <2>6 DEF ns
<1> QED BY <1>4, <1>7 DEF Early

\* r is s after the first scan of a backup to `time', if there was one.
Back(s, r, l, time) == r = s \/ \E f : ScannedBy(s, r, l, time, f)

Trimmed(d, b, time) == SubSeq(d, 1, Cut(d, b, time))

\* A backup takes the node back to the value it had, and the output with it.
LEMMA BackFollowed ==
  ASSUME NEW s, NEW c, NEW l, Links(s, c, l), PostedAhead(s), NEW time \in Time,
         NEW r, Back(s, r, l, time),
         NEW o, NEW n, NEW d, NEW b, NodeShape(n, d, b), NEW base \in Time, base < time,
         NEW step \in Nat, time < step, Recorded(d, b, step, base),
         NEW v, Followed(o, s, l, d, b, v, step, base), NEW e, e = Trimmed(d, b, time)
  PROVE  Followed(o, r, l, e, b, LastOf(e).val[o], time, base)
<1> DEFINE p == Cut(d, b, time)
<1>1. /\ d \in Seq(NodeItem(n)) /\ Len(d) \in Nat /\ b \in Nat /\ 1 <= b /\ b <= Len(d)
      /\ \A q \in 1 .. Len(d) : d[q].step \in Nat
      /\ time \in Nat /\ base \in Nat
  BY ShapeIs, Numbers
<1>2. /\ p \in b .. Len(d) /\ (p = Len(d) \/ d[p + 1].step > time)
      /\ d[p].step <= time
  <2>1. s = s /\ Rising(d) /\ d[b].step <= base /\ d[b].step \in Nat
    BY <1>1 DEF Recorded
  <2>2. d[b].step <= time
    BY <1>1, <2>1
  <2> QED BY <2>1, <2>2, CutIs, CutCounts
<1> HIDE DEF p
<1>3. p \in 1 .. Len(d) /\ p \in Nat /\ b <= p /\ b \in 1 .. p /\ p \in 1 .. p /\ b \in Nat
  BY <1>1, <1>2
<1>4. Len(e) = p /\ \A q \in 1 .. p : e[q] = d[q]
  BY <1>1, <1>3, PrefixIs DEF p, Trimmed
<1>5. e[b] = d[b] /\ LastOf(e) = d[p]
  BY <1>3, <1>4 DEF LastOf
<1>6. /\ Early(s, l)
      /\ \A u \in base .. step - 1 : \A q : HeldAt(d, b, u, q) =>
           Shows(o, s, Brought(s, l, u), d[q].val[o], d[b].val[o])
  BY DEF Followed
<1>7. /\ Early(r, l)
      /\ \A u \in Nat : u <= time => \A w, old :
           Shows(o, s, Brought(s, l, u), w, old) => Shows(o, r, Brought(r, l, u), w, old)
  <2>1. CASE r = s
    BY <1>6, <2>1
  <2>2. CASE \E f : ScannedBy(s, r, l, time, f)
    <3>1. PICK f : ScannedBy(s, r, l, time, f)
      BY <2>2
    <3> QED BY <1>6, <3>1, BackBrought
  <2> QED BY <2>1, <2>2 DEF Back
<1>8. ASSUME NEW u \in base .. time, NEW q, HeldAt(d, b, u, q)
      PROVE  Shows(o, r, Brought(r, l, u), d[q].val[o], d[b].val[o])
  <2>1. u \in base .. step - 1 /\ u \in Nat /\ u <= time
    BY <1>1
  <2>2. Shows(o, s, Brought(s, l, u), d[q].val[o], d[b].val[o])
    BY <1>6, <1>8, <2>1
  <2> QED BY <1>7, <2>1, <2>2
<1>9. HeldAt(d, b, time, p)
  BY <1>2 DEF HeldAt
<1>10. Shows(o, r, Brought(r, l, time), LastOf(e).val[o], e[b].val[o])
  <2>1. time \in base .. time
    BY <1>1
  <2> QED BY <1>5, <1>8, <1>9, <2>1
<1>11. ASSUME NEW u \in base .. time - 1, NEW q, HeldAt(e, b, u, q)
       PROVE  Shows(o, r, Brought(r, l, u), e[q].val[o], e[b].val[o])
  <2>1. q \in b .. p /\ e[q].step <= u /\ (q = p \/ e[q + 1].step > u)
    BY <1>4, <1>11 DEF HeldAt
  <2>0. q \in 1 .. p /\ q \in b .. Len(d) /\ u \in base .. time
    BY <1>1, <1>3, <2>1
  <2>2. q \in 1 .. p /\ q \in b .. Len(d) /\ e[q] = d[q] /\ u \in base .. time
    BY <1>4, <2>0
  <2>3. q = Len(d) \/ d[q + 1].step > u
    <3>1. CASE q = p
      <4>1. p = Len(d) \/ (p + 1 \in 1 .. Len(d) /\ d[p + 1].step > time)
        BY <1>1, <1>2, <1>3
      <4>2. d[p + 1].step > time => d[p + 1].step > u \/ p = Len(d)
        BY <1>1, <4>1
      <4> QED BY <3>1, <4>1, <4>2
    <3>2. CASE q # p
      <4>1. q + 1 \in 1 .. p
        BY <1>3, <2>1, <3>2
      <4> QED BY <1>4, <2>1, <3>2, <4>1
    <3> QED BY <3>1, <3>2
  <2>4. HeldAt(d, b, u, q)
    BY <2>1, <2>2, <2>3 DEF HeldAt
  <2> QED BY <1>5, <1>8, <2>2, <2>4
<1> QED BY <1>7, <1>10, <1>11 DEF Followed

\* What holds of output o, and of all, as long as no output is misled.
Follows(o) ==
  /\ Followed(o, list[o], last_step[o], data[NodeOf[o]], node_last[NodeOf[o]], rhsold[o],
              evt_step, last_time)
  /\ NodeOf[o] \notin to_eval => rhsold[o] = LastOf(data[NodeOf[o]]).val[o]

AllFollow == (phase # "iter" => to_eval = {}) /\ \A o \in Outputs : Follows(o)

FollowFacts == NodeFacts /\ AllFollow

LEMMA FollowFactsAre ==
  ASSUME FollowFacts, NEW o \in Outputs
  PROVE  /\ Links(list[o], current[o], last_step[o]) /\ PostedAhead(list[o])
         /\ Dated(list[o], current[o], last_step[o], evt_step)
         /\ HeadStands(list[o], current[o])
         /\ NodeOf[o] \in Nodes /\ o \in Driven(NodeOf[o])
         /\ NodeShape(NodeOf[o], data[NodeOf[o]], node_last[NodeOf[o]])
         /\ Recorded(data[NodeOf[o]], node_last[NodeOf[o]], evt_step, last_time)
         /\ Followed(o, list[o], last_step[o], data[NodeOf[o]], node_last[NodeOf[o]],
                     rhsold[o], evt_step, last_time)
         /\ evt_step \in Time /\ last_time \in Time /\ target \in Time
         /\ evt_step \in Nat /\ last_time \in Nat /\ target \in Nat
         /\ to_eval = {} => rhsold[o] = LastOf(data[NodeOf[o]]).val[o]
<1>1. QueueInv /\ OrderInv
  BY DEF FollowFacts, NodeFacts, NodeInv
<1>2. /\ Links(list[o], current[o], last_step[o]) /\ PostedAhead(list[o])
      /\ Dated(list[o], current[o], last_step[o], evt_step)
      /\ HeadStands(list[o], current[o])
  BY <1>1, StateIs DEF OrderInv, Good, QueueInv, RoundShape
<1>3. NodeOf[o] \in Nodes /\ o \in Driven(NodeOf[o])
  BY NodeAssumption DEF Driven
<1>4. /\ NodeShape(NodeOf[o], data[NodeOf[o]], node_last[NodeOf[o]])
      /\ Recorded(data[NodeOf[o]], node_last[NodeOf[o]], evt_step, last_time)
  BY <1>3 DEF FollowFacts, NodeFacts, NodeInv, NodesOK, NodeOrdered
<1>5. /\ evt_step \in Time /\ last_time \in Time /\ target \in Time
      /\ evt_step \in Nat /\ last_time \in Nat /\ target \in Nat
  BY <1>1, TimesAre, Numbers
<1>6. Follows(o)
  BY DEF FollowFacts, AllFollow
<1> QED BY <1>2, <1>3, <1>4, <1>5, <1>6 DEF Follows

LEMMA PostFollows ==
  ASSUME FollowFacts, NEW x \in Outputs, NEW delay \in Delays[x], Post(x, delay),
         UNCHANGED nodes
  PROVE  AllFollow'
<1>1. /\ UNCHANGED <<current, last_step, last_time, evt_step, phase>>
      /\ UNCHANGED <<data, node_last, rhsold, to_eval>>
  BY DEF Post, EVTqueue_output, nodes
<1>2. /\ evt_step + delay \in Time /\ evt_step < evt_step + delay
      /\ \E h \in Nat :
           QueuedAt(list[x], list'[x], current[x], evt_step + delay, evt_step, h)
      /\ \A o \in Outputs : o # x => list'[o] = list[o]
  BY PostLists DEF FollowFacts, NodeFacts, NodeInv
<1>3. ASSUME NEW o \in Outputs PROVE Follows(o)'
  <2>1. CASE o = x
    <3> DEFINE s == list[x]
               r == list'[x]
               c == current[x]
               l == last_step[x]
               t == evt_step + delay
               d == data[NodeOf[x]]
               b == node_last[NodeOf[x]]
               v == rhsold[x]
    <3>1. /\ Links(s, c, l) /\ Dated(s, c, l, evt_step)
          /\ Followed(x, s, l, d, b, v, evt_step, last_time)
          /\ evt_step \in Time /\ last_time \in Nat
      BY FollowFactsAre
    <3>2. t \in Time /\ evt_step < t
      BY <1>2
    <3>3. PICK h \in Nat : QueuedAt(s, r, c, t, evt_step, h)
      BY <1>2
    <3> HIDE DEF s, r, c, l, t, d, b, v
    <3>4. Followed(x, r, l, d, b, v, evt_step, last_time)
      BY <3>1, <3>2, <3>3, QueuedFollowed
    <3>5. Followed(x, r, l, d, b, v, evt_step, last_time)
            => Followed(x, list[x], last_step[x], data[NodeOf[x]], node_last[NodeOf[x]],
                        rhsold[x], evt_step, last_time)'
      BY <1>1 DEF r, l, d, b, v
    <3> QED BY <1>1, <2>1, <3>4, <3>5 DEF Follows, FollowFacts, AllFollow
  <2>2. CASE o # x
    BY <1>1, <1>2, <2>2 DEF Follows, FollowFacts, AllFollow
  <2> QED BY <2>1, <2>2
<1>4. phase' # "iter" => to_eval' = {}
  BY <1>1 DEF FollowFacts, AllFollow
<1> QED BY <1>3, <1>4 DEF AllFollow

LEMMA DequeueFollows ==
  ASSUME FollowFacts, NEW time \in Time, Dequeue(time), OrderInv'
  PROVE  AllFollow'
<1> DEFINE value(o) == ValueIn(o, list[o][current[o]])
           differ == {o \in changed' : value(o) # rhsold[o]}
<1>1. /\ rhsold' = [o \in Outputs |-> IF o \in differ THEN value(o) ELSE rhsold[o]]
      /\ to_eval' = {NodeOf[o] : o \in differ}
      /\ UNCHANGED <<data, node_last>>
      /\ EventRound(time) /\ evt_step' = time /\ phase' = "iter" /\ phase = "loop"
  BY DEF Dequeue, EventRound
<1>2. last_time' = last_time /\ to_eval = {}
  BY <1>1 DEF EventRound, EVTdequeue_output, queue, FollowFacts, AllFollow
<1>3. evt_step <= time
  BY <1>1, StateIs, NextIsLater, Numbers DEF FollowFacts, NodeFacts, NodeInv, EventRound
<1>4. ASSUME NEW o \in Outputs PROVE Follows(o)'
  <2> DEFINE s == list[o]
             c == current[o]
             e == current'[o]
             l == last_step[o]
             n == NodeOf[o]
             d == data[n]
             b == node_last[n]
             v == rhsold[o]
             w == rhsold'[o]
  <2>1. /\ Links(s, c, l) /\ Dated(s, c, l, evt_step) /\ HeadStands(s, c)
        /\ NodeShape(n, d, b) /\ Recorded(d, b, evt_step, last_time)
        /\ Followed(o, s, l, d, b, v, evt_step, last_time) /\ v = LastOf(d).val[o]
        /\ evt_step \in Nat /\ last_time \in Nat /\ time \in Nat
    BY <1>2, FollowFactsAre, Numbers
  <2>2. list' = list /\ last_step' = last_step
    BY <1>1, RoundLists DEF FollowFacts, NodeFacts, NodeInv
  <2>3. Dated(s, e, l, time)
    BY <1>1, <2>2 DEF OrderInv, Good
  <2>4. \/ e = c /\ o \notin changed'
        \/ c <= Len(s) /\ s[c].et = time /\ e = Following(s, c) /\ o \in changed'
    BY <1>1, RoundLists DEF FollowFacts, NodeFacts, NodeInv
  <2>5. Followed(o, s, l, d, b, w, time, last_time)
    <3>1. CASE e = c /\ o \notin changed'
      <4>1. w = v
        BY <1>1, <3>1
      <4> HIDE DEF s, c, e, l, n, d, b, v, w
      <4>2. Dated(s, c, l, time)
        BY <2>3, <3>1
      <4> QED BY <1>3, <2>1, <4>1, <4>2, QuietFollowed
    <3>2. CASE c <= Len(s) /\ s[c].et = time /\ e = Following(s, c) /\ o \in changed'
      <4>1. w = ValueIn(o, s[c])
        BY <1>1, <3>2
      <4> HIDE DEF s, c, e, l, n, d, b, v, w
      <4>2. Delivers(s, c, e, time, o, w)
        BY <2>1, <3>2, <4>1 DEF Delivers
      <4> QED BY <1>3, <2>1, <2>3, <4>2, DueFollowed
    <3> QED BY <2>4, <3>1, <3>2
  <2>6. n \notin to_eval' => w = LastOf(d).val[o]
    <3>1. n \notin to_eval' => o \notin differ
      BY <1>1
    <3>2. o \notin differ => w = v
      BY <1>1
    <3> QED BY <2>1, <3>1, <3>2
  <2> HIDE DEF differ, value
  <2> QED BY <1>1, <1>2, <2>2, <2>5, <2>6 DEF Follows
<1> QED BY <1>1, <1>4 DEF AllFollow

LEMMA SolveFollows ==
  ASSUME FollowFacts, Solve, UNCHANGED nodes, OrderInv'
  PROVE  AllFollow'
<1>1. /\ UNCHANGED <<list, current, last_step, last_time, data, node_last, rhsold, to_eval>>
      /\ evt_step' = target /\ phase = "loop" /\ to_eval = {}
  BY DEF Solve, queue, nodes, FollowFacts, AllFollow
<1>2. evt_step <= target
  BY <1>1 DEF FollowFacts, NodeFacts, OrderInv, StepOrder
<1>3. ASSUME NEW o \in Outputs PROVE Follows(o)'
  <2> DEFINE s == list[o]
             c == current[o]
             l == last_step[o]
             n == NodeOf[o]
             d == data[n]
             b == node_last[n]
             v == rhsold[o]
  <2>1. /\ Links(s, c, l) /\ Dated(s, c, l, evt_step)
        /\ NodeShape(n, d, b) /\ Recorded(d, b, evt_step, last_time)
        /\ Followed(o, s, l, d, b, v, evt_step, last_time) /\ v = LastOf(d).val[o]
        /\ evt_step \in Nat /\ last_time \in Nat /\ target \in Nat
    BY <1>1, FollowFactsAre
  <2>2. Dated(s, c, l, target)
    BY <1>1 DEF OrderInv, Good
  <2> HIDE DEF s, c, l, n, d, b, v
  <2>3. Followed(o, s, l, d, b, v, target, last_time)
    BY <1>2, <2>1, <2>2, QuietFollowed
  <2> QED BY <1>1, <2>1, <2>3 DEF Follows, s, l, n, d, b, v
<1> QED BY <1>1, <1>3 DEF AllFollow

LEMMA IterFollows ==
  ASSUME FollowFacts, NEW t \in Time, EVTiter(t)
  PROVE  AllFollow'
<1>1. /\ data' = [n \in Nodes |-> IF n \in to_eval THEN Append(data[n], NodeEntry(n))
                                  ELSE data[n]]
      /\ to_eval' = {}
      /\ UNCHANGED <<list, last_step, last_time, evt_step, node_last, rhsold>>
  BY DEF EVTiter, EndRound, queue
<1>2. ASSUME NEW o \in Outputs PROVE Follows(o)'
  <2> DEFINE s == list[o]
             l == last_step[o]
             n == NodeOf[o]
             d == data[n]
             e == NodeEntry(n)
             b == node_last[n]
             v == rhsold[o]
  <2>1. /\ NodeShape(n, d, b) /\ Followed(o, s, l, d, b, v, evt_step, last_time)
        /\ evt_step \in Nat /\ last_time \in Nat /\ n \in Nodes /\ o \in Driven(n)
    BY FollowFactsAre
  <2>2. e \in NodeItem(n) /\ e.step = evt_step /\ e.val[o] = v
    BY <2>1, EntryTyped DEF NodeEntry, FollowFacts, NodeFacts
  <2>3. n \notin to_eval => v = LastOf(d).val[o]
    BY DEF FollowFacts, AllFollow, Follows
  <2>4. data'[n] = IF n \in to_eval THEN Append(d, e) ELSE d
    BY <1>1, <2>1
  <2> HIDE DEF s, l, n, d, e, b, v
  <2>5. Followed(o, s, l, Append(d, e), b, v, evt_step, last_time)
    BY <2>1, <2>2, AppendFollowed
  <2>6. LastOf(Append(d, e)) = e
    <3>1. d \in Seq(NodeItem(n))
      BY <2>1, ShapeIs
    <3> QED BY <2>2, <3>1, AppendIs DEF LastOf
  <2>7. Followed(o, s, l, data'[n], b, v, evt_step, last_time) /\ v = LastOf(data'[n]).val[o]
    BY <2>1, <2>2, <2>3, <2>4, <2>5, <2>6
  <2> QED BY <1>1, <2>7 DEF Follows, s, l, n, b, v
<1> QED BY <1>1, <1>2 DEF AllFollow

LEMMA AcceptFollows ==
  ASSUME FollowFacts, AcceptNodes
  PROVE  AllFollow'
<1>1. /\ EVTaccept /\ phase = "solve" /\ evt_step = target /\ to_eval = {}
      /\ evt_step' = evt_step /\ last_time' = evt_step
      /\ UNCHANGED <<rhsold, to_eval>>
  BY DEF AcceptNodes, EVTaccept, FollowFacts, AllFollow, NodeFacts, NodeInv, QueueInv, RoundShape
<1>2. ASSUME NEW o \in Outputs PROVE Follows(o)'
  <2> DEFINE s == list[o]
             r == list'[o]
             c == current[o]
             l == last_step[o]
             m == last_step'[o]
             n == NodeOf[o]
             d == data[n]
             b == node_last[n]
             e == data'[n]
             z == node_last'[n]
             v == rhsold[o]
  <2>1. /\ Links(s, c, l) /\ Dated(s, c, l, evt_step)
        /\ NodeShape(n, d, b) /\ n \in Nodes
        /\ Followed(o, s, l, d, b, v, evt_step, last_time) /\ v = LastOf(d).val[o]
        /\ evt_step \in Nat
    BY <1>1, FollowFactsAre
  <2>2. \E k \in Nat : k < c /\ Suffix(s, r, k) /\ m = c - k
    <3>1. \/ o \notin modified /\ r = s /\ m = l /\ c = l
          \/ \E k \in Nat : k < c /\ Suffix(s, r, k) /\ m = c - k
      BY <1>1, AcceptLists DEF FollowFacts, NodeFacts, NodeInv, OrderInv, Idle
    <3>2. s \in Seq(Event) /\ Len(s) \in Nat /\ c \in Nat /\ 1 <= c
      BY <2>1, LenProperties DEF Links
    <3>3. Suffix(s, s, 0) /\ 0 < c /\ c - 0 = c /\ 0 \in Nat
      BY <3>2 DEF Suffix
    <3> QED BY <3>1, <3>3
  <2>3. /\ z = IF n \in node_modified THEN Len(e) ELSE b
        /\ e = d \/ (n \in node_modified /\ e = <<LastOf(d)>>)
        /\ n \notin node_modified => b = Len(d)
    BY <2>1, AcceptNodesOK DEF FollowFacts, NodeFacts, NodeOrdered
  <2> HIDE DEF s, r, c, l, m, n, d, b, e, z, v
  <2>4. LastOf(e) = LastOf(d) /\ z = Len(e)
    <3> DEFINE w == LastOf(d)
    <3>1. e = d \/ e = <<w>>
      BY <2>3
    <3>2. w = LastOf(d)
      OBVIOUS
    <3> HIDE DEF w
    <3>3. LastOf(<<w>>) = w
      BY DEF LastOf
    <3> QED BY <2>3, <3>1, <3>2, <3>3
  <2>5. e[z].val[o] = v /\ v = LastOf(e).val[o]
    BY <2>1, <2>4 DEF LastOf
  <2>6. Followed(o, r, m, e, z, v, evt_step, evt_step)
    <3>1. PICK k \in Nat : k < c /\ Suffix(s, r, k) /\ m = c - k
      BY <2>2
    <3>2. Early(s, l)
      BY <2>1 DEF Followed
    <3>3. Followed(o, r, c - k, e, z, e[z].val[o], evt_step, evt_step)
      BY <2>1, <3>1, <3>2, AcceptedFollowed
    <3> QED BY <2>5, <3>1, <3>3
  <2> QED BY <1>1, <2>5, <2>6 DEF Follows, r, m, n, e, z, v
<1> QED BY <1>1, <1>2 DEF AllFollow

LEMMA BackFollows ==
  ASSUME FollowFacts, NEW t \in Time, EVTbackup(t)
  PROVE  AllFollow'
<1>1. /\ Backup(t) /\ phase = "solve" /\ evt_step' = t /\ last_time' = last_time
      /\ last_time < t /\ t < evt_step /\ to_eval = {}
      /\ node_last' = node_last /\ last_step' = last_step /\ UNCHANGED <<to_eval, phase>>
      /\ rhsold' = [o \in Outputs |-> IF NodeOf[o] \in node_modified
                                      THEN LastOf(data'[NodeOf[o]]).val[o] ELSE rhsold[o]]
  BY DEF EVTbackup, Backup, EVTbackup_output_queue, FollowFacts, AllFollow, NodeFacts, NodeInv,
         QueueInv, RoundShape
<1>2. ASSUME NEW o \in Outputs PROVE Follows(o)'
  <2> DEFINE s == list[o]
             r == list'[o]
             c == current[o]
             l == last_step[o]
             n == NodeOf[o]
             d == data[n]
             b == node_last[n]
             e == data'[n]
             v == rhsold[o]
             w == rhsold'[o]
             x == SubSeq(d, 1, Cut(d, b, t))
  <2>1. /\ Links(s, c, l) /\ PostedAhead(s) /\ NodeShape(n, d, b) /\ n \in Nodes
        /\ Recorded(d, b, evt_step, last_time)
        /\ Followed(o, s, l, d, b, v, evt_step, last_time) /\ v = LastOf(d).val[o]
        /\ evt_step \in Nat /\ last_time \in Time
    BY <1>1, FollowFactsAre
  <2>2. Back(s, r, l, t)
    BY <1>1, BackLists DEF FollowFacts, NodeFacts, NodeInv, Back
  <2>3. /\ e = IF n \in node_modified THEN x ELSE d
        /\ w = IF n \in node_modified THEN LastOf(e).val[o] ELSE v
        /\ n \notin node_modified => b = Len(d)
    BY <1>1, <2>1, BackNodes DEF FollowFacts, NodeFacts, NodeOrdered
  <2> HIDE DEF s, r, c, l, n, d, b, e, v, w, x
  <2>4. e = x /\ w = LastOf(e).val[o]
    <3>1. CASE n \in node_modified
      BY <2>3, <3>1
    <3>2. CASE n \notin node_modified
      <4>1. /\ b = Len(d) /\ Len(d) \in Nat /\ d \in Seq(NodeItem(n))
            /\ Cut(d, b, t) \in b .. Len(d)
        BY <2>1, <2>3, <3>2, ShapeIs, CutIs
      <4>2. x = d
        <5>1. Cut(d, b, t) = Len(d)
          BY <4>1
        <5> QED BY <4>1, <5>1, SubSeqFull DEF x
      <4> QED BY <2>1, <2>3, <3>2, <4>2
    <3> QED BY <3>1, <3>2
  <2>5. Followed(o, r, l, x, b, LastOf(x).val[o], t, last_time)
    <3>1. x = Trimmed(d, b, t)
      BY DEF x, Trimmed
    <3>2. last_time < t /\ t < evt_step
      BY <1>1
    <3> QED BY <2>1, <2>2, <3>1, <3>2, BackFollowed
  <2> QED BY <1>1, <2>4, <2>5 DEF Follows, r, l, n, b, e, w
<1> QED BY <1>1, <1>2 DEF AllFollow

LEMMA FollowStep ==
  ASSUME FollowFacts, [RoundNext]_<<vars, nodes>>, OrderInv'
  PROVE  AllFollow'
<1>1. ASSUME NEW o \in Outputs, NEW d \in Delays[o], Post(o, d), UNCHANGED nodes
      PROVE  AllFollow'
  BY <1>1, PostFollows
<1>2. ASSUME NEW t \in Time, Dequeue(t) \/ EVTiter(t) \/ EVTbackup(t)
      PROVE  AllFollow'
  BY <1>2, DequeueFollows, IterFollows, BackFollows
<1>3. ASSUME UNCHANGED <<list, last_step, last_time, evt_step, nodes>>,
             phase' = "iter" \/ phase \in {phase', "accepted"}
      PROVE  AllFollow'
  BY <1>3 DEF FollowFacts, AllFollow, Follows, nodes
<1>4. ASSUME NEW t \in Time, StartStep(t), UNCHANGED nodes PROVE AllFollow'
  BY <1>3, <1>4 DEF StartStep, queue
<1>5. ASSUME Solve, UNCHANGED nodes PROVE AllFollow'
  BY <1>5, SolveFollows
<1>6. ASSUME AcceptNodes PROVE AllFollow'
  BY <1>6, AcceptFollows
<1>7. ASSUME UNCHANGED <<vars, nodes>> PROVE AllFollow'
  BY <1>3, <1>7 DEF vars
<1> QED BY <1>1, <1>2, <1>4, <1>5, <1>6, <1>7 DEF RoundNext

FollowInv == AllInv /\ (misled = {} => AllFollow)

LEMMA FollowInvStep == FollowInv /\ [RoundNext]_<<vars, nodes>> => FollowInv'
<1> SUFFICES ASSUME FollowInv, [RoundNext]_<<vars, nodes>> PROVE FollowInv'
  OBVIOUS
<1>1. AllInv'
  BY AllStep DEF FollowInv
<1>2. misled' = {} => misled = {}
  BY RoundIsNext DEF Next, vars, Post, EventRound, EndRound, StartStep, Backup, Solve, EVTaccept
<1>3. ASSUME misled' = {} PROVE AllFollow'
  <2>1. FollowFacts
    BY <1>2, <1>3 DEF FollowFacts, FollowInv, AllInv, NodeFacts, Unmisled, NodesOrdered
  <2>2. OrderInv'
    BY <1>1, <1>3 DEF AllInv, Unmisled
  <2> QED BY <2>1, <2>2, FollowStep
<1> QED BY <1>1, <1>3 DEF FollowInv

LEMMA FollowInvStart == RoundInit => FollowInv
<1> SUFFICES ASSUME RoundInit PROVE FollowInv
  OBVIOUS
<1>1. AllInv
  BY AllStart
<1>2. /\ rhsold \in [Outputs -> Values] /\ to_eval = {}
      /\ evt_step = 0 /\ last_time = 0
      /\ \A o \in Outputs : list[o] = <<>> /\ last_step[o] = 1
  BY DEF RoundInit, Init
<1>3. ASSUME NEW o \in Outputs PROVE Follows(o)
  <2> DEFINE n == NodeOf[o]
             e == NodeEntry(n)
             v == rhsold[o]
  <2>1. n \in Nodes /\ e.val[o] = v /\ data[n] = <<e>> /\ node_last[n] = 1
    BY NodeAssumption DEF RoundInit, NodeEntry, Driven
  <2> HIDE DEF n, e, v
  <2>2. /\ LastOf(data[n]) = e /\ data[n][1] = e
    BY <2>1 DEF LastOf
  <2>3. Len(<<>>) = 0 /\ 1 .. Len(<<>>) = {}
    OBVIOUS
  <2>4. Followed(o, <<>>, 1, data[n], 1, v, 0, 0)
    BY <2>1, <2>2, <2>3 DEF Followed, Early, Brought, Shows
  <2> QED BY <1>2, <2>1, <2>2, <2>4 DEF Follows, n, v
<1> QED BY <1>1, <1>2, <1>3 DEF FollowInv, AllFollow

\* Until some output is misled, queue and nodes agree after every backup, however
\* deep, of each by its own rule: an output drives the value of the last event
\* delivered in this step, or the one its node had when the last was accepted.
THEOREM NodesKeepUp == RoundSpec => []NodesFollowQueue
<1>1. FollowInv => NodesFollowQueue
  <2> SUFFICES ASSUME FollowInv, misled = {}, NEW o \in Outputs
               PROVE  rhsold[o] = IF Delivered(o) # <<>> THEN ValueIn(o, LastOf(Delivered(o)))
                                  ELSE data[NodeOf[o]][node_last[NodeOf[o]]].val[o]
    BY DEF NodesFollowQueue
  <2> DEFINE s == list[o]
             c == current[o]
             l == last_step[o]
             old == data[NodeOf[o]][node_last[NodeOf[o]]].val[o]
             v == rhsold[o]
             ks == {n \in l .. c - 1 : NotRemoved(s[n])}
             r == At(s, ks)
  <2>1. FollowFacts
    BY DEF FollowFacts, FollowInv, AllInv, NodeFacts, Unmisled, NodesOrdered
  <2>2. /\ Links(s, c, l) /\ Dated(s, c, l, evt_step)
        /\ Shows(o, s, Brought(s, l, evt_step), v, old)
    BY <2>1, FollowFactsAre DEF Followed
  <2>3. Delivered(o) = r
    BY DEF Delivered
  <2>4. /\ s \in Seq(Event) /\ c \in Nat /\ l \in Nat /\ 1 <= l /\ l <= c /\ c <= Len(s) + 1
        /\ Len(s) \in Nat
    BY <2>2, LenProperties DEF Links
  <2>5. Brought(s, l, evt_step) = ks
    <3>1. ASSUME NEW n \in l .. Len(s), ~ s[n].removed
          PROVE  s[n].et <= evt_step <=> n \in l .. c - 1
      BY <2>2, <2>4, <3>1 DEF Dated
    <3>2. l .. c - 1 \subseteq l .. Len(s)
      BY <2>4
    <3> QED BY <3>1, <3>2 DEF Brought, NotRemoved
  <2>6. Within(ks, Len(s))
    BY <2>4 DEF Within
  <2> HIDE DEF s, c, l, old, v, ks, r
  <2>7. r \in Seq(Event) /\ \E f : Picks(s, r, ks, f)
    BY <2>4, <2>6, AtIs DEF r
  <2>8. PICK f : Picks(s, r, ks, f)
    BY <2>7
  <2>9. CASE r = <<>>
    <3>1. Len(r) = 0
      BY <2>9
    <3>2. ks = {}
      BY <2>8, <3>1 DEF Picks
    <3> QED BY <2>2, <2>3, <2>5, <2>9, <3>2 DEF Shows, v, old
  <2>10. CASE r # <<>>
    <3> DEFINE j == Len(r)
    <3>1. j \in Nat /\ j # 0
      BY <2>7, <2>10, EmptySeq, LenProperties
    <3>2. j \in 1 .. j
      BY <3>1
    <3>3. f[j] \in ks /\ r[j] = s[f[j]]
      BY <2>8, <3>2 DEF Picks
    <3>4. ASSUME NEW k \in ks PROVE k <= f[j]
      <4>1. PICK m \in 1 .. j : f[m] = k
        BY <2>8 DEF Picks
      <4>2. m < j => f[m] < f[j]
        BY <2>8, <3>2 DEF Picks
      <4>3. k \in Nat /\ f[j] \in Nat
        BY <2>6, <3>3, <2>4 DEF Within
      <4>4. m = j \/ m < j
        BY <3>1
      <4> QED BY <4>1, <4>2, <4>3, <4>4
    <3>5. v = ValueIn(o, r[j])
      BY <2>2, <2>5, <3>3, <3>4 DEF Shows
    <3> QED BY <2>3, <2>10, <3>5 DEF LastOf, v
  <2> QED BY <2>9, <2>10
<1> QED BY <1>1, FollowInvStart, FollowInvStep, PTL DEF RoundSpec
=============================================================================
