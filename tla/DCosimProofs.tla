---------------------------- MODULE DCosimProofs ----------------------------
(***************************************************************************)
(* Proofs about the bridge to a co-simulator: it is not asked to go back    *)
(* unless the solver does, behind its output; an input does not reach it    *)
(* early by more than the delay, and it is not missed; its output is sent,  *)
(* and when it is due.                                                      *)
(***************************************************************************)
EXTENDS DCosim, NatLemmas, SequenceTheorems, FiniteSetTheorems

Entry == [when : Nat, which : Ins, what : BOOLEAN]

State == [at : Nat, in : [Ins -> BOOLEAN], out : [Outs -> BOOLEAN],
          sent : [Outs -> BOOLEAN]]

\* The states of an instance since an accepted time, in order.
History(s, t) ==
  /\ s \in Seq(State) /\ Len(s) >= 1 /\ s[1].at <= t
  /\ \A j, k \in 1 .. Len(s) : j <= k => s[j].at <= s[k].at

LastAt(s) == s[Len(s)].at

\* r is what is left of the states s when those after time t are taken back.
TakenBack(s, r, t) ==
  \E n \in 1 .. Len(s) :
    /\ r \in Seq(State) /\ Len(r) = n /\ \A k \in 1 .. n : r[k] = s[k] /\ s[k].at <= t
    /\ \A k \in n + 1 .. Len(s) : s[k].at > t

Sorted(s) == \A j, k \in 1 .. Len(s) : j <= k => s[j].when <= s[k].when

InCall == {"first", "run", "scan", "before", "give", "after", "last", "return", "cut"}

\* The types of all variables the argument needs.
TypeInv ==
  /\ pc \in InCall \cup {"accepted", "loop", "retry"}
  /\ last \in Nat /\ target \in Time /\ TIME \in Time /\ vtime \in Time
  /\ ran \in Nat /\ ahead \in Nat /\ started \in Nat /\ brk \in Nat
  /\ last <= target
  /\ q \in Seq(Entry) /\ Len(q) <= QLength
  /\ History(states, last)
  /\ op_pending \in BOOLEAN /\ method \in {"normal", "after", "both"}
  /\ out_vals \in [Outs -> BOOLEAN] /\ shown \in [Outs -> BOOLEAN]
  /\ post \in [Outs -> NoPost .. Delay + MaxTime]

\* The solver has gone back behind the bridge and what it has pending.
Behind == q = <<>> /\ vtime <= ran /\ ran <= ahead

\* How the times of the step, of the bridge and of the co-simulator compare.
OrderInv ==
  /\ Sorted(q)
  /\ ran <= vtime \/ ran <= ahead
  /\ firsttime => ~ op_pending /\ pc \notin InCall
  /\ pc \in {"accepted", "loop"} => vtime <= last
  /\ pc \in {"accepted", "loop"} => LastAt(states) <= TIME
  /\ pc = "accepted" => LastAt(states) <= last
  /\ pc \in {"loop", "retry"} => LastAt(states) <= target
  /\ pc = "retry" =>
       \/ vtime <= last
       \/ op_pending /\ q = <<>> /\ vtime <= ran /\ (vtime <= target \/ ran <= ahead)
  /\ pc \in InCall => /\ TIME = target /\ LastAt(states) = TIME
                      /\ \A k \in 1 .. Len(q) : q[k].when <= TIME
                      /\ vtime <= TIME \/ (pc \in {"first", "run", "last"} /\ Behind)
  /\ pc = "scan" => \A k \in 1 .. Len(q) : q[k].when <= started \/ vtime <= q[k].when
  /\ pc = "before" => q # <<>> /\ vtime = q[1].when
  /\ pc = "give" => q # <<>> /\ vtime <= q[1].when
  /\ pc = "give" /\ method # "after" => q[1].when - ran <= Delay
  /\ pc = "after" => \A k \in 1 .. Len(q) : vtime <= q[k].when
  /\ pc = "cut" => vtime <= brk /\ last < brk /\ op_pending /\ q = <<>> /\ vtime <= ran

CInv == TypeInv /\ OrderInv

-----------------------------------------------------------------------------
(* The queue and the states.                                                *)

\* The entries up to a time are the first ones.
LEMMA UpToIsPrefix ==
  ASSUME NEW s \in Seq(Entry), Sorted(s), NEW t \in Int
  PROVE  \E n \in 0 .. Len(s) :
           /\ UpTo(s, t) = SubSeq(s, 1, n)
           /\ \A k \in 1 .. n : s[k].when <= t
           /\ \A k \in n + 1 .. Len(s) : s[k].when > t
<1> DEFINE T == {k \in 1 .. Len(s) + 1 : k <= Len(s) => s[k].when > t}
           S == {k \in DOMAIN s : s[k].when <= t}
<1>1. /\ Len(s) \in Nat /\ DOMAIN s = 1 .. Len(s)
      /\ \A k \in 1 .. Len(s) : s[k].when \in Nat
  <2>1. /\ Len(s) \in Nat /\ DOMAIN s = 1 .. Len(s)
        /\ \A k \in 1 .. Len(s) : s[k] \in Entry
    BY LenProperties, ElementOfSeq
  <2> QED BY <2>1 DEF Entry
<1>2. T \subseteq Nat /\ Len(s) + 1 \in T
  BY <1>1
<1>3. PICK x \in T : \A y \in T : x <= y
  BY <1>2, LeastNumber
<1>4. x \in 1 .. Len(s) + 1
  OBVIOUS
<1>5. \A k \in 1 .. x - 1 : s[k].when <= t
  <2> SUFFICES ASSUME NEW k \in 1 .. x - 1 PROVE s[k].when <= t
    OBVIOUS
  <2>1. k \in 1 .. Len(s) + 1 /\ k \notin T
    BY <1>1, <1>3, <1>4
  <2> QED BY <1>1, <2>1
<1>6. \A k \in x .. Len(s) : s[k].when > t
  <2> SUFFICES ASSUME NEW k \in x .. Len(s) PROVE s[k].when > t
    OBVIOUS
  <2>1. x \in 1 .. Len(s) /\ s[x].when > t
    BY <1>1, <1>3, <1>4
  <2>2. s[x].when <= s[k].when
    BY <1>1, <2>1 DEF Sorted
  <2> QED BY <1>1, <2>1, <2>2
<1>7. S = 1 .. x - 1
  BY <1>1, <1>4, <1>5, <1>6
<1>8. Cardinality(S) = x - 1
  <2> HIDE DEF S, T
  <2>1. Cardinality(1 .. x - 1) = IF 1 > x - 1 THEN 0 ELSE (x - 1) - 1 + 1
    BY <1>1, <1>4, FS_Interval
  <2> QED BY <1>1, <1>4, <1>7, <2>1
<1>9. UpTo(s, t) = SubSeq(s, 1, x - 1)
  BY <1>8 DEF UpTo
<1> HIDE DEF T, S
<1> QED BY <1>1, <1>4, <1>5, <1>6, <1>9

\* They are a queue themselves, of the same entries.
LEMMA UpToQueue ==
  ASSUME NEW s \in Seq(Entry), Sorted(s), NEW t \in Int
  PROVE  /\ UpTo(s, t) \in Seq(Entry) /\ Sorted(UpTo(s, t))
         /\ Len(UpTo(s, t)) <= Len(s)
         /\ \A k \in 1 .. Len(UpTo(s, t)) : UpTo(s, t)[k] = s[k] /\ s[k].when <= t
         /\ \A k \in Len(UpTo(s, t)) + 1 .. Len(s) : s[k].when > t
<1>1. PICK n \in 0 .. Len(s) :
           /\ UpTo(s, t) = SubSeq(s, 1, n)
           /\ \A k \in 1 .. n : s[k].when <= t
           /\ \A k \in n + 1 .. Len(s) : s[k].when > t
  BY UpToIsPrefix
<1>2. Len(s) \in Nat
  BY LenProperties
<1>3. /\ SubSeq(s, 1, n) \in Seq(Entry) /\ Len(SubSeq(s, 1, n)) = n
      /\ \A k \in 1 .. n : SubSeq(s, 1, n)[k] = s[k]
  BY <1>2, SubSeqProperties
<1>4. Sorted(SubSeq(s, 1, n))
  BY <1>2, <1>3 DEF Sorted
<1> QED BY <1>1, <1>2, <1>3, <1>4

\* Dropping the first entries leaves a queue.
LEMMA RestQueue ==
  ASSUME NEW s \in Seq(Entry), Sorted(s), NEW n \in 0 .. Len(s)
  PROVE  /\ SubSeq(s, n + 1, Len(s)) \in Seq(Entry)
         /\ Sorted(SubSeq(s, n + 1, Len(s)))
         /\ Len(SubSeq(s, n + 1, Len(s))) = Len(s) - n
         /\ \A k \in 1 .. Len(s) - n : SubSeq(s, n + 1, Len(s))[k] = s[n + k]
<1>1. Len(s) \in Nat
  BY LenProperties
<1>2. \A k \in 1 .. Len(s) : s[k] \in Entry
  BY ElementOfSeq
<1>3. /\ SubSeq(s, n + 1, Len(s)) \in Seq(Entry)
      /\ Len(SubSeq(s, n + 1, Len(s))) = Len(s) - n
      /\ \A k \in 1 .. Len(s) - n : SubSeq(s, n + 1, Len(s))[k] = s[n + k]
  BY <1>1, <1>2
<1> QED BY <1>1, <1>3 DEF Sorted

\* The times of the states are numbers.
LEMMA HistoryTimes ==
  ASSUME NEW s, NEW l \in Nat, History(s, l)
  PROVE  /\ Len(s) \in Nat /\ Len(s) >= 1 /\ DOMAIN s = 1 .. Len(s) /\ s[1].at <= l
         /\ s \in Seq(State) /\ LastAt(s) \in Nat
         /\ \A k \in 1 .. Len(s) : s[k] \in State /\ s[k].at \in Nat /\ s[k].at <= LastAt(s)
         /\ \A j, k \in 1 .. Len(s) : j <= k => s[j].at <= s[k].at
<1>1. Len(s) \in Nat /\ Len(s) >= 1 /\ DOMAIN s = 1 .. Len(s) /\ s \in Seq(State)
  BY LenProperties DEF History
<1>2. \A k \in 1 .. Len(s) : s[k] \in State
  BY <1>1, ElementOfSeq
<1>3. \A k \in 1 .. Len(s) : s[k].at \in Nat
  BY <1>2 DEF State
<1>4. Len(s) \in 1 .. Len(s)
  BY <1>1
<1> QED BY <1>1, <1>2, <1>3, <1>4 DEF History, LastAt

\* A backup keeps the states up to its time, the accepted one among them.
LEMMA BackupHistory ==
  ASSUME NEW l \in Nat, History(states, l), NEW t \in Nat, l <= t, Backup(t)
  PROVE  /\ target' = t /\ LastAt(states') <= t
         /\ History(states', l) /\ TakenBack(states, states', t)
<1> DEFINE s == states
           r == states'
<1> DEFINE T == {k \in 1 .. Len(s) + 1 : k <= Len(s) => s[k].at > t}
           S == {k \in DOMAIN s : s[k].at <= t}
<1>1. /\ Len(s) \in Nat /\ Len(s) >= 1 /\ DOMAIN s = 1 .. Len(s) /\ s \in Seq(State)
      /\ \A k \in 1 .. Len(s) : s[k].at \in Nat
      /\ s[1].at <= l
      /\ \A j, k \in 1 .. Len(s) : j <= k => s[j].at <= s[k].at
  BY HistoryTimes
<1>2. T \subseteq Nat /\ Len(s) + 1 \in T
  BY <1>1
<1>3. PICK x \in T : \A y \in T : x <= y
  BY <1>2, LeastNumber
<1>4. x \in 2 .. Len(s) + 1
  <2>1. x \in 1 .. Len(s) + 1
    OBVIOUS
  <2>2. 1 \notin T
    BY <1>1
  <2> QED BY <1>1, <1>3, <2>1, <2>2
<1>5. \A k \in 1 .. x - 1 : s[k].at <= t
  <2> SUFFICES ASSUME NEW k \in 1 .. x - 1 PROVE s[k].at <= t
    OBVIOUS
  <2>1. k \in 1 .. Len(s) + 1 /\ k \notin T
    BY <1>1, <1>3, <1>4
  <2> QED BY <1>1, <2>1
<1>6. \A k \in x .. Len(s) : s[k].at > t
  <2> SUFFICES ASSUME NEW k \in x .. Len(s) PROVE s[k].at > t
    OBVIOUS
  <2>1. x \in 1 .. Len(s) /\ s[x].at > t
    BY <1>1, <1>3, <1>4
  <2>2. s[x].at <= s[k].at /\ k \in 1 .. Len(s)
    BY <1>1, <1>4, <2>1
  <2> QED BY <1>1, <2>1, <2>2
<1>7. S = 1 .. x - 1
  BY <1>1, <1>4, <1>5, <1>6
<1>8. Cardinality(S) = x - 1
  <2> HIDE DEF S, T, s, r
  <2>0. x - 1 \in Int /\ x - 1 >= 1 /\ 1 \in Int
    BY <1>1, <1>4
  <2> DEFINE m == x - 1
  <2> HIDE DEF m
  <2>1. Cardinality(1 .. m) = IF 1 > m THEN 0 ELSE m - 1 + 1
    BY <2>0, FS_Interval DEF m
  <2>2. Cardinality(1 .. x - 1) = x - 1
    BY <2>0, <2>1 DEF m
  <2> QED BY <1>7, <2>2
<1>9. target' = t /\ r = SubSeq(s, 1, x - 1)
  BY <1>8 DEF Backup
<1> HIDE DEF S, T, s, r
<1> DEFINE n == x - 1
<1>11. n \in 1 .. Len(s) /\ n + 1 = x /\ r = SubSeq(s, 1, n)
  BY <1>1, <1>4, <1>9
<1> HIDE DEF n
<1>12. /\ r \in Seq(State) /\ Len(r) = n
       /\ \A k \in 1 .. n : r[k] = s[k]
  BY <1>1, <1>11, SubSeqProperties
<1>13. /\ \A k \in 1 .. n : s[k].at <= t
       /\ \A k \in n + 1 .. Len(s) : s[k].at > t
  BY <1>5, <1>6, <1>11
<1>14. TakenBack(s, r, t)
  BY <1>11, <1>12, <1>13 DEF TakenBack
<1>15. History(r, l)
  BY <1>1, <1>11, <1>12, <1>13 DEF History
<1>16. LastAt(r) <= t
  <2>1. n \in 1 .. n
    BY <1>1, <1>11
  <2> QED BY <1>12, <1>13, <2>1 DEF LastAt
<1> QED BY <1>9, <1>14, <1>15, <1>16 DEF s, r

\* A state is added.
LEMMA LaterHistory ==
  ASSUME NEW s, NEW l \in Nat, History(s, l)
  PROVE  /\ s[Len(s)] \in State
         /\ \A e \in State : LastAt(s) <= e.at =>
              /\ History(Append(s, e), l) /\ LastAt(Append(s, e)) = e.at
              /\ Len(Append(s, e)) = Len(s) + 1 /\ Append(s, e)[Len(s) + 1] = e
              /\ \A k \in 1 .. Len(s) : Append(s, e)[k] = s[k]
<1>1. /\ Len(s) \in Nat /\ DOMAIN s = 1 .. Len(s) /\ Len(s) >= 1
      /\ s \in Seq(State) /\ s[1].at <= l
      /\ \A k \in 1 .. Len(s) : s[k] \in State /\ s[k].at \in Nat /\ s[k].at <= LastAt(s)
      /\ \A j, k \in 1 .. Len(s) : j <= k => s[j].at <= s[k].at
  BY HistoryTimes
<1>2. s[Len(s)] \in State
  BY <1>1
<1>3. ASSUME NEW e \in State, LastAt(s) <= e.at
      PROVE  /\ History(Append(s, e), l) /\ LastAt(Append(s, e)) = e.at
             /\ Len(Append(s, e)) = Len(s) + 1 /\ Append(s, e)[Len(s) + 1] = e
             /\ \A k \in 1 .. Len(s) : Append(s, e)[k] = s[k]
  <2> DEFINE r == Append(s, e)
  <2>1. /\ r \in Seq(State) /\ Len(r) = Len(s) + 1
        /\ r[Len(s) + 1] = e /\ \A k \in 1 .. Len(s) : r[k] = s[k]
    BY <1>1, AppendProperties
  <2> HIDE DEF r
  <2>2. e.at \in Nat /\ LastAt(s) \in Nat
    BY <1>1 DEF State, LastAt
  <2>3. \A j, k \in 1 .. Len(r) : j <= k => r[j].at <= r[k].at
    <3> SUFFICES ASSUME NEW j \in 1 .. Len(r), NEW k \in 1 .. Len(r), j <= k
                 PROVE  r[j].at <= r[k].at
      OBVIOUS
    <3>1. CASE k \in 1 .. Len(s)
      BY <1>1, <2>1, <3>1
    <3>2. CASE k = Len(s) + 1 /\ j \in 1 .. Len(s)
      BY <1>1, <1>3, <2>1, <2>2, <3>2
    <3>3. CASE k = Len(s) + 1 /\ j = Len(s) + 1
      BY <2>1, <2>2, <3>3
    <3> QED BY <1>1, <2>1, <3>1, <3>2, <3>3
  <2>4. History(r, l) /\ LastAt(r) = e.at
    BY <1>1, <2>1, <2>3 DEF History, LastAt
  <2> QED BY <2>1, <2>4 DEF r
<1> QED BY <1>2, <1>3

\* The last state gets other output.
LEMMA OutHistory ==
  ASSUME NEW l \in Nat, History(states, l), NEW v \in [Outs -> BOOLEAN],
         states' = [states EXCEPT ![Len(states)].out = v]
  PROVE  /\ History(states', l) /\ LastAt(states') = LastAt(states)
         /\ Len(states') = Len(states)
         /\ Now'.out = v /\ Now'.sent = Now.sent
         /\ \A k \in 1 .. Len(states) - 1 : states'[k] = states[k]
         /\ \A k \in 1 .. Len(states) :
              states'[k].at = states[k].at /\ states'[k].in = states[k].in
<1> DEFINE s == states
           r == states'
<1> DEFINE e == [s[Len(s)] EXCEPT !.out = v]
<1>1. /\ Len(s) \in Nat /\ DOMAIN s = 1 .. Len(s) /\ Len(s) >= 1
      /\ s \in Seq(State) /\ s[1].at <= l
      /\ \A k \in 1 .. Len(s) : s[k] \in State
      /\ \A j, k \in 1 .. Len(s) : j <= k => s[j].at <= s[k].at
  BY HistoryTimes
<1>2. s \in [1 .. Len(s) -> State] /\ s[Len(s)] \in State
  BY <1>1, ElementOfSeq
<1>3. /\ e \in State /\ e.at = s[Len(s)].at /\ e.in = s[Len(s)].in
      /\ e.out = v /\ e.sent = s[Len(s)].sent /\ r = [s EXCEPT ![Len(s)] = e]
  BY <1>2 DEF State
<1> HIDE DEF e, s, r
<1>4. r \in [1 .. Len(s) -> State]
  BY <1>2, <1>3
<1>5. r \in Seq(State)
  BY <1>1, <1>4, SeqDef
<1>6. Len(r) = Len(s)
  <2>1. Len(r) \in Nat /\ DOMAIN r = 1 .. Len(r)
    BY <1>5, LenProperties
  <2> QED BY <1>1, <1>4, <2>1
<1>7. r[Len(s)] = e /\ \A k \in 1 .. Len(s) - 1 : r[k] = s[k]
  BY <1>1, <1>2, <1>3
<1>8. \A k \in 1 .. Len(s) : r[k].at = s[k].at /\ r[k].in = s[k].in
  BY <1>1, <1>3, <1>7
<1>9. History(r, l) /\ LastAt(r) = LastAt(s)
  <2>1. Len(s) \in 1 .. Len(s) /\ 1 \in 1 .. Len(s)
    BY <1>1
  <2>2. r[1].at <= l /\ \A j, k \in 1 .. Len(r) : j <= k => r[j].at <= r[k].at
    BY <1>1, <1>6, <1>8, <2>1
  <2> QED BY <1>1, <1>5, <1>6, <1>8, <2>1, <2>2 DEF History, LastAt
<1>10. Now = s[Len(s)] /\ Now' = r[Len(r)]
  BY DEF Now, s, r
<1> QED BY <1>3, <1>6, <1>7, <1>8, <1>9, <1>10 DEF s, r

\* A single state.
LEMMA OneState ==
  ASSUME NEW e \in State, NEW l \in Nat, e.at <= l
  PROVE  /\ History(<<e>>, l) /\ LastAt(<<e>>) = e.at
         /\ Len(<<e>>) = 1 /\ <<e>>[1] = e
<1>1. e.at \in Nat
  BY DEF State
<1>2. <<e>> \in Seq(State) /\ Len(<<e>>) = 1 /\ <<e>>[1] = e
  OBVIOUS
<1> QED BY <1>1, <1>2 DEF History, LastAt

-----------------------------------------------------------------------------
(* Pieces of the actions.                                                   *)

LEMMA Numbers ==
  /\ Delay \in Nat \ {0} /\ Extra \in Nat \ {0} /\ Delay = 3 * Extra
  /\ QLength \in Nat \ {0} /\ MinBreak \in Nat \ {0} /\ MaxTime \in Nat
  /\ NumIns \in Nat \ {0} /\ MaxStep \in Nat \ {0} /\ Infinity \in Nat
  /\ Infinity > MaxTime
BY CosimAssumption DEF Infinity

\* What is posted has a delay.
LEMMA OutputsTyped ==
  ASSUME NEW vals, NEW t \in Time, NEW from \in Time
  PROVE  Outputs(vals, t, from) \in [Outs -> NoPost .. Delay + MaxTime]
<1>1. t \in Nat /\ from \in Nat /\ from <= MaxTime
  BY Numbers DEF Time
<1>2. /\ Delay - (t - from) <= Delay + MaxTime
      /\ Delay - (t - from) \in Int
  BY <1>1, Numbers
<1>3. /\ NoPost \in NoPost .. Delay + MaxTime /\ 0 \in NoPost .. Delay + MaxTime
      /\ Delay - (t - from) > 0 => Delay - (t - from) \in NoPost .. Delay + MaxTime
  BY <1>1, <1>2, Numbers DEF NoPost
<1> QED BY <1>2, <1>3 DEF Outputs

LEMMA CalledTyped ==
  ASSUME TypeInv, NEW t \in Time, Called(t)
  PROVE  /\ TIME' = t /\ op_pending' = FALSE /\ out_vals' \in [Outs -> BOOLEAN]
         /\ post' \in [Outs -> NoPost .. Delay + MaxTime]
<1>1. TIME' = t /\ op_pending' = FALSE /\ out_vals' \in [Outs -> BOOLEAN]
  BY DEF Called, Low
<1>2. Outputs(out_vals, t, vtime) \in [Outs -> NoPost .. Delay + MaxTime]
  BY OutputsTyped DEF TypeInv
<1>3. None \in [Outs -> NoPost .. Delay + MaxTime]
  BY Numbers DEF None, NoPost
<1> QED BY <1>1, <1>2, <1>3 DEF Called

LEMMA NowTyped ==
  ASSUME TypeInv
  PROVE  /\ Now \in State /\ Now.in \in [Ins -> BOOLEAN]
         /\ Now.out \in [Outs -> BOOLEAN] /\ Now.sent \in [Outs -> BOOLEAN]
         /\ Shown \in [Outs -> BOOLEAN]
<1>1. Now \in State
  BY LaterHistory DEF TypeInv, Now
<1>2. /\ Now.in \in [Ins -> BOOLEAN]
      /\ Now.out \in [Outs -> BOOLEAN] /\ Now.sent \in [Outs -> BOOLEAN]
  BY <1>1 DEF State
<1> QED BY <1>1, <1>2 DEF Shown, TypeInv

\* check_input leaves a queue.
LEMMA CheckInputQueue ==
  ASSUME NEW s \in Seq(Entry), Sorted(s), Len(s) <= QLength, NEW e \in Entry,
         \A k \in 1 .. Len(s) : s[k].when <= e.when
  PROVE  /\ check_input(s, e).q \in Seq(Entry) /\ Sorted(check_input(s, e).q)
         /\ Len(check_input(s, e).q) <= QLength
         /\ check_input(s, e).brk \in Int
<1>1. Len(s) \in Nat /\ e.when \in Nat
  BY LenProperties DEF Entry
<1>2. CASE Len(s) < QLength
  <2> DEFINE a == Append(s, e)
  <2>1. a \in Seq(Entry) /\ Len(a) = Len(s) + 1 /\ a[Len(s) + 1] = e
        /\ \A k \in 1 .. Len(s) : a[k] = s[k]
    BY AppendProperties
  <2> HIDE DEF a
  <2>2. Sorted(a)
    BY <1>1, <2>1 DEF Sorted
  <2>3. check_input(s, e).q = a /\ check_input(s, e).brk = Infinity
    BY <1>2 DEF check_input, a
  <2> QED BY <1>1, <1>2, <2>1, <2>2, <2>3, Numbers
<1>3. CASE ~ (Len(s) < QLength)
  <2> DEFINE kept == UpTo(s, e.when - 1)
             r == check_input(s, e)
  <2>1. /\ kept \in Seq(Entry) /\ Sorted(kept) /\ Len(kept) <= Len(s)
    BY <1>1, UpToQueue
  <2>2. r.q = kept /\ r.brk = IF kept = <<>> THEN Infinity
                              ELSE (e.when + kept[Len(kept)].when) \div 2
    BY <1>3 DEF check_input
  <2> HIDE DEF kept, r
  <2>3. ASSUME kept # <<>> PROVE kept[Len(kept)].when \in Nat
    <3>1. kept[Len(kept)] \in Entry
      BY <2>1, <2>3, EmptySeq, LenProperties, ElementOfSeq
    <3> QED BY <3>1 DEF Entry
  <2>4. r.brk \in Int
    BY <1>1, <2>2, <2>3, Numbers
  <2>5. Len(kept) \in Nat
    BY <2>1, LenProperties
  <2>6. r.q \in Seq(Entry) /\ Sorted(r.q) /\ Len(r.q) <= QLength /\ r.brk \in Int
    BY <1>1, <2>1, <2>2, <2>4, <2>5, Numbers
  <2> QED BY <2>6 DEF r
<1> QED BY <1>2, <1>3

LEMMA Within ==
  ASSUME NEW t \in Nat, NEW v \in Nat, t - v > Delay
  PROVE  v <= t
BY Numbers

LEMMA Between ==
  ASSUME NEW a \in Nat, NEW b \in Nat, NEW c \in Nat, NEW d \in Nat, NEW e \in Nat,
         a <= b, b <= c, a <= e, a = b \/ c - a <= d
  PROVE  b - e <= d
OBVIOUS

\* advance: the co-simulator comes to the time of the bridge, which is the time
\* asked for, or one not too far in the past; or the step is cut after it.
LEMMA AdvanceKeeps ==
  ASSUME CInv, pc \in InCall, NEW goal \in Time, vtime <= goal \/ ran <= ahead,
         NEW next, advance(goal, next)
  PROVE  /\ TIME' = TIME /\ last' = last /\ target' = target /\ method' = method
         /\ ahead' = ahead /\ firsttime' = firsttime
         /\ vtime' \in Time /\ vtime' <= goal /\ vtime' <= ran' /\ ran' \in Nat
         /\ vtime' = goal \/ ran <= vtime'
         /\ ran' = vtime' \/ ran' = ran
         /\ ran' <= vtime' \/ ran' <= ahead
         /\ brk' \in Nat /\ op_pending' \in BOOLEAN
         /\ out_vals' \in [Outs -> BOOLEAN] /\ shown' \in [Outs -> BOOLEAN]
         /\ post' \in [Outs -> NoPost .. Delay + MaxTime]
         /\ History(states', last) /\ LastAt(states') = LastAt(states)
         /\ \/ pc' = next /\ q' = q /\ (vtime' = goal \/ TIME - vtime' <= Delay)
            \/ /\ pc' = "cut" /\ q' = <<>> /\ TIME - vtime' > Delay
               /\ vtime' <= brk' /\ last < brk' /\ op_pending'
<1>1. /\ TIME' = TIME /\ last' = last /\ target' = target /\ method' = method
      /\ ahead' = ahead /\ firsttime' = firsttime
  BY DEF advance
<1>2. /\ last \in Nat /\ TIME \in Nat /\ TIME <= MaxTime /\ ran \in Nat /\ vtime \in Nat
      /\ brk \in Nat /\ last <= TIME /\ ahead \in Nat /\ goal \in Nat
      /\ ran <= vtime \/ ran <= ahead
  BY Numbers DEF CInv, TypeInv, OrderInv, Time
<1>3. CASE /\ Runs(goal)
           /\ pc' = next
           /\ UNCHANGED <<brk, states, q, op_pending, out_vals, post, lost, wiped>>
  <2>1. vtime' = goal /\ ran' = IF ran < goal THEN goal ELSE ran
    BY <1>3 DEF Runs, Max2
  <2>2. /\ ran' \in Nat /\ vtime' <= ran' /\ (ran' = vtime' \/ ran' = ran)
        /\ ran' <= vtime' \/ ran' <= ahead
    BY <1>2, <2>1
  <2>3. vtime' \in Time /\ vtime' <= goal
    BY <1>2, <2>1
  <2> QED BY <1>1, <1>3, <2>1, <2>2, <2>3 DEF Runs, CInv, TypeInv
<1>4. ASSUME NEW u \in {goal} \cup ran .. goal, NEW new \in SUBSET Outs,
             Stops(goal, u, new), Direct(Accepted(new), next) \/ Truncate(Accepted(new))
      PROVE  /\ vtime' \in Time /\ vtime' <= goal /\ vtime' <= ran' /\ ran' \in Nat
             /\ vtime' = goal \/ ran <= vtime'
             /\ ran' = vtime' \/ ran' = ran
             /\ ran' <= vtime' \/ ran' <= ahead
             /\ brk' \in Nat /\ op_pending' \in BOOLEAN
             /\ out_vals' \in [Outs -> BOOLEAN] /\ shown' \in [Outs -> BOOLEAN]
             /\ post' \in [Outs -> NoPost .. Delay + MaxTime]
             /\ History(states', last) /\ LastAt(states') = LastAt(states)
             /\ \/ pc' = next /\ q' = q /\ (vtime' = goal \/ TIME - vtime' <= Delay)
                \/ /\ pc' = "cut" /\ q' = <<>> /\ TIME - vtime' > Delay
                   /\ vtime' <= brk' /\ last < brk' /\ op_pending'
  <2>0. vtime' = u /\ ran' = IF ran < u THEN u ELSE ran
    BY <1>4 DEF Stops, Max2
  <2>1. /\ u \in Nat /\ u <= goal /\ u \in Time /\ (u = goal \/ ran <= u)
        /\ u <= ran' /\ ran' \in Nat /\ (ran' = u \/ ran' = ran)
        /\ ran' <= u \/ ran' <= ahead
    BY <1>2, <2>0, Numbers DEF Time
  <2>2. shown' \in [Outs -> BOOLEAN]
    BY <1>4 DEF Stops, CInv, TypeInv
  <2>3. Accepted(new) \in [Outs -> BOOLEAN]
    BY <2>2, NowTyped DEF Accepted, CInv
  <2>4. CASE Direct(Accepted(new), next)
    <3>1. History(states', last) /\ LastAt(states') = LastAt(states)
      BY <1>2, <2>3, <2>4, OutHistory DEF Direct, CInv, TypeInv
    <3>2. post' \in [Outs -> NoPost .. Delay + MaxTime]
      BY <2>0, <2>1, <2>4, OutputsTyped DEF Direct, CInv, TypeInv
    <3>3. pc' = next /\ q' = q /\ TIME - vtime' <= Delay
          /\ UNCHANGED <<brk, op_pending, out_vals>>
      BY <2>4 DEF Direct
    <3> QED BY <2>0, <2>1, <2>2, <3>1, <3>2, <3>3 DEF CInv, TypeInv
  <2>5. CASE Truncate(Accepted(new))
    <3>1. /\ pc' = "cut" /\ q' = <<>> /\ op_pending' = TRUE
          /\ out_vals' = Accepted(new) /\ states' = states /\ post' = post
      BY <2>5 DEF Truncate
    <3>2. /\ brk' \in {TIME + MinBreak, Max2(u + Extra, last + MinBreak)}
          /\ TIME - u > Delay
      BY <2>0, <2>5 DEF Truncate
    <3>3. brk' \in Nat /\ u <= brk' /\ last < brk'
      BY <1>2, <2>1, <3>2, Numbers DEF Max2
    <3>4. /\ vtime' \in Time /\ vtime' <= goal /\ vtime' <= ran' /\ vtime' <= brk'
          /\ vtime' = goal \/ ran <= vtime'
          /\ ran' = vtime' \/ ran' = ran
          /\ ran' <= vtime' \/ ran' <= ahead
          /\ TIME - vtime' > Delay
      BY <2>0, <2>1, <3>2, <3>3
    <3>5. /\ ran' \in Nat /\ op_pending' \in BOOLEAN /\ out_vals' \in [Outs -> BOOLEAN]
          /\ post' \in [Outs -> NoPost .. Delay + MaxTime]
          /\ History(states', last) /\ LastAt(states') = LastAt(states)
      BY <2>1, <2>3, <3>1 DEF CInv, TypeInv
    <3> QED BY <2>2, <3>1, <3>3, <3>4, <3>5
  <2> QED BY <1>4, <2>4, <2>5
<1>5. \/ /\ Runs(goal)
         /\ pc' = next
         /\ UNCHANGED <<brk, states, q, op_pending, out_vals, post, lost, wiped>>
      \/ \E u \in {goal} \cup ran .. goal : \E new \in SUBSET Outs :
           /\ Stops(goal, u, new)
           /\ Direct(Accepted(new), next) \/ Truncate(Accepted(new))
  BY Zenon DEF advance
<1> QED BY <1>1, <1>3, <1>4, <1>5

\* What holds after it in any case.
LEMMA AfterAdvance ==
  ASSUME CInv, pc \in InCall, NEW goal \in Time, vtime <= goal \/ ran <= ahead,
         NEW next \in InCall \ {"cut"}, advance(goal, next), started' = started
  PROVE  /\ TypeInv' /\ Sorted(q') /\ pc' \in InCall /\ ahead' = ahead
         /\ ~ firsttime' /\ (ran' <= vtime' \/ ran' <= ahead')
         /\ vtime' \in Nat /\ ran' \in Nat /\ vtime' <= ran'
         /\ ran' = vtime' \/ ran' = ran
         /\ TIME' = target' /\ TIME' = TIME /\ vtime' <= goal
         /\ LastAt(states') = TIME'
         /\ \A k \in 1 .. Len(q') : q'[k].when <= TIME'
         /\ pc' = "cut" => /\ vtime' <= brk' /\ last' < brk' /\ op_pending'
                           /\ q' = <<>> /\ vtime' <= TIME'
         /\ pc' # "cut" => pc' = next /\ q' = q
                           /\ (vtime' = goal \/ TIME - vtime' <= Delay)
<1> DEFINE Kept == /\ pc' = next /\ q' = q
                   /\ vtime' = goal \/ TIME - vtime' <= Delay
           Cut == /\ pc' = "cut" /\ q' = <<>> /\ TIME - vtime' > Delay
                  /\ vtime' <= brk' /\ last < brk' /\ op_pending'
<1>1. /\ TIME' = TIME /\ last' = last /\ target' = target /\ method' = method
      /\ ahead' = ahead /\ firsttime' = firsttime
      /\ vtime' \in Time /\ vtime' <= goal /\ vtime' <= ran' /\ ran' \in Nat
      /\ ran' = vtime' \/ ran' = ran
      /\ ran' <= vtime' \/ ran' <= ahead
      /\ brk' \in Nat /\ op_pending' \in BOOLEAN
      /\ out_vals' \in [Outs -> BOOLEAN] /\ shown' \in [Outs -> BOOLEAN]
      /\ post' \in [Outs -> NoPost .. Delay + MaxTime]
      /\ History(states', last) /\ LastAt(states') = LastAt(states)
      /\ Kept \/ Cut
  BY AdvanceKeeps
<1>2. <<>> \in Seq(Entry) /\ Len(<<>>) = 0 /\ Sorted(<<>>)
  BY EmptySeq DEF Sorted
<1>3. q' \in Seq(Entry) /\ Sorted(q') /\ Len(q') <= QLength
      /\ \A k \in 1 .. Len(q') : q'[k].when <= TIME
  <2>1. CASE Kept
    <3>1. q \in Seq(Entry) /\ Len(q) <= QLength
      BY DEF CInv, TypeInv
    <3>2. Sorted(q) /\ \A k \in 1 .. Len(q) : q[k].when <= TIME
      BY DEF CInv, OrderInv
    <3> QED BY <2>1, <3>1, <3>2
  <2>2. CASE Cut
    <3>1. q' = <<>>
      BY <2>2
    <3> QED BY <1>2, <3>1, Numbers
  <2> QED BY <1>1, <2>1, <2>2
<1>4. pc' \in InCall /\ (pc' = "cut" => Cut) /\ (pc' # "cut" => Kept)
  BY <1>1 DEF InCall
<1>5. /\ vtime' \in Nat /\ TIME \in Nat /\ TIME = target /\ LastAt(states') = TIME'
      /\ ~ firsttime'
  BY <1>1, Numbers DEF Time, CInv, TypeInv, OrderInv
<1>6. TypeInv'
  <2>1. History(states', last')
    BY <1>1
  <2> QED BY <1>1, <1>3, <1>4, <1>5, <2>1 DEF CInv, TypeInv
<1>7. ASSUME Cut PROVE vtime' <= TIME
  <2>1. TIME - vtime' > Delay
    BY <1>7
  <2>2. vtime' \in Nat /\ TIME \in Nat
    BY <1>5
  <2> QED BY <2>1, <2>2, Within
<1>8. /\ pc' = "cut" => /\ vtime' <= brk' /\ last' < brk' /\ op_pending'
                        /\ q' = <<>> /\ vtime' <= TIME'
      /\ pc' # "cut" => pc' = next /\ q' = q
                        /\ (vtime' = goal \/ TIME - vtime' <= Delay)
  BY <1>1, <1>4, <1>7
<1> HIDE DEF Kept, Cut
<1> QED BY <1>1, <1>3, <1>4, <1>5, <1>6, <1>8

-----------------------------------------------------------------------------
(* The actions.                                                             *)

LEMMA InitInv == Init => CInv
<1> SUFFICES ASSUME Init PROVE CInv
  OBVIOUS
<1>1. /\ q = <<>> /\ q \in Seq(Entry) /\ Len(q) = 0 /\ Sorted(q)
  BY EmptySeq DEF Init, Sorted
<1>2. History(states, last) /\ LastAt(states) = 0
  <2> DEFINE e == [at |-> 0, in |-> seen, out |-> Low, sent |-> Low]
  <2>1. e \in State
    BY DEF Init, Low, State
  <2>2. states = <<e>> /\ last = 0 /\ e.at = 0
    BY DEF Init
  <2> HIDE DEF e
  <2> QED BY <2>1, <2>2, OneState
<1>3. TypeInv
  <2>1. last = 0 /\ target = 0 /\ TIME = 0 /\ vtime = 0 /\ ran = 0 /\ started = 0
        /\ ahead = 0
        /\ brk = Infinity /\ op_pending = FALSE /\ method \in Methods
        /\ pc = "accepted"
    BY DEF Init
  <2>2. out_vals \in [Outs -> BOOLEAN] /\ shown \in [Outs -> BOOLEAN]
    BY DEF Init, Low
  <2>3. post \in [Outs -> NoPost .. Delay + MaxTime]
    BY Numbers DEF Init, None, NoPost
  <2>4. 0 \in Time
    BY Numbers DEF Time
  <2>5. method \in {"normal", "after", "both"}
    BY <2>1, CosimAssumption
  <2>6. brk \in Nat /\ Len(q) <= QLength
    BY <1>1, <2>1, Numbers
  <2>7. target \in Time /\ TIME \in Time /\ vtime \in Time
    BY <2>1, <2>4
  <2>8. last <= target /\ last \in Nat /\ ran \in Nat /\ ahead \in Nat /\ started \in Nat
    BY <2>1
  <2>9. pc \in InCall \cup {"accepted", "loop", "retry"} /\ op_pending \in BOOLEAN
    BY DEF Init
  <2> QED BY <1>1, <1>2, <2>2, <2>3, <2>5, <2>6, <2>7, <2>8, <2>9, Zenon
     DEF TypeInv
<1> QED BY <1>1, <1>2, <1>3 DEF Init, CInv, OrderInv, InCall

LEMMA StartStepInv ==
  ASSUME CInv, NEW t \in Time, StartStep(t) PROVE CInv'
<1>1. /\ pc = "accepted" /\ pc' = "loop" /\ last < t /\ target' = t
      /\ last \in Nat /\ t \in Nat
      /\ UNCHANGED <<brk, last, TIME, states, q, vtime, last_step, op_pending,
                      out_vals, method, started, post, ran, shown, ahead, firsttime>>
  BY Numbers DEF StartStep, CInv, TypeInv, Time, bridge, cosim, missed
<1>2. History(states', last') /\ LastAt(states') = LastAt(states) /\ LastAt(states) \in Nat
  BY <1>1, HistoryTimes DEF CInv, TypeInv
<1>3. TypeInv'
  BY <1>1, <1>2 DEF CInv, TypeInv, InCall
<1>4. LastAt(states') <= TIME' /\ LastAt(states') <= target'
  BY <1>1, <1>2 DEF CInv, OrderInv
<1> QED BY <1>1, <1>3, <1>4 DEF CInv, OrderInv, Sorted, InCall

LEMMA EventInv ==
  ASSUME CInv, NEW t \in Time, NEW i \in Ins, Event(t, i) PROVE CInv'
<1> DEFINE e == [when |-> t, which |-> i, what |-> ~ Now.in[i]]
           c == check_input(UpTo(q, t), e)
           st == [at |-> t, in |-> [Now.in EXCEPT ![i] = ~ @],
                  out |-> Shown, sent |-> Sent(Shown, post')]
<1>1. /\ pc = "loop" /\ pc' = "loop" /\ last < t /\ t \in TIME .. target
      /\ Called(t)
      /\ states' = Append(states, st) /\ q' = c.q
      /\ target' = IF c.brk < target /\ c.brk > last + MinBreak /\ c.brk >= t
                   THEN c.brk ELSE target
      /\ UNCHANGED <<brk, last, vtime, last_step, method, started, ran, shown, ahead,
                      firsttime>>
  BY DEF Event, cosim, missed
<1>2. t \in Nat /\ last \in Nat /\ target \in Time /\ target \in Nat /\ TIME \in Nat
  BY Numbers DEF Time, CInv, TypeInv
<1>3. e \in Entry /\ e.when = t
  BY <1>2, NowTyped DEF Entry, CInv
<1>4. st \in State /\ st.at = t
  <2>1. Sent(Shown, post') \in [Outs -> BOOLEAN]
    BY NowTyped DEF Sent, CInv
  <2>2. [Now.in EXCEPT ![i] = ~ @] \in [Ins -> BOOLEAN]
    BY NowTyped DEF CInv
  <2> QED BY <1>2, <2>1, <2>2, NowTyped DEF State, CInv
<1>5. /\ UpTo(q, t) \in Seq(Entry) /\ Sorted(UpTo(q, t))
      /\ Len(UpTo(q, t)) <= QLength
      /\ \A k \in 1 .. Len(UpTo(q, t)) : UpTo(q, t)[k].when <= t
  <2>1. q \in Seq(Entry) /\ Sorted(q) /\ Len(q) \in Nat /\ Len(q) <= QLength
    BY LenProperties DEF CInv, TypeInv, OrderInv
  <2>2. /\ UpTo(q, t) \in Seq(Entry) /\ Sorted(UpTo(q, t))
        /\ Len(UpTo(q, t)) <= Len(q)
        /\ \A k \in 1 .. Len(UpTo(q, t)) : UpTo(q, t)[k].when <= t
    <3> HIDE DEF e, c, st
    <3>1. t \in Int
      BY <1>2
    <3>2. /\ UpTo(q, t) \in Seq(Entry) /\ Sorted(UpTo(q, t))
          /\ Len(UpTo(q, t)) <= Len(q)
          /\ \A k \in 1 .. Len(UpTo(q, t)) : UpTo(q, t)[k] = q[k] /\ q[k].when <= t
      BY <2>1, <3>1, UpToQueue
    <3> QED BY <3>2
  <2>3. Len(UpTo(q, t)) \in Nat
    BY <2>2, LenProperties
  <2> QED BY <2>1, <2>2, <2>3, Numbers
<1>6. c.q \in Seq(Entry) /\ Sorted(c.q) /\ Len(c.q) <= QLength /\ c.brk \in Int
  BY <1>3, <1>5, CheckInputQueue
<1> HIDE DEF e, c, st
<1>7. /\ TIME' = t /\ op_pending' = FALSE /\ out_vals' \in [Outs -> BOOLEAN]
      /\ post' \in [Outs -> NoPost .. Delay + MaxTime]
  BY <1>1, CalledTyped DEF CInv
<1>8. History(states', last') /\ LastAt(states') = t
  <2>1. LastAt(states) \in Nat /\ LastAt(states) <= TIME
    BY <1>1, HistoryTimes DEF CInv, TypeInv, OrderInv
  <2>2. LastAt(states) <= st.at
    BY <1>1, <1>2, <1>4, <2>1
  <2> QED BY <1>1, <1>2, <1>4, <2>2, LaterHistory DEF CInv, TypeInv
<1>9. target' \in Time /\ last <= target' /\ t <= target'
  BY <1>1, <1>2, <1>6, Numbers DEF Time
<1>10. TypeInv'
  BY <1>1, <1>6, <1>7, <1>8, <1>9 DEF CInv, TypeInv
<1> QED BY <1>1, <1>2, <1>6, <1>7, <1>8, <1>9, <1>10 DEF CInv, OrderInv, InCall

LEMMA RejectInv ==
  ASSUME CInv, NEW delta \in 1 .. MaxStep, Reject(delta)
  PROVE  CInv'
<1>1. /\ pc \in {"loop", "retry"} /\ pc' = "retry" /\ last \in Nat
      /\ delta \in Nat /\ last + delta < target /\ last + delta \in Nat
      /\ Backup(last + delta)
      /\ IF op_pending /\ target' < vtime THEN ahead' = ran ELSE ahead' = ahead
      /\ UNCHANGED <<brk, last, TIME, q, vtime, last_step, op_pending,
                      out_vals, method, started, post, ran, shown, firsttime>>
  BY Numbers DEF Reject, CInv, TypeInv, OrderInv, Time, bridge, cosim
<1>2. target' = last + delta /\ History(states', last) /\ LastAt(states') <= target'
  BY <1>1, BackupHistory DEF CInv, TypeInv
<1>3. target' \in Time /\ target' \in Nat /\ last <= target'
  BY <1>1, <1>2, Numbers DEF CInv, TypeInv, Time
<1>4. vtime \in Nat /\ ran \in Nat /\ ahead \in Nat
  BY Numbers DEF CInv, TypeInv, Time
<1>5. TypeInv'
  BY <1>1, <1>2, <1>3, <1>4 DEF CInv, TypeInv, InCall
<1>6. vtime <= last \/ (op_pending /\ q = <<>> /\ vtime <= ran)
  BY <1>1 DEF CInv, OrderInv
<1>7. (ran <= vtime \/ ran <= ahead') /\ (op_pending => vtime <= target' \/ ran <= ahead')
  BY <1>1, <1>3, <1>4 DEF CInv, OrderInv
<1>8. OrderInv'
  BY <1>1, <1>2, <1>6, <1>7 DEF CInv, OrderInv, Sorted, InCall
<1> QED BY <1>5, <1>8 DEF CInv

LEMMA FirstStepInv ==
  ASSUME CInv, FirstStep PROVE CInv'
<1>1. /\ pc \in {"loop", "retry"} /\ pc' = "accepted" /\ states' = <<Now>>
      /\ last' = target /\ TIME' = target /\ ~ op_pending /\ ~ firsttime'
      /\ UNCHANGED <<brk, target, q, vtime, last_step, op_pending, out_vals, method,
                      started, post, ran, shown, ahead>>
  BY DEF FirstStep, CInv, OrderInv, bridge, cosim, missed
<1>2. /\ target \in Nat /\ last \in Nat /\ last <= target /\ vtime \in Nat
      /\ LastAt(states) <= target
  BY <1>1, Numbers DEF CInv, TypeInv, OrderInv, Time
<1>3. vtime <= target
  BY <1>1, <1>2 DEF CInv, OrderInv
<1>4. Now \in State /\ Now.at <= target
  BY <1>2, NowTyped DEF CInv, Now, LastAt
<1>5. History(states', last') /\ LastAt(states') <= target
  BY <1>1, <1>2, <1>4, OneState
<1>6. TypeInv'
  BY <1>1, <1>2, <1>5 DEF CInv, TypeInv
<1> QED BY <1>1, <1>3, <1>5, <1>6 DEF CInv, OrderInv, Sorted, InCall

LEMMA StepPendingInv ==
  ASSUME CInv, StepPending PROVE CInv'
<1> DEFINE st == [Now EXCEPT !.at = target, !.out = Shown]
<1>1. /\ pc \in {"loop", "retry"} /\ pc' \in {"first", "run"}
      /\ Called(target) /\ q' = UpTo(q, target)
      /\ states' = Append(states, st)
      /\ UNCHANGED <<brk, last, target, vtime, last_step, method, started, ran, shown,
                      ahead, firsttime>>
      /\ ~ firsttime
  BY DEF StepPending, cosim, missed
<1>2. target \in Time /\ target \in Nat /\ last \in Nat /\ last <= target
      /\ vtime \in Nat
  BY Numbers DEF Time, CInv, TypeInv
<1>3. vtime <= target \/ Behind
  BY <1>1, <1>2 DEF CInv, OrderInv, Behind
<1>4. st \in State /\ st.at = target
  <2> DEFINE n == Now
  <2>1. n \in State /\ Shown \in [Outs -> BOOLEAN]
    BY NowTyped DEF CInv
  <2> HIDE DEF n
  <2>2. /\ [n EXCEPT !.at = target, !.out = Shown] \in State
        /\ [n EXCEPT !.at = target, !.out = Shown].at = target
    BY <1>2, <2>1 DEF State
  <2> QED BY <2>2 DEF n
<1> HIDE DEF st
<1>5. /\ q' \in Seq(Entry) /\ Sorted(q') /\ Len(q') <= QLength
      /\ \A k \in 1 .. Len(q') : q'[k].when <= target
      /\ Behind => Behind'
  <2>1. q \in Seq(Entry) /\ Sorted(q) /\ Len(q) \in Nat /\ Len(q) <= QLength
    BY LenProperties DEF CInv, TypeInv, OrderInv
  <2>2. /\ q' \in Seq(Entry) /\ Sorted(q') /\ Len(q') <= Len(q)
        /\ \A k \in 1 .. Len(q') : q'[k].when <= target
    BY <1>1, <1>2, <2>1, UpToQueue
  <2>3. Len(q') \in Nat
    BY <2>2, LenProperties
  <2>4. ASSUME q = <<>> PROVE q' = <<>>
    BY <2>1, <2>2, <2>3, <2>4, EmptySeq
  <2> QED BY <1>1, <2>1, <2>2, <2>3, <2>4, Numbers DEF Behind
<1>6. /\ TIME' = target /\ op_pending' = FALSE /\ out_vals' \in [Outs -> BOOLEAN]
      /\ post' \in [Outs -> NoPost .. Delay + MaxTime]
  BY <1>1, <1>2, CalledTyped DEF CInv
<1>7. History(states', last') /\ LastAt(states') = target
  <2>1. LastAt(states) <= st.at
    BY <1>1, <1>4 DEF CInv, OrderInv
  <2> QED BY <1>1, <1>2, <1>4, <2>1, LaterHistory DEF CInv, TypeInv
<1>8. TypeInv'
  BY <1>1, <1>2, <1>5, <1>6, <1>7 DEF CInv, TypeInv, InCall
<1> QED BY <1>1, <1>2, <1>3, <1>5, <1>6, <1>7, <1>8 DEF CInv, OrderInv, InCall

\* The numbers of a call.
LEMMA CallNumbers ==
  ASSUME CInv, pc \in InCall
  PROVE  /\ vtime \in Nat /\ TIME \in Nat /\ target \in Nat /\ ran \in Nat
         /\ last \in Nat /\ started \in Nat /\ brk \in Nat /\ ahead \in Nat
         /\ vtime \in Time /\ TIME \in Time
         /\ TIME = target /\ last <= TIME /\ ~ firsttime
         /\ vtime <= TIME \/ (pc \in {"first", "run", "last"} /\ Behind)
         /\ q \in Seq(Entry) /\ Sorted(q) /\ Len(q) <= QLength
         /\ \A k \in 1 .. Len(q) : q[k].when <= TIME /\ q[k].when \in Nat
<1>1. \A k \in 1 .. Len(q) : q[k] \in Entry
  BY ElementOfSeq DEF CInv, TypeInv
<1>2. \A k \in 1 .. Len(q) : q[k].when \in Nat
  BY <1>1 DEF Entry
<1> QED BY <1>2, Numbers DEF CInv, TypeInv, OrderInv, Time

LEMMA FirstInv ==
  ASSUME CInv, First PROVE CInv'
<1>1. pc \in InCall /\ advance(vtime, "run") /\ started' = started
  BY DEF First, InCall
<1>2. "run" \in InCall \ {"cut"}
  BY DEF InCall
<1>3. /\ vtime \in Time /\ vtime \in Nat /\ TIME \in Nat /\ ran \in Nat /\ ahead \in Nat
      /\ vtime <= TIME \/ Behind
  BY <1>1, CallNumbers
<1>4. /\ TypeInv' /\ Sorted(q') /\ ahead' = ahead /\ ~ firsttime'
      /\ ran' <= vtime' \/ ran' <= ahead'
      /\ vtime' \in Nat /\ ran' \in Nat /\ vtime' <= ran'
      /\ ran' = vtime' \/ ran' = ran
      /\ TIME' = target' /\ TIME' = TIME /\ LastAt(states') = TIME'
      /\ vtime' <= vtime /\ \A k \in 1 .. Len(q') : q'[k].when <= TIME'
      /\ pc' \in {"run", "cut"}
      /\ pc' = "cut" => /\ vtime' <= brk' /\ last' < brk' /\ op_pending'
                        /\ q' = <<>> /\ vtime' <= TIME'
      /\ pc' = "run" => q' = q
  BY <1>1, <1>2, <1>3, AfterAdvance
<1>5. ASSUME pc' = "run" PROVE vtime' <= TIME' \/ Behind'
  BY <1>3, <1>4, <1>5 DEF Behind
<1>6. vtime' <= TIME' \/ (pc' \in {"first", "run", "last"} /\ Behind')
  BY <1>4, <1>5
<1> QED BY <1>4, <1>6 DEF CInv, OrderInv

LEMMA RunInv ==
  ASSUME CInv, Run PROVE CInv'
<1>1. /\ pc = "run" /\ pc' = (IF q = <<>> THEN "last" ELSE "scan") /\ started' = vtime
      /\ UNCHANGED <<brk, last, target, TIME, states, q, vtime, last_step, op_pending,
                      out_vals, method, post, ran, shown, ahead, firsttime>>
  BY DEF Run, step, cosim, missed
<1>2. pc \in InCall /\ pc' \in InCall
  BY <1>1 DEF InCall
<1>3. /\ vtime \in Nat /\ \A k \in 1 .. Len(q) : q[k].when \in Nat
  BY <1>2, CallNumbers
<1>4. TypeInv'
  BY <1>1, <1>2, <1>3 DEF CInv, TypeInv, History
<1>5. \A k \in 1 .. Len(q) : q[k].when <= vtime \/ vtime <= q[k].when
  BY <1>3
<1>6. vtime <= TIME \/ (pc' = "last" /\ Behind)
  BY <1>1, <1>2, CallNumbers DEF Behind
<1> QED BY <1>1, <1>2, <1>4, <1>5, <1>6 DEF CInv, OrderInv, Sorted, Behind

LEMMA ScanInv ==
  ASSUME CInv, Scan PROVE CInv'
<1>1. /\ pc = "scan" /\ pc \in InCall
      /\ UNCHANGED <<brk, last, target, TIME, states, last_step, op_pending,
                      out_vals, method, started, post, ran, shown, ahead, firsttime>>
  BY DEF Scan, step, cosim, missed, InCall
<1>2. /\ vtime \in Nat /\ vtime <= TIME /\ TIME = target
      /\ q \in Seq(Entry) /\ Sorted(q) /\ Len(q) <= QLength /\ started \in Nat
      /\ \A k \in 1 .. Len(q) : q[k].when <= TIME /\ q[k].when \in Nat
      /\ ran \in Nat /\ TIME \in Nat /\ ahead \in Nat
      /\ ran <= vtime \/ ran <= ahead
  BY <1>1, CallNumbers DEF CInv, OrderInv
<1>3. \A k \in 1 .. Len(q) : q[k].when <= started \/ vtime <= q[k].when
  BY <1>1 DEF CInv, OrderInv
<1>4. CASE q = <<>>
  <2>1. pc' \in {"last", "return"} /\ q' = q /\ vtime' = vtime
    BY <1>4 DEF Scan
  <2>2. TypeInv'
    BY <1>1, <2>1 DEF CInv, TypeInv, History, InCall
  <2> QED BY <1>1, <1>2, <2>1, <2>2 DEF CInv, OrderInv, Sorted, InCall
<1>5. ASSUME q # <<>> PROVE Len(q) \in Nat /\ Len(q) >= 1
  BY <1>2, <1>5, EmptySeq, LenProperties
<1>6. CASE q # <<>> /\ q[1].when <= started
  <2>1. q' = Tail(q) /\ pc' = pc /\ vtime' = vtime
    BY <1>6 DEF Scan
  <2>2. /\ Tail(q) \in Seq(Entry) /\ Len(Tail(q)) = Len(q) - 1
        /\ \A k \in 1 .. Len(q) - 1 : Tail(q)[k] = q[k + 1]
    BY <1>2, <1>6, HeadTailProperties
  <2>3. \A k \in 1 .. Len(q') : k + 1 \in 1 .. Len(q) /\ q'[k] = q[k + 1]
    BY <1>5, <1>6, <2>1, <2>2
  <2>4. /\ Sorted(q')
        /\ \A k \in 1 .. Len(q') : q'[k].when <= TIME
        /\ \A k \in 1 .. Len(q') : q'[k].when <= started \/ vtime <= q'[k].when
    BY <1>2, <1>3, <1>5, <1>6, <2>1, <2>2, <2>3 DEF Sorted
  <2>5. q' \in Seq(Entry) /\ Len(q') <= QLength
    BY <1>2, <1>5, <1>6, <2>1, <2>2, Numbers
  <2>6. TypeInv'
    BY <1>1, <2>1, <2>5 DEF CInv, TypeInv, History
  <2> QED BY <1>1, <1>2, <2>1, <2>4, <2>6 DEF CInv, OrderInv, InCall
<1>7. CASE q # <<>> /\ ~ (q[1].when <= started)
  <2>1. vtime' = q[1].when /\ q' = q /\ pc' \in {"give", "before"}
        /\ (pc' = "give" => method = "after")
    BY <1>7 DEF Scan
  <2>2. q[1].when \in Nat /\ vtime <= q[1].when /\ q[1].when <= TIME
    BY <1>2, <1>3, <1>5, <1>7
  <2>3. vtime' \in Time
    BY <1>2, <2>1, <2>2, Numbers DEF CInv, TypeInv, Time
  <2>4. TypeInv'
    BY <1>1, <2>1, <2>3 DEF CInv, TypeInv, History, InCall
  <2>5. ran <= q[1].when \/ ran <= ahead
    BY <1>2, <2>2
  <2> QED BY <1>1, <1>2, <1>7, <2>1, <2>2, <2>4, <2>5 DEF CInv, OrderInv, Sorted, InCall
<1> QED BY <1>4, <1>6, <1>7

\* The next input is not behind the bridge.
LEMMA ScanForward ==
  ASSUME CInv, Scan PROVE vtime' \in Nat /\ vtime <= vtime'
<1>1. /\ pc = "scan" /\ pc \in InCall
      /\ vtime' = vtime \/ (q # <<>> /\ ~ (q[1].when <= started) /\ vtime' = q[1].when)
  BY DEF Scan, InCall
<1>2. /\ vtime \in Nat /\ q \in Seq(Entry) /\ \A k \in 1 .. Len(q) : q[k].when \in Nat
      /\ \A k \in 1 .. Len(q) : q[k].when <= started \/ vtime <= q[k].when
  BY <1>1, CallNumbers DEF CInv, OrderInv
<1>3. ASSUME q # <<>> PROVE 1 \in 1 .. Len(q)
  BY <1>2, <1>3, EmptySeq, LenProperties
<1> QED BY <1>1, <1>2, <1>3

LEMMA AheadInv ==
  ASSUME CInv, Ahead PROVE CInv'
<1>1. pc = "before" /\ pc \in InCall /\ advance(vtime, "give") /\ started' = started
  BY DEF Ahead, InCall
<1>2. "give" \in InCall \ {"cut"}
  BY DEF InCall
<1>3. vtime \in Time /\ vtime \in Nat /\ TIME \in Nat /\ vtime <= TIME
  BY <1>1, CallNumbers
<1>4. /\ TypeInv' /\ Sorted(q') /\ ahead' = ahead /\ ~ firsttime'
      /\ ran' <= vtime' \/ ran' <= ahead'
      /\ vtime' \in Nat /\ ran' \in Nat /\ vtime' <= ran'
      /\ TIME' = target' /\ TIME' = TIME /\ LastAt(states') = TIME'
      /\ vtime' <= vtime /\ \A k \in 1 .. Len(q') : q'[k].when <= TIME'
      /\ pc' \in {"give", "cut"}
      /\ pc' = "cut" => /\ vtime' <= brk' /\ last' < brk' /\ op_pending'
                        /\ q' = <<>> /\ vtime' <= TIME'
      /\ pc' # "cut" => q' = q /\ (vtime' = vtime \/ TIME - vtime' <= Delay)
  BY <1>1, <1>2, <1>3, AfterAdvance
<1>5. q # <<>> /\ vtime = q[1].when
  BY <1>1 DEF CInv, OrderInv
<1>6. ASSUME pc' = "give"
      PROVE  q' # <<>> /\ vtime' <= q'[1].when /\ q'[1].when - ran' <= Delay
  <2>1. q' = q /\ (vtime' = vtime \/ TIME - vtime' <= Delay)
    BY <1>4, <1>6
  <2>2. vtime' <= vtime /\ vtime - ran' <= Delay
    <3>1. /\ vtime' \in Nat /\ vtime \in Nat /\ TIME \in Nat /\ ran' \in Nat /\ Delay \in Nat
          /\ vtime' <= vtime /\ vtime <= TIME /\ vtime' <= ran'
      BY <1>3, <1>4, Numbers
    <3> QED BY <2>1, <3>1, Between
  <2>3. q' # <<>> /\ q'[1].when = vtime
    BY <1>5, <2>1, Zenon
  <2> QED BY <2>2, <2>3
<1>7. vtime' <= TIME'
  BY <1>3, <1>4
<1>8. OrderInv'
  <2>1. pc' \notin {"accepted", "loop", "retry", "scan", "before", "after"}
    BY <1>4
  <2> QED BY <1>4, <1>6, <1>7, <2>1 DEF OrderInv
<1> QED BY <1>4, <1>8 DEF CInv

LEMMA GiveInv ==
  ASSUME CInv, Give PROVE CInv'
<1> DEFINE n == Len(UpTo(q, q[1].when))
<1>1. /\ pc = "give" /\ pc \in InCall /\ pc' \in {"scan", "after"}
      /\ q' = SubSeq(q, n + 1, Len(q))
      /\ UNCHANGED <<brk, last, target, TIME, states, vtime, last_step, op_pending,
                      out_vals, method, started, post, ran, shown, ahead, firsttime>>
  BY DEF Give, step, InCall
<1>2. /\ vtime \in Nat /\ vtime <= TIME /\ TIME = target
      /\ q \in Seq(Entry) /\ Sorted(q) /\ Len(q) <= QLength /\ Len(q) \in Nat
      /\ \A k \in 1 .. Len(q) : q[k].when <= TIME /\ q[k].when \in Nat
  BY <1>1, CallNumbers, LenProperties
<1>3. q # <<>> /\ vtime <= q[1].when /\ Len(q) >= 1
  BY <1>1, <1>2, EmptySeq DEF CInv, OrderInv
<1>4. q[1].when \in Nat
  BY <1>2, <1>3
<1>5. n \in 0 .. Len(q)
  BY <1>2, <1>4, UpToQueue, LenProperties
<1> HIDE DEF n
<1>6. /\ q' \in Seq(Entry) /\ Sorted(q') /\ Len(q') = Len(q) - n
      /\ \A k \in 1 .. Len(q') : q'[k] = q[n + k]
  BY <1>1, <1>2, <1>5, RestQueue
<1>7. \A k \in 1 .. Len(q') : q'[k].when <= TIME /\ vtime <= q'[k].when
  <2> SUFFICES ASSUME NEW k \in 1 .. Len(q')
               PROVE  q'[k].when <= TIME /\ vtime <= q'[k].when
    OBVIOUS
  <2>1. n + k \in 1 .. Len(q) /\ 1 \in 1 .. Len(q) /\ q'[k] = q[n + k] /\ 1 <= n + k
    BY <1>2, <1>3, <1>5, <1>6
  <2>2. q[1].when <= q[n + k].when /\ q[n + k].when <= TIME /\ q[n + k].when \in Nat
    BY <1>2, <2>1 DEF Sorted
  <2> QED BY <1>2, <1>3, <1>4, <2>1, <2>2
<1>8. Len(q') <= QLength
  BY <1>2, <1>5, <1>6, Numbers
<1>9. TypeInv'
  BY <1>1, <1>6, <1>8 DEF CInv, TypeInv, History, InCall
<1> QED BY <1>1, <1>2, <1>6, <1>7, <1>9 DEF CInv, OrderInv

LEMMA AfterInv ==
  ASSUME CInv, After PROVE CInv'
<1>1. pc = "after" /\ pc \in InCall /\ advance(vtime, "scan") /\ started' = started
  BY DEF After, InCall
<1>2. "scan" \in InCall \ {"cut"}
  BY DEF InCall
<1>3. vtime \in Time /\ vtime \in Nat /\ TIME \in Nat /\ vtime <= TIME
  BY <1>1, CallNumbers
<1>4. /\ TypeInv' /\ Sorted(q') /\ ahead' = ahead /\ ~ firsttime'
      /\ ran' <= vtime' \/ ran' <= ahead'
      /\ vtime' \in Nat /\ ran' \in Nat /\ vtime' <= ran'
      /\ TIME' = target' /\ TIME' = TIME /\ LastAt(states') = TIME'
      /\ vtime' <= vtime /\ \A k \in 1 .. Len(q') : q'[k].when <= TIME'
      /\ pc' \in {"scan", "cut"}
      /\ pc' = "cut" => /\ vtime' <= brk' /\ last' < brk' /\ op_pending'
                        /\ q' = <<>> /\ vtime' <= TIME'
      /\ pc' # "cut" => q' = q
  BY <1>1, <1>2, <1>3, AfterAdvance
<1>5. \A k \in 1 .. Len(q) : vtime <= q[k].when /\ q[k].when \in Nat
  BY <1>1, CallNumbers DEF CInv, OrderInv
<1>6. pc' = "scan" => \A k \in 1 .. Len(q') : vtime' <= q'[k].when
  BY <1>3, <1>4, <1>5
<1>7. vtime' <= TIME'
  BY <1>3, <1>4
<1> QED BY <1>4, <1>6, <1>7 DEF CInv, OrderInv

LEMMA LastInv ==
  ASSUME CInv, Last PROVE CInv'
<1>1. pc \in InCall /\ advance(TIME, "return") /\ started' = started
  BY DEF Last, InCall
<1>2. "return" \in InCall \ {"cut"}
  BY DEF InCall
<1>3. TIME \in Time /\ TIME \in Nat /\ (vtime <= TIME \/ ran <= ahead)
  BY <1>1, CallNumbers DEF Behind
<1>4. /\ TypeInv' /\ Sorted(q') /\ ahead' = ahead /\ ~ firsttime'
      /\ ran' <= vtime' \/ ran' <= ahead'
      /\ vtime' \in Nat /\ ran' \in Nat /\ vtime' <= ran'
      /\ TIME' = target' /\ TIME' = TIME /\ LastAt(states') = TIME'
      /\ vtime' <= TIME /\ \A k \in 1 .. Len(q') : q'[k].when <= TIME'
      /\ pc' \in {"return", "cut"}
      /\ pc' = "cut" => /\ vtime' <= brk' /\ last' < brk' /\ op_pending' /\ q' = <<>>
  BY <1>1, <1>2, <1>3, AfterAdvance
<1>5. vtime' <= TIME'
  BY <1>4
<1> QED BY <1>4, <1>5 DEF CInv, OrderInv

LEMMA ReturnInv ==
  ASSUME CInv, Return PROVE CInv'
<1> DEFINE st == [Now EXCEPT !.sent = Sent(Now.out, post)]
<1>1. /\ pc \in InCall /\ pc' = "accepted" /\ states' = <<st>> /\ last' = target
      /\ brk' = Infinity /\ started' = 0 /\ post' = None
      /\ UNCHANGED <<target, TIME, q, vtime, op_pending, out_vals, method, ran, shown,
                      ahead, firsttime>>
      /\ pc \in {"return", "cut"}
  BY DEF Return, Accepting, cosim, InCall
<1>2. /\ vtime \in Nat /\ target \in Nat /\ vtime <= target /\ ~ firsttime
      /\ Sorted(q)
  BY <1>1, CallNumbers
<1>3. st \in State
  <2> DEFINE n == Now
             v == Sent(Now.out, post)
  <2>1. n \in State /\ v \in [Outs -> BOOLEAN]
    BY NowTyped DEF CInv, Sent
  <2> HIDE DEF n, v
  <2>2. [n EXCEPT !.sent = v] \in State
    BY <2>1 DEF State
  <2> QED BY <2>2 DEF n, v
<1>4. st.at <= target
  <2>1. st.at = Now.at
    BY <1>3 DEF State
  <2>2. Now.at <= target
    BY <1>1, <1>2 DEF CInv, OrderInv, Now, LastAt
  <2> QED BY <2>1, <2>2
<1> HIDE DEF st
<1>5. History(states', last') /\ LastAt(states') <= target
  BY <1>1, <1>2, <1>3, <1>4, OneState
<1>6. post' \in [Outs -> NoPost .. Delay + MaxTime]
  BY <1>1, Numbers DEF None, NoPost
<1>7. TypeInv'
  BY <1>1, <1>2, <1>5, <1>6, Numbers DEF CInv, TypeInv, InCall
<1> QED BY <1>1, <1>2, <1>5, <1>7 DEF CInv, OrderInv, InCall

LEMMA PastBreakpointInv ==
  ASSUME CInv, PastBreakpoint PROVE CInv'
<1>1. /\ pc = "cut" /\ pc \in InCall /\ pc' = "retry" /\ brk < TIME
      /\ Backup(brk) /\ brk' = Infinity /\ started' = 0
      /\ UNCHANGED <<last, TIME, q, vtime, last_step, op_pending, out_vals,
                      method, post, ran, shown, ahead, firsttime>>
  BY DEF PastBreakpoint, cosim, missed, InCall
<1>2. /\ vtime <= brk /\ last < brk /\ op_pending /\ q = <<>> /\ vtime <= ran /\ ~ firsttime
  BY <1>1 DEF CInv, OrderInv
<1>3. brk \in Nat /\ last \in Nat /\ TIME \in Time
  BY DEF CInv, TypeInv
<1>4. target' = brk /\ History(states', last) /\ LastAt(states') <= brk
  BY <1>1, <1>2, <1>3, BackupHistory DEF CInv, TypeInv
<1>5. target' \in Time /\ last <= target'
  BY <1>1, <1>2, <1>3, <1>4, Numbers DEF Time
<1>6. TypeInv'
  BY <1>1, <1>4, <1>5, Numbers DEF CInv, TypeInv
<1> QED BY <1>1, <1>2, <1>4, <1>6 DEF CInv, OrderInv, Sorted, InCall

-----------------------------------------------------------------------------
(* The theorems.                                                            *)

LEMMA NextInv ==
  ASSUME CInv, [Next]_vars PROVE CInv'
<1>1. CASE \E t \in Time : StartStep(t) \/ \E i \in Ins : Event(t, i)
  BY <1>1, StartStepInv, EventInv
<1>2. CASE Solver
  BY <1>2, FirstStepInv, StepPendingInv, RejectInv DEF Solver
<1>3. CASE Cosim
  BY <1>3, FirstInv, RunInv, ScanInv, AheadInv, GiveInv, AfterInv, LastInv,
     ReturnInv, PastBreakpointInv DEF Cosim
<1>4. CASE UNCHANGED vars
  BY <1>4 DEF vars, step, bridge, cosim, missed, CInv, TypeInv, OrderInv, History, LastAt,
     Sorted, Behind
<1> QED BY <1>1, <1>2, <1>3, <1>4 DEF Next

\* The inductive invariant: the queue is in order, the bridge is not ahead of the
\* step, nor the co-simulator of the bridge, but for what it had run when the solver
\* went back.
THEOREM CInvHolds == Spec => []CInv
<1>1. CInv /\ [Next]_vars => CInv'
  BY NextInv
<1> QED BY <1>1, InitInv, PTL DEF Spec

\* The variables have the types of the code's structures, and times stay within
\* the run (TypeOK), whatever the delay and the size of the queue are.
THEOREM CosimTypes == Spec => []TypeOK
<1>1. CInv => TypeOK
  <2> SUFFICES ASSUME CInv PROVE TypeOK
    OBVIOUS
  <2>1. /\ last \in Nat /\ target \in Time /\ last <= target /\ TIME \in Time
        /\ vtime \in Time /\ Len(q) <= QLength
        /\ states # <<>> /\ post \in [Outs -> NoPost .. Delay + MaxTime]
    BY EmptySeq DEF CInv, TypeInv, History
  <2>2. last \in Time
    BY <2>1, Numbers DEF Time
  <2> QED BY <2>1, <2>2 DEF TypeOK
<1> QED BY <1>1, CInvHolds, PTL

\* advance() is not called with a time before the one the co-simulator has reached,
\* and no step ends before it (NeverBack), whatever the bridge cuts and the solver
\* rejects; unless it rejects a step that the bridge has cut for output, to before
\* that output, and then the co-simulator is no further ahead than it was then.
THEOREM CosimNeverBack == Spec => []NeverBack
<1>1. CInv => NeverBack
  <2> SUFFICES ASSUME CInv PROVE NeverBack
    OBVIOUS
  <2>1. /\ ran \in Nat /\ vtime \in Nat /\ last \in Nat /\ TIME \in Nat /\ ahead \in Nat
        /\ ran <= vtime \/ ran <= ahead
    BY Numbers DEF CInv, TypeInv, OrderInv, Time
  <2>2. /\ pc = "last" => vtime <= TIME \/ ran <= ahead
        /\ pc = "accepted" => vtime <= last
    BY DEF CInv, OrderInv, InCall, Behind
  <2> QED BY <2>1, <2>2 DEF NeverBack, Max2
<1> QED BY <1>1, CInvHolds, PTL

\* An input is given to the co-simulator when that has reached the time of the
\* input but for the delay of its output (InputOnTime), for every delay and
\* every choice of the breakpoints.
THEOREM CosimInputOnTime == Spec => []InputOnTime
<1>1. CInv => InputOnTime
  BY DEF CInv, OrderInv, InputOnTime
<1> QED BY <1>1, CInvHolds, PTL

-----------------------------------------------------------------------------
(* What the co-simulator shows is sent, or posted, or pending.              *)

\* What the co-simulator shows of output o has been sent in every state, or
\* posted in this call, or is pending.
OutputSent(o) ==
  /\ \A k \in 1 .. Len(states) : (k < Len(states) \/ pc \notin InCall) =>
       states[k].sent[o] = states[k].out[o]
  /\ pc \in InCall /\ post[o] = NoPost => Now.sent[o] = Now.out[o]
  /\ Shown[o] = shown[o]

SentInv ==
  /\ pc \in InCall => (op_pending <=> pc = "cut")
  /\ pc = "cut" => \A o \in Outs : out_vals[o] \in {Now.out[o], shown[o]}
  /\ \A o \in Outs \ (wiped \cup taken) : OutputSent(o)

LEMMA InitSent == Init => SentInv
<1> SUFFICES ASSUME Init PROVE SentInv
  OBVIOUS
<1>1. /\ pc = "accepted" /\ ~ op_pending /\ shown = Low
      /\ Len(states) = 1 /\ states[1].sent = Low /\ states[1].out = Low
      /\ \A k \in 1 .. Len(states) : k = 1
  BY DEF Init
<1>2. Now.out = Low /\ Now.sent = Low
  BY <1>1 DEF Now
<1> QED BY <1>1, <1>2 DEF SentInv, OutputSent, Shown, InCall

\* Nothing changes for the outputs outside a call.
LEMMA StartStepSent ==
  ASSUME CInv, SentInv, NEW t \in Time, StartStep(t) PROVE SentInv'
<1>1. /\ pc = "accepted" /\ pc' = "loop"
      /\ UNCHANGED <<states, op_pending, out_vals, post, shown, wiped, taken>>
  BY DEF StartStep, step, bridge, cosim, missed
<1>2. ASSUME NEW o \in Outs, OutputSent(o) PROVE OutputSent(o)'
  BY <1>1, <1>2 DEF OutputSent, InCall, Now, Shown
<1> QED BY <1>1, <1>2 DEF SentInv, InCall

LEMMA FirstStepSent ==
  ASSUME CInv, SentInv, FirstStep PROVE SentInv'
<1>1. /\ pc \in {"loop", "retry"} /\ pc' = "accepted" /\ states' = <<Now>>
      /\ UNCHANGED <<op_pending, out_vals, post, shown, wiped, taken>>
  BY DEF FirstStep, bridge, cosim, missed
<1>2. Len(states) \in Nat /\ Len(states) >= 1
  BY LenProperties DEF CInv, TypeInv, History
<1>3. Len(states') = 1 /\ states'[1] = Now /\ Now' = Now
  BY <1>1 DEF Now
<1>4. ASSUME NEW o \in Outs, OutputSent(o) PROVE OutputSent(o)'
  <2>1. Now.sent[o] = Now.out[o] /\ Shown[o] = shown[o]
    BY <1>1, <1>2, <1>4 DEF OutputSent, InCall, Now
  <2>2. \A k \in 1 .. Len(states') : states'[k] = Now
    BY <1>3
  <2> QED BY <1>1, <1>3, <2>1, <2>2 DEF OutputSent, InCall, Shown
<1> QED BY <1>1, <1>4 DEF SentInv, InCall

\* A change is marked if the value shown is not the one sent.
LEMMA PostIfNew ==
  ASSUME NEW t \in Time, Called(t), NEW o \in Outs, post'[o] = NoPost
  PROVE  Shown[o] = Now.out[o]
<1>1. CASE op_pending
  <2>1. post' = Outputs(out_vals, t, vtime) /\ Shown = out_vals
    BY <1>1 DEF Called, Shown
  <2>2. ASSUME out_vals[o] # Now.out[o] PROVE FALSE
    <3>1. t \in Int
      BY Numbers DEF Time
    <3> QED BY <2>1, <2>2, <3>1, Numbers DEF Outputs, NoPost
  <2> QED BY <2>1, <2>2
<1> QED BY <1>1 DEF Shown

\* The states and what is added to them, by an event or by STEP_PENDING.
LEMMA EventSent ==
  ASSUME CInv, SentInv, NEW t \in Time, NEW i \in Ins, Event(t, i) PROVE SentInv'
<1> DEFINE st == [at |-> t, in |-> [Now.in EXCEPT ![i] = ~ @],
                  out |-> Shown, sent |-> Sent(Shown, post')]
<1>1. /\ pc = "loop" /\ pc' = "loop" /\ Called(t) /\ states' = Append(states, st)
      /\ st.out = Shown /\ st.sent = Sent(Shown, post')
      /\ UNCHANGED <<shown, wiped, taken>>
  BY DEF Event, cosim, missed
<1> HIDE DEF st
<1>2. Len(states) \in Nat /\ Len(states) >= 1 /\ states \in Seq(State)
  BY LenProperties DEF CInv, TypeInv, History
<1>3. /\ Len(states') = Len(states) + 1 /\ Now' = st
      /\ \A k \in 1 .. Len(states) : states'[k] = states[k]
      /\ states'[Len(states) + 1] = st
  BY <1>1, <1>2 DEF Now
<1>4. ~ op_pending' /\ Shown' = Shown
  BY <1>1, <1>3 DEF Called, Shown
<1>5. ASSUME NEW o \in Outs, OutputSent(o) PROVE OutputSent(o)'
  <2>1. st.sent[o] = st.out[o]
    <3>1. Now.sent[o] = Now.out[o]
      BY <1>1, <1>2, <1>5 DEF OutputSent, InCall, Now
    <3>2. post'[o] = NoPost => Shown[o] = Now.out[o]
      BY <1>1, PostIfNew
    <3> QED BY <1>1, <3>1, <3>2 DEF Sent
  <2>2. \A k \in 1 .. Len(states') : states'[k].sent[o] = states'[k].out[o]
    <3>1. \A k \in 1 .. Len(states) : states[k].sent[o] = states[k].out[o]
      BY <1>1, <1>5 DEF OutputSent, InCall
    <3>2. \A k \in 1 .. Len(states') : k \in 1 .. Len(states) \/ k = Len(states) + 1
      BY <1>2, <1>3
    <3> QED BY <1>3, <2>1, <3>1, <3>2
  <2> QED BY <1>1, <1>4, <1>5, <2>2 DEF OutputSent, InCall
<1> QED BY <1>1, <1>5 DEF SentInv, InCall

LEMMA StepPendingSent ==
  ASSUME CInv, SentInv, StepPending PROVE SentInv'
<1> DEFINE st == [Now EXCEPT !.at = target, !.out = Shown]
<1>1. /\ pc \in {"loop", "retry"} /\ pc' \in {"first", "run"} /\ Called(target)
      /\ states' = Append(states, st)
      /\ UNCHANGED <<shown, wiped, taken>>
  BY DEF StepPending, cosim, missed
<1>0. st.out = Shown /\ st.sent = Now.sent
  <2>1. Now \in State
    BY NowTyped DEF CInv
  <2> QED BY <2>1 DEF State
<1> HIDE DEF st
<1>2. Len(states) \in Nat /\ Len(states) >= 1 /\ states \in Seq(State) /\ target \in Time
  BY LenProperties DEF CInv, TypeInv, History
<1>3. /\ Len(states') = Len(states) + 1 /\ Now' = st
      /\ \A k \in 1 .. Len(states) : states'[k] = states[k]
  BY <1>1, <1>2 DEF Now
<1>4. ~ op_pending' /\ Shown' = Shown
  BY <1>0, <1>1, <1>3 DEF Called, Shown
<1>5. ASSUME NEW o \in Outs, OutputSent(o) PROVE OutputSent(o)'
  <2>1. post'[o] = NoPost => st.sent[o] = st.out[o]
    <3>1. Now.sent[o] = Now.out[o]
      BY <1>1, <1>2, <1>5 DEF OutputSent, InCall, Now
    <3>2. post'[o] = NoPost => Shown[o] = Now.out[o]
      BY <1>1, <1>2, PostIfNew
    <3> QED BY <1>0, <3>1, <3>2
  <2>2. \A k \in 1 .. Len(states') : k < Len(states') =>
          states'[k].sent[o] = states'[k].out[o]
    <3>1. \A k \in 1 .. Len(states) : states[k].sent[o] = states[k].out[o]
      BY <1>1, <1>5 DEF OutputSent, InCall
    <3> QED BY <1>2, <1>3, <3>1
  <2>3. pc' \in InCall
    BY <1>1 DEF InCall
  <2> QED BY <1>1, <1>3, <1>4, <1>5, <2>1, <2>2, <2>3 DEF OutputSent
<1> QED BY <1>1, <1>4, <1>5 DEF SentInv, InCall

\* A rejection takes states back; outputs that this changes are not spoken of.
LEMMA RejectSent ==
  ASSUME CInv, SentInv, NEW delta \in 1 .. MaxStep, Reject(delta)
  PROVE  SentInv'
<1>1. /\ pc \in {"loop", "retry"} /\ pc' = "retry"
      /\ delta \in Nat /\ last \in Nat /\ last + delta \in Nat /\ last <= last + delta
      /\ Backup(last + delta)
      /\ taken' = taken \cup {o \in Outs : Now.out[o] # Now'.out[o]}
      /\ UNCHANGED <<op_pending, out_vals, post, shown, wiped>>
  BY Numbers DEF Reject, CInv, TypeInv, bridge, cosim
<1>2. TakenBack(states, states', last + delta)
  BY <1>1, BackupHistory DEF CInv, TypeInv
<1>3. PICK n \in 1 .. Len(states) :
        Len(states') = n /\ \A k \in 1 .. n : states'[k] = states[k]
  BY <1>2 DEF TakenBack
<1>4. Len(states) \in Nat
  BY LenProperties DEF CInv, TypeInv, History
<1>5. ASSUME NEW o \in Outs \ (wiped' \cup taken') PROVE OutputSent(o)'
  <2>1. OutputSent(o) /\ Now.out[o] = Now'.out[o]
    BY <1>1, <1>5 DEF SentInv
  <2>2. \A k \in 1 .. Len(states') : states'[k].sent[o] = states'[k].out[o]
    BY <1>1, <1>3, <1>4, <2>1 DEF OutputSent, InCall
  <2>3. Shown'[o] = shown'[o]
    BY <1>1, <2>1 DEF OutputSent, Shown
  <2> QED BY <1>1, <2>2, <2>3 DEF OutputSent, InCall
<1> QED BY <1>1, <1>5 DEF SentInv, InCall

LEMMA PastBreakpointSent ==
  ASSUME CInv, SentInv, PastBreakpoint PROVE SentInv'
<1>1. /\ pc = "cut" /\ pc \in InCall /\ pc' = "retry" /\ brk < TIME
      /\ Backup(brk) /\ op_pending
      /\ UNCHANGED <<op_pending, out_vals, post, shown, wiped, taken>>
  BY DEF PastBreakpoint, SentInv, cosim, missed, InCall
<1>2. last < brk /\ brk \in Nat /\ last \in Nat /\ LastAt(states) = TIME /\ TIME \in Nat
  BY <1>1, Numbers DEF CInv, TypeInv, OrderInv, Time
<1>3. TakenBack(states, states', brk)
  BY <1>1, <1>2, BackupHistory DEF CInv, TypeInv
<1>4. PICK n \in 1 .. Len(states) :
        Len(states') = n /\ \A k \in 1 .. n : states'[k] = states[k] /\ states[k].at <= brk
  BY <1>3 DEF TakenBack
<1>5. Len(states) \in Nat /\ n < Len(states)
  <2>1. Len(states) \in Nat
    BY LenProperties DEF CInv, TypeInv, History
  <2>2. n # Len(states)
    BY <1>1, <1>2, <1>4, <2>1 DEF LastAt
  <2> QED BY <2>1, <2>2
<1>6. ASSUME NEW o \in Outs, OutputSent(o) PROVE OutputSent(o)'
  <2>1. \A k \in 1 .. Len(states') : states'[k].sent[o] = states'[k].out[o]
    BY <1>4, <1>5, <1>6 DEF OutputSent
  <2>2. Shown'[o] = shown'[o]
    BY <1>1, <1>6 DEF OutputSent, Shown
  <2> QED BY <1>1, <2>1, <2>2 DEF OutputSent, InCall
<1> QED BY <1>1, <1>6 DEF SentInv, InCall

\* advance: what the co-simulator now shows goes out at once, or is pending; an
\* output is wiped out if it was marked and is not any more.
LEMMA AdvanceSent ==
  ASSUME CInv, SentInv, pc \in InCall \ {"cut"}, NEW goal \in Time,
         NEW next \in InCall \ {"cut"}, advance(goal, next)
  PROVE  SentInv'
<1>1. /\ ~ op_pending /\ Len(states) \in Nat /\ Len(states) >= 1
      /\ taken' = taken
  BY LenProperties DEF SentInv, CInv, TypeInv, History, advance
<1>2. CASE /\ Runs(goal)
           /\ pc' = next
           /\ UNCHANGED <<brk, states, q, op_pending, out_vals, post, lost, wiped>>
  <2>1. /\ pc' \in InCall /\ pc' # "cut" /\ ~ op_pending'
        /\ UNCHANGED <<states, op_pending, out_vals, post, shown, wiped, taken>>
    BY <1>1, <1>2 DEF Runs
  <2>2. ASSUME NEW o \in Outs, OutputSent(o) PROVE OutputSent(o)'
    BY <2>1, <2>2 DEF OutputSent, Now, Shown
  <2> QED BY <2>1, <2>2 DEF SentInv
<1>3. ASSUME NEW u \in {goal} \cup ran .. goal, NEW new \in SUBSET Outs, Stops(goal, u, new),
             Direct(Accepted(new), next)
      PROVE  SentInv'
  <2> DEFINE v == Accepted(new)
  <2>1. /\ pc' = next /\ pc' \in InCall \ {"cut"} /\ ~ op_pending'
        /\ states' = [states EXCEPT ![Len(states)].out = v]
        /\ post' = Outputs(v, TIME, vtime')
        /\ wiped' = wiped \cup {o \in Outs : post[o] # NoPost /\ post'[o] = NoPost}
    BY <1>1, <1>3 DEF Direct
  <2>2. shown' \in [Outs -> BOOLEAN] /\ v \in [Outs -> BOOLEAN]
    <3>1. shown' \in [Outs -> BOOLEAN]
      BY <1>3 DEF Stops, CInv, TypeInv
    <3> QED BY <3>1, NowTyped DEF Accepted, CInv
  <2>3. \A o \in Outs : /\ v[o] = IF o \in new THEN shown'[o] ELSE Now.out[o]
                        /\ o \notin new => shown'[o] = shown[o]
    BY <1>3 DEF Accepted, Stops
  <2>4. vtime' \in Int /\ TIME \in Int
    BY <1>3, Numbers DEF Stops, CInv, TypeInv, Time
  <2>5. \A o \in Outs : post'[o] = NoPost => v[o] = Now.out[o]
    BY <2>1, <2>4, Numbers DEF Outputs, NoPost
  <2> HIDE DEF v
  <2>6. /\ Len(states') = Len(states) /\ Now'.out = v /\ Now'.sent = Now.sent
        /\ \A k \in 1 .. Len(states) - 1 : states'[k] = states[k]
    BY <2>1, <2>2, OutHistory DEF CInv, TypeInv
  <2>8. ASSUME NEW o \in Outs \ (wiped' \cup taken') PROVE OutputSent(o)'
    <3>1. OutputSent(o) /\ (post'[o] = NoPost => post[o] = NoPost)
      BY <1>1, <2>1, <2>8 DEF SentInv
    <3>2. \A k \in 1 .. Len(states') : k < Len(states') =>
            states'[k].sent[o] = states'[k].out[o]
      BY <1>1, <2>6, <3>1 DEF OutputSent
    <3>3. post'[o] = NoPost => Now'.sent[o] = Now'.out[o]
      BY <2>5, <2>6, <3>1 DEF OutputSent
    <3>4. Shown'[o] = shown'[o]
      BY <1>1, <2>1, <2>3, <2>6, <3>1 DEF OutputSent, Shown
    <3> QED BY <2>1, <3>2, <3>3, <3>4 DEF OutputSent
  <2> QED BY <2>1, <2>8 DEF SentInv
<1>4. ASSUME NEW u \in {goal} \cup ran .. goal, NEW new \in SUBSET Outs, Stops(goal, u, new),
             Truncate(Accepted(new))
      PROVE  SentInv'
  <2>1. /\ pc' = "cut" /\ op_pending' /\ out_vals' = Accepted(new)
        /\ UNCHANGED <<states, post, wiped, taken>> /\ Now' = Now
    BY <1>1, <1>4 DEF Truncate, Now
  <2>2. \A o \in Outs : /\ out_vals'[o] = IF o \in new THEN shown'[o] ELSE Now.out[o]
                        /\ o \notin new => shown'[o] = shown[o]
    BY <1>4, <2>1 DEF Accepted, Stops
  <2>3. ASSUME NEW o \in Outs, OutputSent(o) PROVE OutputSent(o)'
    <3>1. Shown'[o] = shown'[o]
      BY <1>1, <2>1, <2>2, <2>3 DEF OutputSent, Shown
    <3> QED BY <2>1, <2>3, <3>1 DEF OutputSent, InCall
  <2> QED BY <2>1, <2>2, <2>3 DEF SentInv
<1> QED BY <1>2, <1>3, <1>4 DEF advance

\* The bridge on its own leaves the outputs as they are.
LEMMA BridgeSent ==
  ASSUME CInv, SentInv, Run \/ Scan \/ Give PROVE SentInv'
<1>1. /\ pc \in InCall \ {"cut"} /\ pc' \in InCall \ {"cut"}
      /\ UNCHANGED <<states, op_pending, out_vals, post, shown, wiped, taken>>
  BY DEF Run, Scan, Give, step, cosim, missed, InCall
<1>2. ASSUME NEW o \in Outs, OutputSent(o) PROVE OutputSent(o)'
  BY <1>1, <1>2 DEF OutputSent, Now, Shown
<1> QED BY <1>1, <1>2 DEF SentInv

LEMMA ReturnSent ==
  ASSUME CInv, SentInv, Return PROVE SentInv'
<1> DEFINE st == [Now EXCEPT !.sent = Sent(Now.out, post)]
<1>1. /\ pc \in InCall /\ pc' = "accepted" /\ states' = <<st>>
      /\ wiped' = wiped \ Posted /\ taken' = taken \ Posted
      /\ UNCHANGED <<op_pending, out_vals, shown>>
  BY DEF Return, Accepting, cosim, InCall
<1>2. st.out = Now.out /\ st.sent = Sent(Now.out, post)
  <2>1. Now \in State
    BY NowTyped DEF CInv
  <2> QED BY <2>1 DEF State
<1> HIDE DEF st
<1>3. Len(states') = 1 /\ states'[1] = st /\ Now' = st
  BY <1>1 DEF Now
<1>4. Shown' = Shown
  BY <1>1, <1>2, <1>3 DEF Shown
<1>5. ASSUME NEW o \in Outs \ (wiped' \cup taken') PROVE OutputSent(o)'
  <2>1. o \in Posted \/ OutputSent(o)
    BY <1>1, <1>5 DEF SentInv
  <2>2. st.sent[o] = st.out[o]
    BY <1>1, <1>2, <2>1 DEF Posted, OutputSent, Sent
  <2>3. Shown[o] = shown[o]
    <3>1. CASE OutputSent(o)
      BY <3>1 DEF OutputSent
    <3>2. CASE o \in Posted /\ op_pending
      BY <1>1, <3>2 DEF Posted, Shown, SentInv, InCall
    <3>3. CASE o \in Posted /\ ~ op_pending
      BY <3>3 DEF Posted, Shown
    <3> QED BY <2>1, <3>1, <3>2, <3>3
  <2>4. \A k \in 1 .. Len(states') : states'[k] = st
    BY <1>3
  <2> QED BY <1>1, <1>3, <1>4, <2>2, <2>3, <2>4 DEF OutputSent, InCall
<1> QED BY <1>1, <1>5 DEF SentInv, InCall

LEMMA NextSent ==
  ASSUME CInv, SentInv, [Next]_vars PROVE SentInv'
<1>1. CASE \E t \in Time : StartStep(t) \/ \E i \in Ins : Event(t, i)
  BY <1>1, StartStepSent, EventSent
<1>2. CASE Solver
  BY <1>2, FirstStepSent, StepPendingSent, RejectSent DEF Solver
<1>3. CASE First \/ Ahead \/ After \/ Last
  <2>1. /\ pc \in InCall \ {"cut"}
        /\ \E goal \in {vtime, TIME} : \E next \in InCall \ {"cut"} : advance(goal, next)
    BY <1>3 DEF First, Ahead, After, Last, InCall
  <2>2. vtime \in Time /\ TIME \in Time
    BY DEF CInv, TypeInv
  <2> QED BY <2>1, <2>2, AdvanceSent
<1>4. CASE Cosim /\ ~ (First \/ Ahead \/ After \/ Last)
  BY <1>4, BridgeSent, ReturnSent, PastBreakpointSent DEF Cosim
<1>5. CASE UNCHANGED vars
  <2>1. UNCHANGED <<pc, states, op_pending, out_vals, post, shown, wiped, taken>>
    BY <1>5 DEF vars, step, bridge, cosim, missed
  <2>2. ASSUME NEW o \in Outs, OutputSent(o) PROVE OutputSent(o)'
    BY <2>1, <2>2 DEF OutputSent, Now, Shown
  <2> QED BY <2>1, <2>2 DEF SentInv, Now
<1> QED BY <1>1, <1>2, <1>3, <1>4, <1>5 DEF Next, Cosim

\* When a step has been accepted, all that the co-simulator shows has been sent or
\* is pending (OutputsSent), but for what a second output in a call has wiped out
\* and what a rejection has taken back.
THEOREM CosimOutputsSent == Spec => []OutputsSent
<1>1. CInv /\ SentInv /\ [Next]_vars => SentInv'
  BY NextSent
<1>2. CInv /\ SentInv => OutputsSent
  <2> SUFFICES ASSUME CInv, SentInv, pc = "accepted", NEW o \in Outs \ (wiped \cup taken)
               PROVE  Now.sent[o] = shown[o] \/ (op_pending /\ out_vals[o] = shown[o])
    BY DEF OutputsSent
  <2>1. OutputSent(o) /\ Len(states) \in 1 .. Len(states)
    BY LenProperties DEF SentInv, CInv, TypeInv, History
  <2> QED BY <2>1 DEF OutputSent, InCall, Shown, Now
<1> QED BY <1>1, <1>2, InitSent, CInvHolds, PTL DEF Spec

-----------------------------------------------------------------------------
(* Its output is posted for the delay after it was made.                    *)

\* Output o differs between two of the states.
Changed(o) ==
  \E j, k \in 1 .. Len(states) : states[j].out[o] # states[k].out[o]

\* Pending output may differ from one of them.
MayDiffer(o) == Changed(o) \/ (op_pending /\ out_vals[o] # Now.out[o])

\* What is posted for output o comes the delay after it was made, or at once if
\* that is past; it is past only for output from before the last step's end.
OnTime(o) ==
  post[o] # NoPost => /\ TIME + post[o] >= born[o] + Delay
                      /\ born[o] <= last \/ TIME + post[o] = born[o] + Delay

\* In a call an output that has changed was made before the step, or there is no
\* time left in it for another cut.
OnTimeInv ==
  /\ born \in [Outs -> Nat] /\ \A o \in Outs : born[o] <= ran
  /\ firsttime \/ pc = "accepted" => post = None
  /\ pc \in InCall \ {"cut"} => ~ op_pending
  /\ pc \in {"accepted", "loop", "retry", "cut"} =>
       \A o \in Outs : MayDiffer(o) =>
         born[o] <= vtime /\ (born[o] <= last \/ born[o] = vtime)
  /\ pc \in InCall \ {"cut"} =>
       \A o \in Outs : Changed(o) =>
         \/ born[o] <= vtime /\ born[o] <= last
         \/ TIME - vtime <= Delay /\ TIME - ran <= Delay
  /\ pc = "cut" /\ brk < TIME => vtime <= last \/ brk - vtime <= Delay
  /\ pc = "retry" /\ op_pending => vtime <= last \/ target - vtime <= Delay
  /\ pc = "loop" \/ pc \in InCall \ {"cut"} => \A o \in Outs : OnTime(o)

LEMMA OnTimeNumbers ==
  ASSUME CInv, OnTimeInv
  PROVE  /\ TIME \in Nat /\ target \in Nat /\ vtime \in Nat /\ ran \in Nat /\ last \in Nat
         /\ brk \in Nat /\ last <= target /\ Delay \in Nat
         /\ pc \in InCall => TIME = target
         /\ pc \in {"loop", "accepted"} \/ (pc = "retry" /\ ~ op_pending) => vtime <= last
         /\ pc = "retry" => vtime <= last \/ vtime <= ran
         /\ \A o \in Outs : born[o] \in Nat /\ post[o] \in Int /\ born[o] <= ran
<1>1. /\ TIME \in Nat /\ target \in Nat /\ vtime \in Nat /\ ran \in Nat /\ last \in Nat
      /\ brk \in Nat /\ last <= target
      /\ pc \in InCall => TIME = target
      /\ pc \in {"loop", "accepted"} \/ (pc = "retry" /\ ~ op_pending) => vtime <= last
      /\ pc = "retry" => vtime <= last \/ vtime <= ran
  BY Numbers DEF CInv, TypeInv, OrderInv, Time
<1>2. \A o \in Outs : born[o] \in Nat /\ born[o] <= ran /\ post[o] \in Int
  BY Numbers DEF OnTimeInv, CInv, TypeInv, NoPost
<1> QED BY <1>1, <1>2, Numbers

\* An added state differs from one there was only if it differs from the last.
LEMMA ChangedAdded ==
  ASSUME CInv, NEW e, states' = Append(states, e), NEW o \in Outs, Changed(o)'
  PROVE  Changed(o) \/ e.out[o] # Now.out[o]
<1>1. /\ states \in Seq(State) /\ Len(states) \in Nat /\ Len(states) \in 1 .. Len(states)
  BY LenProperties DEF CInv, TypeInv, History
<1>2. /\ Len(states') = Len(states) + 1
      /\ \A k \in 1 .. Len(states) : states'[k] = states[k]
      /\ states'[Len(states) + 1] = e
  BY <1>1
<1>3. SUFFICES ASSUME e.out[o] = Now.out[o] PROVE Changed(o)
  OBVIOUS
<1>4. PICK j, k \in 1 .. Len(states) + 1 : states'[j].out[o] # states'[k].out[o]
  BY <1>2 DEF Changed
<1>5. \A m \in 1 .. Len(states) + 1 :
        \E n \in 1 .. Len(states) : states'[m].out[o] = states[n].out[o]
  <2> SUFFICES ASSUME NEW m \in 1 .. Len(states) + 1
               PROVE  \E n \in 1 .. Len(states) : states'[m].out[o] = states[n].out[o]
    OBVIOUS
  <2>1. CASE m \in 1 .. Len(states)
    BY <1>2, <2>1
  <2>2. CASE m = Len(states) + 1
    BY <1>1, <1>2, <1>3, <2>2 DEF Now
  <2> QED BY <1>1, <2>1, <2>2
<1> QED BY <1>4, <1>5 DEF Changed

\* The states that are left differ only if those there were do.
LEMMA ChangedBack ==
  ASSUME CInv, NEW t \in Nat, TakenBack(states, states', t), NEW o \in Outs
  PROVE  /\ Changed(o)' => Changed(o)
         /\ Now'.out[o] # Now.out[o] => Changed(o)
<1>1. PICK n \in 1 .. Len(states) :
        Len(states') = n /\ \A k \in 1 .. n : states'[k] = states[k]
  BY DEF TakenBack
<1>2. Len(states) \in Nat /\ n \in Nat /\ n \in 1 .. n /\ Len(states) \in 1 .. Len(states)
      /\ \A k \in 1 .. n : k \in 1 .. Len(states)
  BY LenProperties DEF CInv, TypeInv, History
<1>3. Now' = states[n]
  BY <1>1, <1>2 DEF Now
<1>4. ASSUME Changed(o)' PROVE Changed(o)
  BY <1>1, <1>2, <1>4 DEF Changed
<1>5. ASSUME Now'.out[o] # Now.out[o] PROVE Changed(o)
  BY <1>2, <1>3, <1>5 DEF Changed, Now
<1> QED BY <1>4, <1>5

\* Output made at a time, and posted at another.
LEMMA OutputsAt ==
  ASSUME NEW vals, NEW t \in Nat, NEW from \in Nat, NEW o \in Outs,
         Outputs(vals, t, from)[o] # NoPost
  PROVE  /\ Outputs(vals, t, from)[o] \in Nat
         /\ t + Outputs(vals, t, from)[o] >= from + Delay
         /\ t - from <= Delay => t + Outputs(vals, t, from)[o] = from + Delay
<1>1. Outputs(vals, t, from)[o] = IF Delay - (t - from) <= 0 THEN 0 ELSE Delay - (t - from)
  BY DEF Outputs
<1> QED BY <1>1, Numbers

\* Pending output that goes out in a call at time t.
LEMMA CalledOnTime ==
  ASSUME CInv, OnTimeInv, NEW t \in Time, Called(t), born' = born, last' = last,
         op_pending => \A o \in Outs : MayDiffer(o) =>
           /\ born[o] <= vtime
           /\ born[o] <= last \/ (born[o] = vtime /\ t - vtime <= Delay)
  PROVE  \A o \in Outs : OnTime(o)'
<1> SUFFICES ASSUME NEW o \in Outs, post'[o] # NoPost
             PROVE  /\ TIME' + post'[o] >= born'[o] + Delay
                    /\ born'[o] <= last' \/ TIME' + post'[o] = born'[o] + Delay
  BY DEF OnTime
<1>1. /\ op_pending /\ TIME' = t /\ post'[o] = Outputs(out_vals, t, vtime)[o]
  BY DEF Called, None
<1>2. MayDiffer(o)
  BY <1>1 DEF Outputs, MayDiffer
<1>3. /\ t \in Nat /\ vtime \in Nat /\ born[o] \in Nat /\ born[o] <= vtime
      /\ born[o] <= last \/ (born[o] = vtime /\ t - vtime <= Delay)
  BY <1>1, <1>2, OnTimeNumbers, Numbers DEF Time
<1>4. /\ post'[o] \in Nat /\ t + post'[o] >= vtime + Delay
      /\ t - vtime <= Delay => t + post'[o] = vtime + Delay
  BY <1>1, <1>3, OutputsAt
<1> QED BY <1>1, <1>3, <1>4, Numbers

LEMMA InitOnTime == Init => OnTimeInv
<1> SUFFICES ASSUME Init PROVE OnTimeInv
  OBVIOUS
<1>1. /\ pc = "accepted" /\ ~ op_pending /\ post = None
      /\ ran = 0 /\ born = [o \in Outs |-> 0] /\ vtime = 0 /\ last = 0
  BY DEF Init
<1> QED BY <1>1 DEF OnTimeInv, InCall

LEMMA StartStepOnTime ==
  ASSUME CInv, OnTimeInv, NEW t \in Time, StartStep(t) PROVE OnTimeInv'
<1>1. /\ pc = "accepted" /\ pc' = "loop" /\ post = None
      /\ UNCHANGED <<last, states, op_pending, out_vals, post, born, ran, vtime, firsttime>>
  BY DEF StartStep, OnTimeInv, step, bridge, cosim
<1>2. \A o \in Outs : OnTime(o)' /\ (MayDiffer(o)' => MayDiffer(o))
  BY <1>1 DEF OnTime, None, MayDiffer, Changed, Now
<1> QED BY <1>1, <1>2 DEF OnTimeInv, InCall

LEMMA EventOnTime ==
  ASSUME CInv, OnTimeInv, NEW t \in Time, NEW i \in Ins, Event(t, i) PROVE OnTimeInv'
<1> DEFINE e == [at |-> t, in |-> [Now.in EXCEPT ![i] = ~ @],
                 out |-> Shown, sent |-> Sent(Shown, post')]
<1>1. /\ pc = "loop" /\ pc' = "loop" /\ Called(t)
      /\ states' = Append(states, e) /\ e.out = Shown
      /\ UNCHANGED <<last, born, ran, vtime, firsttime>>
  BY DEF Event, cosim
<1> HIDE DEF e
<1>2. vtime <= last
  BY <1>1, OnTimeNumbers
<1>3. \A o \in Outs : MayDiffer(o) => born[o] <= vtime /\ born[o] <= last
  BY <1>1, <1>2, OnTimeNumbers DEF OnTimeInv
<1>4. \A o \in Outs : OnTime(o)'
  BY <1>1, <1>3, CalledOnTime
<1>5. ~ op_pending' /\ (~ op_pending => post' = None)
  BY <1>1 DEF Called
<1>6. ASSUME NEW o \in Outs, MayDiffer(o)' PROVE MayDiffer(o)
  <2>1. Changed(o)'
    BY <1>5, <1>6 DEF MayDiffer
  <2>2. Changed(o) \/ Shown[o] # Now.out[o]
    BY <1>1, <2>1, ChangedAdded
  <2> QED BY <2>2 DEF MayDiffer, Shown
<1>7. firsttime' => post' = None
  BY <1>1, <1>5 DEF CInv, OrderInv
<1> QED BY <1>1, <1>3, <1>4, <1>5, <1>6, <1>7 DEF OnTimeInv, InCall

\* A step that is tried again up to an earlier time.
LEMMA BackOnTime ==
  ASSUME CInv, OnTimeInv, NEW t \in Nat, last <= t, Backup(t),
         pc \in {"loop", "retry", "cut"}, pc' = "retry",
         UNCHANGED <<last, op_pending, out_vals, post, born, ran, vtime, firsttime>>,
         op_pending => vtime <= last \/ t - vtime <= Delay
  PROVE  OnTimeInv'
<1>1. target' = t /\ TakenBack(states, states', t)
  BY BackupHistory DEF CInv, TypeInv
<1>2. ASSUME NEW o \in Outs, MayDiffer(o)' PROVE MayDiffer(o)
  <2>1. /\ Changed(o)' => Changed(o)
        /\ Now'.out[o] # Now.out[o] => Changed(o)
    BY <1>1, ChangedBack
  <2> QED BY <1>2, <2>1 DEF MayDiffer
<1> QED BY <1>1, <1>2 DEF OnTimeInv, InCall

LEMMA RejectOnTime ==
  ASSUME CInv, OnTimeInv, NEW delta \in 1 .. MaxStep, Reject(delta)
  PROVE  OnTimeInv'
<1>1. /\ pc \in {"loop", "retry"} /\ pc' = "retry" /\ delta \in 1 .. target - last - 1
      /\ Backup(last + delta)
      /\ UNCHANGED <<last, op_pending, out_vals, post, born, ran, vtime, firsttime>>
  BY DEF Reject, bridge, cosim
<1>2. /\ last + delta \in Nat /\ last <= last + delta /\ last + delta <= target
      /\ vtime \in Nat /\ target \in Nat /\ last \in Nat /\ Delay \in Nat
  BY <1>1, OnTimeNumbers
<1>3. op_pending => vtime <= last \/ target - vtime <= Delay
  BY <1>1, OnTimeNumbers DEF OnTimeInv
<1>4. op_pending => vtime <= last \/ (last + delta) - vtime <= Delay
  BY <1>2, <1>3
<1> QED BY <1>1, <1>2, <1>4, BackOnTime

LEMMA PastBreakpointOnTime ==
  ASSUME CInv, OnTimeInv, PastBreakpoint PROVE OnTimeInv'
<1>1. /\ pc = "cut" /\ brk < TIME /\ pc' = "retry" /\ Backup(brk)
      /\ UNCHANGED <<last, firsttime, op_pending, out_vals, born, ran, vtime, post>>
  BY DEF PastBreakpoint, cosim
<1>2. brk \in Nat /\ last \in Nat /\ last <= brk
  BY <1>1, OnTimeNumbers DEF CInv, OrderInv
<1>3. vtime <= last \/ brk - vtime <= Delay
  BY <1>1 DEF OnTimeInv
<1> QED BY <1>1, <1>2, <1>3, BackOnTime

LEMMA FirstStepOnTime ==
  ASSUME CInv, OnTimeInv, FirstStep PROVE OnTimeInv'
<1>1. /\ pc' = "accepted" /\ firsttime /\ post = None /\ ~ firsttime'
      /\ states' = <<Now>>
      /\ UNCHANGED <<op_pending, post, born, ran, vtime>>
  BY DEF FirstStep, OnTimeInv, bridge, cosim
<1>2. ~ op_pending
  BY <1>1 DEF CInv, OrderInv
<1>3. \A o \in Outs : ~ MayDiffer(o)'
  BY <1>1, <1>2 DEF MayDiffer, Changed
<1> QED BY <1>1, <1>3 DEF OnTimeInv, InCall

LEMMA StepPendingOnTime ==
  ASSUME CInv, OnTimeInv, StepPending PROVE OnTimeInv'
<1> DEFINE e == [Now EXCEPT !.at = target, !.out = Shown]
<1>1. /\ pc \in {"loop", "retry"} /\ pc' \in {"first", "run"} /\ Called(target)
      /\ ~ firsttime /\ target \in Time
      /\ states' = Append(states, e)
      /\ UNCHANGED <<last, target, born, ran, vtime, firsttime>>
  BY DEF StepPending, CInv, TypeInv, cosim
<1>2. e.out = Shown
  BY NowTyped DEF State, CInv
<1> HIDE DEF e
<1>3. ASSUME NEW o \in Outs, MayDiffer(o)
      PROVE  /\ born[o] <= vtime
             /\ \/ born[o] <= last
                \/ born[o] = vtime /\ target - vtime <= Delay /\ target - ran <= Delay
  <2>1. /\ born[o] \in Nat /\ vtime \in Nat /\ last \in Nat /\ ran \in Nat /\ target \in Nat
        /\ born[o] <= vtime /\ (born[o] <= last \/ born[o] = vtime)
    BY <1>1, <1>3, OnTimeNumbers DEF OnTimeInv
  <2>2. CASE vtime <= last
    BY <2>1, <2>2
  <2>3. CASE ~ (vtime <= last)
    <3>1. pc = "retry" /\ op_pending /\ vtime <= ran
      BY <1>1, <2>3, OnTimeNumbers
    <3>2. target - vtime <= Delay
      BY <2>3, <3>1 DEF OnTimeInv
    <3> QED BY <2>1, <3>1, <3>2, Numbers
  <2> QED BY <2>2, <2>3
<1>4. \A o \in Outs : OnTime(o)'
  BY <1>1, <1>3, CalledOnTime
<1>5. TIME' = target /\ ~ op_pending'
  BY <1>1 DEF Called
<1>6. ASSUME NEW o \in Outs, Changed(o)'
      PROVE  \/ born'[o] <= vtime' /\ born'[o] <= last'
             \/ TIME' - vtime' <= Delay /\ TIME' - ran' <= Delay
  <2>1. Changed(o) \/ Shown[o] # Now.out[o]
    BY <1>1, <1>2, <1>6, ChangedAdded
  <2>2. MayDiffer(o)
    BY <2>1 DEF MayDiffer, Shown
  <2> QED BY <1>1, <1>3, <1>5, <2>2
<1> QED BY <1>1, <1>4, <1>5, <1>6 DEF OnTimeInv, InCall

\* advance: new output is made at the time the co-simulator stops.
LEMMA AdvanceOnTime ==
  ASSUME CInv, OnTimeInv, pc \in InCall \ {"cut"}, NEW goal \in {vtime, TIME},
         vtime <= goal \/ ran <= ahead, NEW next \in InCall \ {"cut"}, advance(goal, next)
  PROVE  OnTimeInv'
<1>1. /\ ~ op_pending /\ ~ firsttime
      /\ TIME' = TIME /\ last' = last /\ target' = target /\ firsttime' = firsttime
  BY DEF CInv, OrderInv, OnTimeInv, advance
<1>2. /\ TIME \in Nat /\ ran \in Nat /\ last \in Nat /\ last <= TIME /\ vtime \in Nat
      /\ goal \in Nat /\ Delay \in Nat
      /\ \A o \in Outs : born[o] \in Nat /\ post[o] \in Int /\ born[o] <= ran
  BY OnTimeNumbers
<1>3. ASSUME NEW v \in Nat, NEW r \in Nat, v = goal \/ ran <= v, ran <= r, NEW o \in Outs,
             Changed(o)
      PROVE  \/ born[o] <= v /\ born[o] <= last
             \/ TIME - v <= Delay /\ TIME - r <= Delay
  <2>1. \/ born[o] <= vtime /\ born[o] <= last
        \/ TIME - vtime <= Delay /\ TIME - ran <= Delay
    BY <1>3 DEF OnTimeInv
  <2>2. CASE born[o] <= vtime /\ born[o] <= last
    BY <1>2, <1>3, <2>2
  <2>3. CASE TIME - vtime <= Delay /\ TIME - ran <= Delay
    BY <1>2, <1>3, <2>3
  <2> QED BY <2>1, <2>2, <2>3
<1>4. CASE /\ Runs(goal)
           /\ pc' = next
           /\ UNCHANGED <<brk, states, q, op_pending, out_vals, post, lost, wiped>>
  <2>1. /\ pc' \in InCall \ {"cut"} /\ ~ op_pending' /\ post' = post /\ born' = born
        /\ states' = states /\ vtime' = goal /\ ran' = IF ran < goal THEN goal ELSE ran
    BY <1>1, <1>4 DEF Runs, Max2
  <2>2. \A o \in Outs : OnTime(o)'
    BY <1>1, <2>1 DEF OnTimeInv, OnTime
  <2>3. vtime' \in Nat /\ ran' \in Nat /\ ran <= ran'
    BY <1>2, <2>1
  <2>4. \A o \in Outs : born'[o] <= ran'
    BY <1>2, <2>1, <2>3
  <2>5. ASSUME NEW o \in Outs, Changed(o)'
        PROVE  \/ born'[o] <= vtime' /\ born'[o] <= last'
               \/ TIME' - vtime' <= Delay /\ TIME' - ran' <= Delay
    <3>1. Changed(o)
      BY <2>1, <2>5 DEF Changed
    <3>2. \/ born[o] <= vtime' /\ born[o] <= last
          \/ TIME - vtime' <= Delay /\ TIME - ran' <= Delay
      BY <1>3, <2>1, <2>3, <3>1
    <3> QED BY <1>1, <2>1, <3>2
  <2> QED BY <1>1, <2>1, <2>2, <2>4, <2>5 DEF OnTimeInv, InCall
<1>5. ASSUME NEW u \in {goal} \cup ran .. goal, NEW new \in SUBSET Outs, Stops(goal, u, new),
             Direct(Accepted(new), next) \/ Truncate(Accepted(new))
      PROVE  OnTimeInv'
  <2>1. /\ vtime' = u /\ ran' = IF ran < u THEN u ELSE ran
        /\ born' = [o \in Outs |-> IF o \in new THEN u ELSE born[o]]
        /\ shown' \in [Outs -> BOOLEAN]
    BY <1>5 DEF Stops, Max2, CInv, TypeInv
  <2>2. /\ u \in Nat /\ (u = goal \/ ran <= u) /\ u <= ran' /\ ran <= ran' /\ ran' \in Nat
    BY <1>2, <2>1
  <2>3. /\ born' \in [Outs -> Nat]
        /\ \A o \in Outs : /\ born'[o] <= ran'
                           /\ o \in new => born'[o] = u
                           /\ o \notin new => born'[o] = born[o]
    BY <1>2, <2>1, <2>2
  <2>4. /\ Accepted(new) \in [Outs -> BOOLEAN]
        /\ \A o \in Outs : o \notin new => Accepted(new)[o] = Now.out[o]
    BY <2>1, NowTyped DEF Accepted, CInv
  <2>5. CASE Direct(Accepted(new), next)
    <3> DEFINE v == Accepted(new)
    <3>1. /\ pc' \in InCall \ {"cut"} /\ ~ op_pending' /\ TIME - u <= Delay
          /\ post' = Outputs(v, TIME, u)
          /\ states' = [states EXCEPT ![Len(states)].out = v]
      BY <1>1, <2>1, <2>5 DEF Direct
    <3>2. ASSUME NEW o \in Outs, post'[o] # NoPost
          PROVE  o \in new
      BY <2>4, <3>1, <3>2 DEF Outputs
    <3>3. /\ Len(states') = Len(states) /\ Len(states) \in Nat
          /\ Now'.out = v /\ Now = states[Len(states)] /\ Now' = states'[Len(states)]
          /\ \A k \in 1 .. Len(states) - 1 : states'[k] = states[k]
      BY <2>4, <3>1, OutHistory, LenProperties DEF CInv, TypeInv, History, Now
    <3>4. ASSUME NEW o \in Outs, o \notin new, Changed(o)' PROVE Changed(o)
      <4>1. \A k \in 1 .. Len(states) : states'[k].out[o] = states[k].out[o]
        <5>1. v[o] = Now.out[o]
          BY <2>4, <3>4
        <5> HIDE DEF v
        <5> QED BY <3>3, <5>1
      <4> QED BY <3>3, <3>4, <4>1 DEF Changed
    <3> HIDE DEF v
    <3>5. ASSUME NEW o \in Outs PROVE OnTime(o)'
      <4> SUFFICES ASSUME post'[o] # NoPost
                   PROVE  /\ TIME' + post'[o] >= born'[o] + Delay
                          /\ born'[o] <= last' \/ TIME' + post'[o] = born'[o] + Delay
        BY DEF OnTime
      <4>1. born'[o] = u
        BY <2>3, <3>2
      <4>2. post'[o] \in Nat /\ TIME + post'[o] = u + Delay
        BY <1>2, <2>2, <3>1, OutputsAt
      <4> QED BY <1>1, <1>2, <2>2, <4>1, <4>2, Numbers
    <3>6. ASSUME NEW o \in Outs, Changed(o)'
          PROVE  \/ born'[o] <= vtime' /\ born'[o] <= last'
                 \/ TIME' - vtime' <= Delay /\ TIME' - ran' <= Delay
      <4>1. CASE o \in new
        <5>1. TIME - u <= Delay /\ TIME - ran' <= Delay
          BY <1>2, <2>2, <3>1
        <5> QED BY <1>1, <2>1, <5>1
      <4>2. CASE o \notin new
        <5>1. Changed(o)
          BY <3>4, <3>6, <4>2
        <5>2. \/ born[o] <= u /\ born[o] <= last
              \/ TIME - u <= Delay /\ TIME - ran' <= Delay
          BY <1>3, <2>2, <5>1
        <5> QED BY <1>1, <2>1, <2>3, <4>2, <5>2
      <4> QED BY <4>1, <4>2
    <3> QED BY <1>1, <2>3, <3>1, <3>5, <3>6 DEF OnTimeInv, InCall
  <2>6. CASE Truncate(Accepted(new))
    <3>1. /\ pc' = "cut" /\ op_pending' /\ TIME - u > Delay
          /\ states' = states /\ out_vals' = Accepted(new)
          /\ brk' = IF Max2(u + Extra, last + MinBreak) - TIME < MinBreak
                       /\ TIME - Max2(u + Extra, last + MinBreak) < MinBreak
                    THEN TIME + MinBreak ELSE Max2(u + Extra, last + MinBreak)
      BY <2>1, <2>6 DEF Truncate
    <3>2. ASSUME NEW o \in Outs, MayDiffer(o)'
          PROVE  born'[o] <= vtime' /\ (born'[o] <= last' \/ born'[o] = vtime')
      <4>1. CASE o \in new
        BY <2>1, <2>2, <2>3, <4>1
      <4>2. CASE o \notin new
        <5>1. Changed(o)' /\ Changed(o)
          BY <2>4, <3>1, <3>2, <4>2 DEF MayDiffer, Changed, Now
        <5>2. \/ born[o] <= u /\ born[o] <= last
              \/ TIME - u <= Delay /\ TIME - ran' <= Delay
          BY <1>3, <2>2, <5>1
        <5>3. ~ (TIME - u <= Delay)
          <6>1. TIME - u > Delay /\ TIME - u \in Int /\ Delay \in Int
            BY <1>2, <2>2, <3>1
          <6> QED BY <6>1
        <5> QED BY <1>1, <2>1, <2>3, <4>2, <5>2, <5>3
      <4> QED BY <4>1, <4>2
    <3>3. brk' < TIME => u <= last \/ brk' - u <= Delay
      <4>1. MinBreak \in Nat /\ MinBreak <= Delay /\ Extra \in Nat /\ Extra <= Delay
        BY CosimAssumption
      <4> QED BY <1>2, <2>2, <3>1, <4>1, Numbers DEF Max2
    <3> QED BY <1>1, <2>1, <2>3, <3>1, <3>2, <3>3 DEF OnTimeInv, InCall
  <2> QED BY <1>5, <2>5, <2>6
<1>6. \/ /\ Runs(goal)
         /\ pc' = next
         /\ UNCHANGED <<brk, states, q, op_pending, out_vals, post, lost, wiped>>
      \/ \E u \in {goal} \cup ran .. goal : \E new \in SUBSET Outs :
           /\ Stops(goal, u, new)
           /\ Direct(Accepted(new), next) \/ Truncate(Accepted(new))
  BY Zenon DEF advance
<1> QED BY <1>4, <1>5, <1>6

LEMMA BridgeOnTime ==
  ASSUME CInv, OnTimeInv, Run \/ Scan \/ Give PROVE OnTimeInv'
<1>1. /\ pc \in InCall \ {"cut"} /\ pc' \in InCall \ {"cut"}
      /\ UNCHANGED <<last, target, TIME, firsttime, states, op_pending, post, born, ran>>
  BY DEF Run, Scan, Give, step, cosim, InCall
<1>2. \A o \in Outs : OnTime(o)' /\ (Changed(o)' => Changed(o))
  BY <1>1 DEF OnTimeInv, OnTime, Changed
<1>3. vtime' \in Nat /\ vtime <= vtime'
  <2>1. CASE Run \/ Give
    <3>1. vtime' = vtime
      BY <2>1 DEF Run, Give
    <3> QED BY <3>1, OnTimeNumbers
  <2>2. CASE Scan
    BY <2>2, ScanForward
  <2> QED BY <2>1, <2>2
<1>4. ASSUME NEW o \in Outs, Changed(o)
      PROVE  \/ born[o] <= vtime' /\ born[o] <= last
             \/ TIME - vtime' <= Delay /\ TIME - ran <= Delay
  <2>1. \/ born[o] <= vtime /\ born[o] <= last
        \/ TIME - vtime <= Delay /\ TIME - ran <= Delay
    BY <1>1, <1>4 DEF OnTimeInv
  <2> QED BY <1>3, <2>1, OnTimeNumbers
<1> QED BY <1>1, <1>2, <1>4 DEF OnTimeInv, InCall

LEMMA ReturnOnTime ==
  ASSUME CInv, OnTimeInv, Return PROVE OnTimeInv'
<1> DEFINE e == [Now EXCEPT !.sent = Sent(Now.out, post)]
<1>1. /\ pc' = "accepted" /\ pc \in {"return", "cut"} /\ pc \in InCall /\ post' = None
      /\ last' = target /\ states' = <<e>>
      /\ UNCHANGED <<firsttime, op_pending, out_vals, born, ran, vtime>>
  BY DEF Return, Accepting, cosim, InCall
<1>2. e.out = Now.out
  BY NowTyped DEF State, CInv
<1> HIDE DEF e
<1>3. ASSUME NEW o \in Outs, MayDiffer(o)' PROVE pc = "cut" /\ MayDiffer(o)
  <2>1. states'[1] = e /\ Now' = e /\ ~ Changed(o)'
    BY <1>1 DEF Changed, Now
  <2>2. op_pending /\ out_vals[o] # Now.out[o]
    BY <1>1, <1>2, <1>3, <2>1 DEF MayDiffer
  <2> QED BY <1>1, <2>2 DEF OnTimeInv, MayDiffer
<1>4. ASSUME NEW o \in Outs, MayDiffer(o)'
      PROVE  born[o] <= vtime /\ (born[o] <= last' \/ born[o] = vtime)
  <2>1. born[o] <= vtime /\ (born[o] <= last \/ born[o] = vtime)
    BY <1>3, <1>4 DEF OnTimeInv
  <2> QED BY <1>1, <2>1, OnTimeNumbers
<1> QED BY <1>1, <1>4 DEF OnTimeInv, InCall

LEMMA NextOnTime ==
  ASSUME CInv, OnTimeInv, [Next]_vars PROVE OnTimeInv'
<1>1. CASE \E t \in Time : StartStep(t) \/ \E i \in Ins : Event(t, i)
  BY <1>1, StartStepOnTime, EventOnTime
<1>2. CASE Solver
  BY <1>2, FirstStepOnTime, StepPendingOnTime, RejectOnTime DEF Solver
<1>3. CASE First \/ Ahead \/ After
  <2>1. /\ pc \in InCall \ {"cut"} /\ \E next \in InCall \ {"cut"} : advance(vtime, next)
    BY <1>3 DEF First, Ahead, After, InCall
  <2>2. vtime <= vtime
    BY OnTimeNumbers
  <2> QED BY <2>1, <2>2, AdvanceOnTime
<1>4. CASE Last
  <2>1. pc \in InCall \ {"cut"} /\ \E next \in InCall \ {"cut"} : advance(TIME, next)
    BY <1>4 DEF Last, InCall
  <2>2. vtime <= TIME \/ ran <= ahead
    BY <2>1, CallNumbers DEF Behind
  <2> QED BY <2>1, <2>2, AdvanceOnTime
<1>5. CASE Cosim /\ ~ (First \/ Ahead \/ After \/ Last)
  BY <1>5, BridgeOnTime, ReturnOnTime, PastBreakpointOnTime DEF Cosim
<1>6. CASE UNCHANGED vars
  <2>1. UNCHANGED <<pc, brk, last, target, TIME, firsttime, states, op_pending, out_vals,
                    post, born, ran, vtime>>
    BY <1>6 DEF vars, step, bridge, cosim
  <2>2. \A o \in Outs : /\ OnTime(o)' <=> OnTime(o)
                        /\ MayDiffer(o)' <=> MayDiffer(o)
                        /\ Changed(o)' <=> Changed(o)
    BY <2>1 DEF OnTime, MayDiffer, Changed, Now
  <2> QED BY <2>1, <2>2 DEF OnTimeInv
<1> QED BY <1>1, <1>2, <1>3, <1>4, <1>5, <1>6 DEF Next, Cosim

\* An output appears the delay after it was made, and later only if it is from
\* before the end of the last step (OutputOnTime), for every delay, every choice
\* of the margins and every method; also when the solver has gone back behind the
\* co-simulator.
THEOREM CosimOutputOnTime == Spec => []OutputOnTime
<1>1. CInv /\ OnTimeInv /\ [Next]_vars => OnTimeInv'
  BY NextOnTime
<1>2. CInv /\ OnTimeInv => OutputOnTime
  <2> SUFFICES ASSUME CInv, OnTimeInv, pc \in {"loop", "return"}, NEW o \in Outs,
                      post[o] # NoPost
               PROVE  /\ TIME + post[o] >= born[o] + Delay
                      /\ born[o] > last => TIME + post[o] = born[o] + Delay
    BY DEF OutputOnTime
  <2>1. OnTime(o)
    BY DEF OnTimeInv, InCall
  <2> QED BY <2>1, OnTimeNumbers DEF OnTime
<1> QED BY <1>1, <1>2, InitOnTime, CInvHolds, PTL DEF Spec

-----------------------------------------------------------------------------
(* The inputs it is to have are in the queue, or lost.                      *)

\* Input i has an entry in the queue up to time t, the last of them at place j, or
\* none.
LastFor(queue, i, t, j) ==
  /\ j \in 1 .. Len(queue) /\ queue[j].which = i /\ queue[j].when <= t
  /\ \A m \in 1 .. Len(queue) : queue[m].which = i /\ queue[m].when <= t => m <= j

NoneFor(queue, i, t) ==
  \A m \in 1 .. Len(queue) : ~ (queue[m].which = i /\ queue[m].when <= t)

\* A change of input i between two times is among the lost ones.
Missed(ls, i, from, t) == \E c \in ls : c.which = i /\ from <= c.when /\ c.when <= t

\* What the co-simulator may have of an input: of one that it has not been given
\* since the solver went back, anything.
Knows == [i \in Ins |-> IF i \in misled THEN BOOLEAN ELSE {seen[i]}]

\* After the entries of the queue up to time t, the co-simulator has value v of
\* input i, or a change that would give it is lost.
Hears(queue, sn, ls, i, t, v) ==
  \/ \E j \in 1 .. Len(queue) : /\ LastFor(queue, i, t, j)
                                /\ queue[j].what = v \/ Missed(ls, i, queue[j].when, t)
  \/ NoneFor(queue, i, t) /\ (v \in sn[i] \/ Missed(ls, i, 0, t))

Heard(queue, sn, ls, t, in) == \A i \in Ins : Hears(queue, sn, ls, i, t, in[i])

\* The state at time t is the last one up to then.
IsAt(s, k, t) ==
  k \in 1 .. Len(s) /\ s[k].at <= t /\ \A m \in 1 .. Len(s) : s[m].at <= t => m <= k

\* The time up to which the bridge has run the co-simulator.
Reached == IF ran <= vtime THEN ran ELSE vtime

\* The co-simulator may still be run to time t, or the step be accepted at it.
InView(t) ==
  /\ last <= t /\ (Reached <= t \/ t = target)
  /\ pc = "retry" => t <= target
  /\ pc \in InCall => t <= TIME /\ (t = TIME \/ TIME - Reached > Delay)
  /\ pc = "after" => vtime <= t
  /\ pc = "cut" => t <= brk

ViewAt(t) ==
  \A k \in 1 .. Len(states) : IsAt(states, k, t) => Heard(q, Knows, lost, t, states[k].in)

\* The queue holds what is ahead of the bridge.
QueueInv ==
  /\ seen \in [Ins -> BOOLEAN] /\ lost \subseteq Entry
  /\ pc \in {"accepted", "loop", "retry", "first", "run"} =>
       \A k \in 1 .. Len(q) : vtime < q[k].when
  /\ pc \in {"scan", "before", "give", "after"} =>
       \A k \in 1 .. Len(q) : started < q[k].when
  /\ pc \in {"last", "return", "cut"} => q = <<>>
  /\ pc = "give" => vtime = q[1].when \/ (TIME - vtime <= Delay /\ vtime <= ran)
  /\ pc \in {"give", "after"} => method = "after" \/ vtime <= ran
  /\ pc = "cut" => TIME - vtime > Delay

ViewInv == \A t \in Nat : InView(t) => ViewAt(t)

LEMMA LessAhead ==
  ASSUME NEW a \in Nat, NEW b \in Nat, NEW c \in Nat, NEW d \in Nat, a <= b, c - b > d
  PROVE  c - a > d
OBVIOUS

LEMMA EntryFields ==
  ASSUME NEW s \in Seq(Entry)
  PROVE  /\ Len(s) \in Nat
         /\ \A k \in 1 .. Len(s) : /\ s[k] \in Entry /\ s[k].when \in Nat
                                   /\ s[k].which \in Ins /\ s[k].what \in BOOLEAN
<1>1. Len(s) \in Nat /\ \A k \in 1 .. Len(s) : s[k] \in Entry
  BY LenProperties, ElementOfSeq
<1> QED BY <1>1 DEF Entry

\* A change that is lost stays lost.
LEMMA HearsMore ==
  ASSUME NEW a, NEW sn, NEW ls, NEW i, NEW t, NEW v, Hears(a, sn, ls, i, t, v),
         NEW more, \A c \in ls : c.which = i /\ c.when <= t => c \in more
  PROVE  Hears(a, sn, more, i, t, v)
<1>1. \A from : Missed(ls, i, from, t) => Missed(more, i, from, t)
  BY DEF Missed
<1> QED BY <1>1 DEF Hears

\* Without an entry between two times it is the same at the later one.
LEMMA HearsLater ==
  ASSUME NEW a \in Seq(Entry), NEW sn, NEW ls, ls \subseteq Entry, NEW i, NEW v,
         NEW t \in Nat, NEW later \in Nat, t <= later,
         Hears(a, sn, ls, i, t, v),
         \A m \in 1 .. Len(a) : a[m].which = i => a[m].when <= t \/ a[m].when > later
  PROVE  Hears(a, sn, ls, i, later, v)
<1>1. \A m \in 1 .. Len(a) : a[m].when \in Nat
  BY EntryFields
<1>2. \A m \in 1 .. Len(a) : a[m].which = i => (a[m].when <= t <=> a[m].when <= later)
  BY <1>1
<1>3. \A from : Missed(ls, i, from, t) => Missed(ls, i, from, later)
  BY DEF Missed, Entry
<1>4. \A j \in 1 .. Len(a) : LastFor(a, i, t, j) => LastFor(a, i, later, j)
  BY <1>2 DEF LastFor
<1>5. NoneFor(a, i, t) => NoneFor(a, i, later)
  BY <1>2 DEF NoneFor
<1> QED BY <1>3, <1>4, <1>5 DEF Hears

\* It depends on the entries up to the time only.
SameUpTo(a, b, t) ==
  \E n \in Nat :
    /\ n <= Len(a) /\ n <= Len(b) /\ \A k \in 1 .. n : a[k] = b[k]
    /\ \A k \in n + 1 .. Len(a) : a[k].when > t
    /\ \A k \in n + 1 .. Len(b) : b[k].when > t

LEMMA SameEarlier ==
  ASSUME NEW a \in Seq(Entry), NEW b \in Seq(Entry), NEW t \in Nat, SameUpTo(a, b, t),
         NEW u \in Nat, u <= t
  PROVE  SameUpTo(a, b, u)
<1>1. PICK n \in Nat :
        /\ n <= Len(a) /\ n <= Len(b) /\ \A k \in 1 .. n : a[k] = b[k]
        /\ \A k \in n + 1 .. Len(a) : a[k].when > t
        /\ \A k \in n + 1 .. Len(b) : b[k].when > t
  BY DEF SameUpTo
<1>2. /\ Len(a) \in Nat /\ Len(b) \in Nat
      /\ \A k \in 1 .. Len(a) : a[k].when \in Nat
      /\ \A k \in 1 .. Len(b) : b[k].when \in Nat
  BY EntryFields
<1>3. /\ \A k \in n + 1 .. Len(a) : k \in 1 .. Len(a) /\ a[k].when > u
      /\ \A k \in n + 1 .. Len(b) : k \in 1 .. Len(b) /\ b[k].when > u
  BY <1>1, <1>2
<1> QED BY <1>1, <1>3 DEF SameUpTo

LEMMA HearsSame ==
  ASSUME NEW a \in Seq(Entry), NEW b \in Seq(Entry), NEW sn, NEW ls, NEW i, NEW v,
         NEW t \in Nat, SameUpTo(a, b, t), Hears(a, sn, ls, i, t, v)
  PROVE  Hears(b, sn, ls, i, t, v)
<1>1. PICK n \in Nat :
        /\ n <= Len(a) /\ n <= Len(b) /\ \A k \in 1 .. n : a[k] = b[k]
        /\ \A k \in n + 1 .. Len(a) : a[k].when > t
        /\ \A k \in n + 1 .. Len(b) : b[k].when > t
  BY DEF SameUpTo
<1>2. /\ Len(a) \in Nat /\ Len(b) \in Nat
      /\ \A k \in 1 .. Len(a) : a[k].when \in Nat
      /\ \A k \in 1 .. Len(b) : b[k].when \in Nat
  BY EntryFields
<1>3. \A j \in 1 .. Len(a) : LastFor(a, i, t, j) => LastFor(b, i, t, j) /\ a[j] = b[j]
  <2> SUFFICES ASSUME NEW j \in 1 .. Len(a), LastFor(a, i, t, j)
               PROVE  LastFor(b, i, t, j) /\ a[j] = b[j]
    OBVIOUS
  <2>1. j \in 1 .. n
    BY <1>1, <1>2 DEF LastFor
  <2>2. \A m \in 1 .. Len(b) : b[m].when <= t => m \in 1 .. n
    BY <1>1, <1>2
  <2>3. /\ j \in 1 .. Len(b) /\ a[j] = b[j]
        /\ a[j].which = i /\ a[j].when <= t
    BY <1>1, <1>2, <2>1 DEF LastFor
  <2>4. \A m \in 1 .. n : m \in 1 .. Len(a) /\ a[m] = b[m]
    BY <1>1, <1>2
  <2>5. \A m \in 1 .. Len(b) : b[m].which = i /\ b[m].when <= t => m <= j
    BY <2>2, <2>4 DEF LastFor
  <2> QED BY <2>3, <2>5 DEF LastFor
<1>4. NoneFor(a, i, t) => NoneFor(b, i, t)
  BY <1>1, <1>2 DEF NoneFor
<1>5. CASE NoneFor(a, i, t)
  BY <1>4, <1>5 DEF Hears, NoneFor, LastFor
<1>6. CASE ~ NoneFor(a, i, t)
  <2>1. PICK j \in 1 .. Len(a) :
          LastFor(a, i, t, j) /\ (a[j].what = v \/ Missed(ls, i, a[j].when, t))
    BY <1>6 DEF Hears
  <2>2. j \in 1 .. Len(b) /\ LastFor(b, i, t, j) /\ a[j] = b[j]
    BY <1>3, <2>1 DEF LastFor
  <2> QED BY <2>1, <2>2 DEF Hears
<1> QED BY <1>5, <1>6

\* If the entries up to the time are given up, they are lost.
LEMMA HearsDropped ==
  ASSUME NEW a \in Seq(Entry), NEW sn, NEW ls, ls \subseteq Entry, NEW i, NEW v,
         NEW t \in Nat, NEW until \in Nat, t <= until,
         Hears(a, sn, ls, i, t, v),
         NEW more, ls \subseteq more,
         \A k \in 1 .. Len(a) : a[k].when <= until => a[k] \in more
  PROVE  Hears(<<>>, sn, more, i, t, v)
<1>1. NoneFor(<<>>, i, t)
  BY DEF NoneFor
<1>2. ASSUME NEW from \in Nat, Missed(ls, i, from, t) PROVE Missed(more, i, 0, t)
  BY <1>2 DEF Missed, Entry
<1>3. CASE NoneFor(a, i, t)
  <2>1. v \in sn[i] \/ Missed(ls, i, 0, t)
    BY <1>3 DEF Hears, NoneFor, LastFor
  <2> QED BY <1>1, <1>2, <2>1 DEF Hears
<1>4. ASSUME NEW j \in 1 .. Len(a), LastFor(a, i, t, j) PROVE Missed(more, i, 0, t)
  <2>1. a[j].when \in Nat /\ a[j].when <= t /\ a[j].which = i
    BY <1>4, EntryFields DEF LastFor
  <2>2. a[j] \in more
    BY <2>1
  <2> QED BY <2>1, <2>2 DEF Missed
<1> QED BY <1>1, <1>3, <1>4 DEF Hears

-----------------------------------------------------------------------------
(* Which state there is at a time.                                          *)

\* The last state is the one at all later times.
LEMMA LastIsAt ==
  ASSUME NEW s, NEW l \in Nat, History(s, l), NEW t \in Nat, LastAt(s) <= t
  PROVE  IsAt(s, Len(s), t) /\ \A k : IsAt(s, k, t) => k = Len(s)
<1>1. /\ Len(s) \in Nat /\ Len(s) >= 1
      /\ \A k \in 1 .. Len(s) : s[k].at \in Nat /\ s[k].at <= LastAt(s)
      /\ LastAt(s) \in Nat
  BY HistoryTimes
<1>2. \A k \in 1 .. Len(s) : s[k].at <= t
  BY <1>1
<1>3. Len(s) \in 1 .. Len(s)
  BY <1>1
<1> QED BY <1>1, <1>2, <1>3 DEF IsAt

\* A state that is added is the one from its time on.
LEMMA AppendIsAt ==
  ASSUME NEW l \in Nat, History(states, l), NEW e \in State, LastAt(states) <= e.at,
         states' = Append(states, e), NEW t \in Nat, NEW k, IsAt(states', k, t)
  PROVE  \/ /\ t < e.at /\ IsAt(states, k, t) /\ k \in 1 .. Len(states)
            /\ states'[k] = states[k]
         \/ e.at <= t /\ states'[k] = e
<1> DEFINE s == states
           r == states'
<1>1. /\ Len(s) \in Nat /\ e.at \in Nat /\ Len(r) = Len(s) + 1 /\ r[Len(s) + 1] = e
      /\ \A m \in 1 .. Len(s) : r[m] = s[m]
  BY HistoryTimes, LaterHistory DEF State
<1> HIDE DEF s, r
<1>2. /\ k \in 1 .. Len(s) + 1 /\ r[k].at <= t
      /\ \A m \in 1 .. Len(s) + 1 : r[m].at <= t => m <= k
  BY <1>1 DEF IsAt, r
<1>3. ASSUME t < e.at PROVE IsAt(s, k, t) /\ k \in 1 .. Len(s) /\ r[k] = s[k]
  <2>1. k # Len(s) + 1
    BY <1>1, <1>2, <1>3
  <2>2. k \in 1 .. Len(s)
    BY <1>1, <1>2, <2>1
  <2> QED BY <1>1, <1>2, <2>2 DEF IsAt
<1>4. ASSUME e.at <= t PROVE r[k] = e
  <2>1. k = Len(s) + 1
    BY <1>1, <1>2, <1>4
  <2> QED BY <1>1, <2>1
<1>5. t < e.at \/ e.at <= t
  BY <1>1
<1> QED BY <1>3, <1>4, <1>5 DEF s, r

\* Up to the time of a backup the states stay as they are.
LEMMA BackIsAt ==
  ASSUME NEW s, NEW r, NEW l \in Nat, History(s, l), NEW back \in Nat,
         TakenBack(s, r, back), NEW t \in Nat, t <= back, NEW k, IsAt(r, k, t)
  PROVE  IsAt(s, k, t) /\ k \in 1 .. Len(s) /\ r[k] = s[k]
<1>1. PICK n \in 1 .. Len(s) :
        /\ Len(r) = n /\ \A m \in 1 .. n : r[m] = s[m]
        /\ \A m \in n + 1 .. Len(s) : s[m].at > back
  BY DEF TakenBack
<1>2. Len(s) \in Nat /\ \A m \in 1 .. Len(s) : s[m].at \in Nat
  BY HistoryTimes
<1>3. \A m \in 1 .. Len(s) : s[m].at <= t => m \in 1 .. n
  BY <1>1, <1>2
<1> QED BY <1>1, <1>2, <1>3 DEF IsAt

\* The same times and inputs.
LEMMA SameIsAt ==
  ASSUME NEW s, NEW r, Len(r) = Len(s), NEW t, NEW k,
         \A m \in 1 .. Len(s) : r[m].at = s[m].at,
         IsAt(r, k, t)
  PROVE  IsAt(s, k, t)
BY DEF IsAt

-----------------------------------------------------------------------------
(* The queue holds what is ahead.                                           *)

LEMMA QueueNumbers ==
  ASSUME CInv
  PROVE  /\ TIME \in Nat /\ target \in Nat /\ vtime \in Nat /\ ran \in Nat /\ last \in Nat
         /\ brk \in Nat /\ started \in Nat /\ last <= target /\ Reached \in Nat
         /\ Reached <= vtime /\ Reached <= ran
         /\ q \in Seq(Entry) /\ Sorted(q) /\ Len(q) \in Nat
         /\ \A k \in 1 .. Len(q) : q[k] \in Entry /\ q[k].when \in Nat
         /\ History(states, last) /\ LastAt(states) \in Nat
<1>1. /\ TIME \in Nat /\ target \in Nat /\ vtime \in Nat /\ ran \in Nat /\ last \in Nat
      /\ brk \in Nat /\ started \in Nat /\ last <= target /\ Reached \in Nat
      /\ Reached <= vtime /\ Reached <= ran
      /\ q \in Seq(Entry) /\ Sorted(q) /\ History(states, last)
  BY Numbers DEF CInv, TypeInv, OrderInv, Time, Reached
<1> QED BY <1>1, EntryFields, HistoryTimes

LEMMA InitQueue == Init => QueueInv
<1> SUFFICES ASSUME Init PROVE QueueInv
  OBVIOUS
<1> QED BY DEF Init, QueueInv

\* What check_input leaves in the queue is of the entries before and the new one.
LEMMA CheckInputFrom ==
  ASSUME NEW s \in Seq(Entry), Sorted(s), NEW e \in Entry
  PROVE  /\ \A k \in 1 .. Len(check_input(s, e).q) :
              \/ check_input(s, e).q[k] = e
              \/ \E j \in 1 .. Len(s) : check_input(s, e).q[k] = s[j]
         /\ check_input(s, e).dropped \subseteq {s[j] : j \in 1 .. Len(s)} \cup {e}
<1>1. Len(s) \in Nat /\ e.when \in Nat
  BY LenProperties DEF Entry
<1>2. CASE Len(s) < QLength
  <2> DEFINE a == Append(s, e)
  <2>1. Len(a) = Len(s) + 1 /\ a[Len(s) + 1] = e /\ \A k \in 1 .. Len(s) : a[k] = s[k]
    BY AppendProperties
  <2> HIDE DEF a
  <2>2. \A k \in 1 .. Len(a) : a[k] = e \/ \E j \in 1 .. Len(s) : a[k] = s[j]
    <3> SUFFICES ASSUME NEW k \in 1 .. Len(a)
                 PROVE  a[k] = e \/ \E j \in 1 .. Len(s) : a[k] = s[j]
      OBVIOUS
    <3>1. k \in 1 .. Len(s) \/ k = Len(s) + 1
      BY <1>1, <2>1
    <3> QED BY <2>1, <3>1
  <2>3. check_input(s, e).q = a /\ check_input(s, e).dropped = {}
    BY <1>2 DEF check_input, a
  <2> QED BY <2>2, <2>3
<1>3. CASE ~ (Len(s) < QLength)
  <2> DEFINE kept == UpTo(s, e.when - 1)
  <2>1. /\ Len(kept) \in Nat /\ Len(kept) <= Len(s)
        /\ \A k \in 1 .. Len(kept) : kept[k] = s[k]
    <3>1. e.when - 1 \in Int
      BY <1>1
    <3>2. UpTo(s, e.when - 1) \in Seq(Entry) /\ Len(UpTo(s, e.when - 1)) <= Len(s)
          /\ \A k \in 1 .. Len(UpTo(s, e.when - 1)) : UpTo(s, e.when - 1)[k] = s[k]
      BY <3>1, UpToQueue
    <3>3. kept \in Seq(Entry) /\ Len(kept) <= Len(s)
          /\ \A k \in 1 .. Len(kept) : kept[k] = s[k]
      BY <3>2
    <3> QED BY <3>3, LenProperties
  <2> HIDE DEF kept
  <2>2. check_input(s, e).q = kept
        /\ check_input(s, e).dropped = {s[k] : k \in Len(kept) + 1 .. Len(s)} \cup {e}
    BY <1>3 DEF check_input, kept
  <2>3. \A k \in 1 .. Len(kept) : \E j \in 1 .. Len(s) : kept[k] = s[j]
    BY <1>1, <2>1
  <2>4. Len(kept) + 1 .. Len(s) \subseteq 1 .. Len(s)
    BY <1>1, <2>1
  <2> QED BY <2>2, <2>3, <2>4
<1> QED BY <1>2, <1>3

LEMMA EventQueue ==
  ASSUME CInv, QueueInv, NEW t \in Time, NEW i \in Ins, Event(t, i) PROVE QueueInv'
<1> DEFINE e == [when |-> t, which |-> i, what |-> ~ Now.in[i]]
           a == UpTo(q, t)
           c == check_input(a, e)
<1>1. /\ pc = "loop" /\ pc' = "loop" /\ last < t
      /\ q' = c.q /\ lost' = lost \cup c.dropped
      /\ UNCHANGED <<last, vtime, seen>>
  BY DEF Event, cosim
<1>2. t \in Nat /\ vtime <= last
  BY <1>1, Numbers DEF Time, CInv, OrderInv
<1>3. e \in Entry /\ e.when = t
  BY <1>2, NowTyped DEF Entry, CInv
<1>4. /\ a \in Seq(Entry) /\ Sorted(a) /\ Len(a) \in Nat /\ Len(a) <= Len(q)
      /\ \A k \in 1 .. Len(a) : a[k] = q[k]
  BY <1>2, QueueNumbers, UpToQueue, LenProperties
<1> HIDE DEF e, a
<1>5. /\ \A k \in 1 .. Len(c.q) : c.q[k] = e \/ \E j \in 1 .. Len(a) : c.q[k] = a[j]
      /\ c.dropped \subseteq {a[j] : j \in 1 .. Len(a)} \cup {e}
  BY <1>3, <1>4, CheckInputFrom
<1> HIDE DEF c
<1>6. \A j \in 1 .. Len(a) : a[j] \in Entry /\ vtime < a[j].when
  BY <1>1, <1>4, QueueNumbers DEF QueueInv
<1>7. lost' \subseteq Entry
  BY <1>1, <1>3, <1>5, <1>6 DEF QueueInv
<1>8. \A k \in 1 .. Len(q') : vtime < q'[k].when
  <2>1. vtime < e.when
    BY <1>1, <1>2, <1>3, QueueNumbers
  <2> QED BY <1>1, <1>5, <1>6, <2>1
<1> QED BY <1>1, <1>7, <1>8 DEF QueueInv

LEMMA SolverQueue ==
  ASSUME CInv, QueueInv,
         (\E t \in Time : StartStep(t)) \/ FirstStep \/ StepPending
           \/ \E delta \in 1 .. MaxStep : Reject(delta)
  PROVE  QueueInv'
<1>1. CASE \E t \in Time : StartStep(t)
  BY <1>1 DEF StartStep, QueueInv, bridge, cosim
<1>2. CASE FirstStep
  <2>1. lost' \subseteq Entry
    <3>1. lost' = lost \cup {q[k] : k \in {j \in DOMAIN q : q[j].when > target}}
          /\ DOMAIN q = 1 .. Len(q)
      BY <1>2, QueueNumbers, LenProperties DEF FirstStep
    <3> QED BY <3>1, QueueNumbers DEF QueueInv
  <2> QED BY <1>2, <2>1 DEF FirstStep, QueueInv, bridge, cosim
<1>3. CASE StepPending
  <2>1. /\ pc \in {"loop", "retry"} /\ pc' \in {"first", "run"} /\ q' = UpTo(q, target)
        /\ UNCHANGED <<vtime, seen, lost>>
    BY <1>3 DEF StepPending, cosim
  <2>2. Len(q') \in Nat /\ Len(q') <= Len(q) /\ \A k \in 1 .. Len(q') : q'[k] = q[k]
    BY <2>1, QueueNumbers, UpToQueue, LenProperties
  <2>3. \A k \in 1 .. Len(q') : vtime < q'[k].when
    BY <2>1, <2>2, QueueNumbers DEF QueueInv
  <2> QED BY <2>1, <2>3 DEF QueueInv
<1>4. CASE \E delta \in 1 .. MaxStep : Reject(delta)
  <2>1. /\ pc \in {"loop", "retry"} /\ pc' = "retry" /\ lost' \subseteq lost
        /\ UNCHANGED <<q, vtime, seen>>
    BY <1>4 DEF Reject, bridge, cosim
  <2> QED BY <2>1 DEF QueueInv
<1> QED BY <1>1, <1>2, <1>3, <1>4

\* advance leaves the queue, or gives it up.
LEMMA AdvanceQueue ==
  ASSUME CInv, QueueInv, pc \in InCall \ {"cut"}, NEW goal, NEW next,
         advance(goal, next)
  PROVE  /\ seen' \in [Ins -> BOOLEAN] /\ lost' \subseteq Entry
         /\ \/ pc' = next /\ q' = q
            \/ pc' = "cut" /\ q' = <<>> /\ TIME' - vtime' > Delay
<1>1. CASE /\ Runs(goal)
           /\ pc' = next
           /\ UNCHANGED <<brk, states, q, op_pending, out_vals, post, lost, wiped>>
  BY <1>1 DEF Runs, QueueInv
<1>2. ASSUME NEW u \in {goal} \cup ran .. goal, NEW new \in SUBSET Outs, Stops(goal, u, new),
             Direct(Accepted(new), next)
      PROVE  pc' = next /\ q' = q /\ seen' = seen /\ lost' = lost
  BY <1>2 DEF Stops, Direct
<1>3. ASSUME NEW u \in {goal} \cup ran .. goal, NEW new \in SUBSET Outs, Stops(goal, u, new),
             Truncate(Accepted(new))
      PROVE  /\ pc' = "cut" /\ q' = <<>> /\ TIME - vtime' > Delay
             /\ seen' = seen /\ lost' \subseteq Entry
  <2>1. /\ pc' = "cut" /\ q' = <<>> /\ TIME - vtime' > Delay /\ seen' = seen
        /\ lost' = lost \cup {q[k] : k \in {j \in DOMAIN q : q[j].when <= brk'}}
    BY <1>3 DEF Stops, Truncate
  <2>2. DOMAIN q = 1 .. Len(q)
    BY QueueNumbers, LenProperties
  <2> QED BY <2>1, <2>2, QueueNumbers DEF QueueInv
<1>4. TIME' = TIME
  BY DEF advance
<1>5. \/ /\ Runs(goal)
         /\ pc' = next
         /\ UNCHANGED <<brk, states, q, op_pending, out_vals, post, lost, wiped>>
      \/ \E u \in {goal} \cup ran .. goal : \E new \in SUBSET Outs :
           /\ Stops(goal, u, new)
           /\ Direct(Accepted(new), next) \/ Truncate(Accepted(new))
  BY Zenon DEF advance
<1> QED BY <1>1, <1>2, <1>3, <1>4, <1>5 DEF QueueInv

LEMMA CosimQueue ==
  ASSUME CInv, QueueInv, First \/ Ahead \/ After \/ Last PROVE QueueInv'
<1>1. CASE First
  <2>1. pc = "first" /\ pc \in InCall \ {"cut"} /\ "run" \in InCall \ {"cut"}
        /\ advance(vtime, "run") /\ started' = started
    BY <1>1 DEF First, InCall
  <2>0. vtime \in Time /\ vtime <= vtime
    BY <2>1, CallNumbers
  <2>2. vtime' <= vtime /\ vtime' \in Nat
    BY <2>0, <2>1, AfterAdvance
  <2>4. \A k \in 1 .. Len(q) : vtime < q[k].when /\ q[k].when \in Nat /\ vtime \in Nat
    BY <2>1, QueueNumbers DEF QueueInv
  <2>5. \A k \in 1 .. Len(q) : vtime' < q[k].when
    BY <2>2, <2>4
  <2> QED BY <2>1, <2>5, AdvanceQueue DEF QueueInv
<1>2. CASE Ahead
  <2>1. pc = "before" /\ pc \in InCall \ {"cut"} /\ "give" \in InCall \ {"cut"}
        /\ advance(vtime, "give") /\ started' = started
    BY <1>2 DEF Ahead, InCall
  <2>0. vtime \in Time /\ vtime <= vtime
    BY <2>1, CallNumbers
  <2>2. /\ vtime' <= ran' /\ TIME' = TIME
        /\ pc' # "cut" => vtime' = vtime \/ TIME - vtime' <= Delay
    BY <2>0, <2>1, AfterAdvance
  <2>3. vtime = q[1].when
    BY <2>1 DEF CInv, OrderInv
  <2> QED BY <2>1, <2>2, <2>3, AdvanceQueue DEF QueueInv
<1>3. CASE After
  <2>1. pc = "after" /\ pc \in InCall \ {"cut"} /\ advance(vtime, "scan")
        /\ started' = started
    BY <1>3 DEF After, InCall
  <2> QED BY <2>1, AdvanceQueue DEF QueueInv
<1>4. CASE Last
  <2>1. pc = "last" /\ pc \in InCall \ {"cut"} /\ advance(TIME, "return")
    BY <1>4 DEF Last, InCall
  <2> QED BY <2>1, AdvanceQueue DEF QueueInv
<1> QED BY <1>1, <1>2, <1>3, <1>4

\* The entries that are given are those at the time of the first.
LEMMA GivenEntries ==
  ASSUME CInv, QueueInv, pc = "give"
  PROVE  LET n == Len(UpTo(q, q[1].when)) IN
         /\ n \in 1 .. Len(q) /\ UpTo(q, q[1].when) = SubSeq(q, 1, n)
         /\ \A k \in 1 .. n : UpTo(q, q[1].when)[k] = q[k] /\ q[k].when = q[1].when
         /\ \A k \in n + 1 .. Len(q) : q[k].when > q[1].when
<1>1. /\ q \in Seq(Entry) /\ Sorted(q) /\ Len(q) \in Nat /\ Len(q) >= 1
      /\ \A k \in 1 .. Len(q) : q[k].when \in Nat
  BY QueueNumbers, EmptySeq DEF CInv, OrderInv
<1>2. q[1].when \in Nat /\ q[1].when \in Int /\ 1 \in 1 .. Len(q)
  BY <1>1
<1>3. PICK n \in 0 .. Len(q) :
        /\ UpTo(q, q[1].when) = SubSeq(q, 1, n)
        /\ \A k \in 1 .. n : q[k].when <= q[1].when
        /\ \A k \in n + 1 .. Len(q) : q[k].when > q[1].when
  BY <1>1, <1>2, UpToIsPrefix
<1>4. n \in 1 .. Len(q)
  BY <1>1, <1>2, <1>3
<1>5. Len(SubSeq(q, 1, n)) = n /\ \A k \in 1 .. n : SubSeq(q, 1, n)[k] = q[k]
  BY <1>1, <1>4, SubSeqProperties
<1>6. \A k \in 1 .. n : q[k].when = q[1].when
  BY <1>1, <1>2, <1>3, <1>4 DEF Sorted
<1> QED BY <1>3, <1>4, <1>5, <1>6

LEMMA BridgeQueue ==
  ASSUME CInv, QueueInv, Run \/ Scan \/ Give \/ Return \/ PastBreakpoint
  PROVE  QueueInv'
<1>1. CASE Run
  <2>1. /\ pc = "run" /\ pc' = (IF q = <<>> THEN "last" ELSE "scan") /\ started' = vtime
        /\ UNCHANGED <<q, seen, lost>>
    BY <1>1 DEF Run, cosim
  <2> QED BY <2>1 DEF QueueInv
<1>2. CASE Scan
  <2>1. /\ pc = "scan" /\ UNCHANGED <<started, seen, lost, ran, TIME, method>>
    BY <1>2 DEF Scan, step, cosim
  <2>2. CASE q = <<>>
    <3>1. pc' \in {"last", "return"} /\ q' = q
      BY <1>2, <2>2 DEF Scan
    <3> QED BY <2>1, <2>2, <3>1 DEF QueueInv
  <2>3. CASE q # <<>>
    <3>1. Len(q) \in Nat /\ Len(q) >= 1 /\ started \in Nat /\ q[1].when \in Nat
      BY <2>3, QueueNumbers, EmptySeq
    <3>2. started < q[1].when
      BY <2>1, <3>1 DEF QueueInv
    <3>3. /\ vtime' = q[1].when /\ q' = q
          /\ pc' = IF method = "after" THEN "give" ELSE "before"
      BY <1>2, <2>3, <3>1, <3>2 DEF Scan
    <3> QED BY <2>1, <3>3 DEF QueueInv
  <2> QED BY <2>2, <2>3
<1>3. CASE Give
  <2> DEFINE n == Len(UpTo(q, q[1].when))
  <2>1. /\ pc = "give" /\ pc' \in {"scan", "after"}
        /\ q' = SubSeq(q, n + 1, Len(q)) /\ lost' \subseteq lost
        /\ UNCHANGED <<vtime, started, ran, TIME, method>>
    BY <1>3 DEF Give, step
  <2>2. seen' \in [Ins -> BOOLEAN]
    <3> DEFINE s == UpTo(q, q[1].when)
               F(i) == {k \in DOMAIN s : s[k].which = i}
               w(i) == CHOOSE k \in F(i) : \A j \in F(i) : j <= k
    <3>1. seen' = [i \in Ins |-> IF i \in {s[k].which : k \in DOMAIN s}
                                 THEN s[w(i)].what ELSE seen[i]]
      BY <1>3 DEF Give
    <3>2. s \in Seq(Entry)
      <4>1. q # <<>>
        BY <2>1 DEF CInv, OrderInv
      <4>2. q[1].when \in Nat
        BY <4>1, QueueNumbers, EmptySeq
      <4>3. q[1].when \in Int
        BY <4>2
      <4> QED BY <4>3, QueueNumbers, UpToQueue
    <3> HIDE DEF s
    <3>3. ASSUME NEW i \in Ins, i \in {s[k].which : k \in DOMAIN s}
          PROVE  s[w(i)].what \in BOOLEAN
      <4>1. /\ DOMAIN s = 1 .. Len(s) /\ Len(s) \in Nat
            /\ \A k \in 1 .. Len(s) : s[k].what \in BOOLEAN
        BY <3>2, EntryFields, LenProperties
      <4>2. \E k \in F(i) : \A j \in F(i) : j <= k
        <5>1. /\ F(i) \subseteq Nat /\ F(i) # {}
              /\ Len(s) \in Nat /\ \A k \in F(i) : k <= Len(s)
          BY <3>3, <4>1
        <5> HIDE DEF F
        <5> QED BY <5>1, GreatestNumber
      <4>3. w(i) \in F(i)
        <5> HIDE DEF F
        <5> QED BY <4>2
      <4> QED BY <4>1, <4>3
    <3> HIDE DEF w, F
    <3> QED BY <3>1, <3>3 DEF QueueInv
  <2> HIDE DEF n
  <2>3. n \in 1 .. Len(q)
    BY <2>1, GivenEntries DEF n
  <2>4. /\ Len(q') = Len(q) - n /\ Len(q) \in Nat
        /\ \A k \in 1 .. Len(q') : q'[k] = q[n + k] /\ n + k \in 1 .. Len(q)
    <3>1. q \in Seq(Entry) /\ Sorted(q) /\ Len(q) \in Nat /\ n \in 0 .. Len(q)
      BY <2>3, QueueNumbers
    <3>2. /\ Len(q') = Len(q) - n
          /\ \A k \in 1 .. Len(q) - n : q'[k] = q[n + k]
      BY <2>1, <3>1, RestQueue
    <3> QED BY <2>3, <3>1, <3>2
  <2>5. \A k \in 1 .. Len(q') : started < q'[k].when
    BY <2>1, <2>4 DEF QueueInv
  <2>6. pc' = "after" => method = "after" \/ vtime <= ran
    BY <2>1 DEF QueueInv
  <2> QED BY <2>1, <2>2, <2>5, <2>6 DEF QueueInv
<1>4. CASE Return
  BY <1>4 DEF Return, Accepting, QueueInv, cosim
<1>5. CASE PastBreakpoint
  BY <1>5 DEF PastBreakpoint, QueueInv, cosim
<1> QED BY <1>1, <1>2, <1>3, <1>4, <1>5

LEMMA NextQueue ==
  ASSUME CInv, QueueInv, [Next]_vars PROVE QueueInv'
<1>1. CASE \E t \in Time : StartStep(t) \/ \E i \in Ins : Event(t, i)
  BY <1>1, SolverQueue, EventQueue
<1>2. CASE Solver
  BY <1>2, SolverQueue DEF Solver
<1>3. CASE Cosim
  BY <1>3, CosimQueue, BridgeQueue DEF Cosim
<1>4. CASE UNCHANGED vars
  BY <1>4 DEF QueueInv, vars, step, bridge, cosim
<1> QED BY <1>1, <1>2, <1>3, <1>4 DEF Next

-----------------------------------------------------------------------------
(* Every time that is still ahead is heard right.                           *)

\* What is heard at the time of the last state or later is its inputs.
LEMMA NowHeard ==
  ASSUME CInv, ViewInv, NEW t \in Nat, InView(t), LastAt(states) <= t
  PROVE  Heard(q, Knows, lost, t, Now.in)
<1>1. /\ IsAt(states, Len(states), t) /\ Len(states) \in 1 .. Len(states)
  BY QueueNumbers, HistoryTimes, LastIsAt
<1> QED BY <1>1 DEF ViewInv, ViewAt, Now

\* A time stays in view if nothing that is heard there is forgotten.
LEMMA ViewKept ==
  ASSUME ViewInv, NEW t \in Nat, InView(t),
         \A k : IsAt(states', k, t) =>
           \E j \in 1 .. Len(states) : IsAt(states, j, t) /\ states'[k].in = states[j].in,
         \A in : Heard(q, Knows, lost, t, in) => Heard(q', Knows', lost', t, in)
  PROVE  ViewAt(t)'
<1> SUFFICES ASSUME NEW k \in 1 .. Len(states'), IsAt(states', k, t)
             PROVE  Heard(q', Knows', lost', t, states'[k].in)
  BY DEF ViewAt
<1>1. PICK j \in 1 .. Len(states) : IsAt(states, j, t) /\ states'[k].in = states[j].in
  OBVIOUS
<1>2. Heard(q, Knows, lost, t, states[j].in)
  BY <1>1 DEF ViewInv, ViewAt
<1> QED BY <1>1, <1>2

LEMMA InitView == Init => ViewInv
<1> SUFFICES ASSUME Init PROVE ViewInv
  OBVIOUS
<1>1. /\ q = <<>> /\ Len(states) = 1 /\ states[1].in = seen /\ misled = {}
  BY DEF Init
<1>2. \A i, t : NoneFor(q, i, t)
  BY <1>1 DEF NoneFor
<1>3. \A t : Heard(q, Knows, lost, t, seen)
  BY <1>1, <1>2 DEF Heard, Hears, Knows
<1>4. \A k \in 1 .. Len(states) : states[k].in = seen
  BY <1>1
<1> QED BY <1>3, <1>4 DEF ViewInv, ViewAt

\* Nothing that is heard changes.
LEMMA SameView ==
  ASSUME ViewInv, UNCHANGED <<states, q, Knows, lost>>,
         \A t \in Nat : InView(t)' => InView(t)
  PROVE  ViewInv'
BY DEF ViewInv, ViewAt

\* The times between the last step and those the co-simulator has reached are in
\* view before a call, up to the end of the step.
LEMMA InViewBefore ==
  ASSUME CInv, NEW t \in Nat
  PROVE  /\ pc \in {"accepted", "loop"} => (InView(t) <=> last <= t)
         /\ pc = "retry" =>
              (InView(t) <=> last <= t /\ t <= target /\ (Reached <= t \/ t = target))
         /\ pc \in {"loop", "retry"} => InView(target)
<1>1. /\ target \in Nat /\ last \in Nat /\ Reached \in Nat /\ vtime \in Nat
      /\ Reached <= vtime /\ last <= target
  BY QueueNumbers
<1>2. pc \in {"accepted", "loop"} => vtime <= last
  BY DEF CInv, OrderInv
<1>3. pc \in {"accepted", "loop"} /\ last <= t => Reached <= t
  BY <1>1, <1>2
<1> QED BY <1>1, <1>3 DEF InView, InCall

LEMMA StartStepView ==
  ASSUME CInv, ViewInv, NEW t0 \in Time, StartStep(t0) PROVE ViewInv'
<1>1. /\ pc = "accepted" /\ pc' = "loop"
      /\ UNCHANGED <<last, states, q, Knows, lost>>
  BY DEF StartStep, step, bridge, cosim, missed, Knows
<1>2. \A t \in Nat : InView(t)' => InView(t)
  BY <1>1, InViewBefore DEF InView
<1> QED BY <1>1, <1>2, SameView

\* The first step leaves the later changes in the queue; they are lost.
LEMMA FirstStepView ==
  ASSUME CInv, QueueInv, ViewInv, FirstStep PROVE ViewInv'
<1>1. /\ pc \in {"loop", "retry"} /\ pc' = "accepted" /\ last' = target
      /\ states' = <<Now>>
      /\ lost' = lost \cup {q[k] : k \in {j \in DOMAIN q : q[j].when > target}}
      /\ UNCHANGED <<q, Knows>>
  BY DEF FirstStep, bridge, cosim, missed, Knows
<1>2. /\ target \in Nat /\ LastAt(states) <= target
      /\ q \in Seq(Entry) /\ DOMAIN q = 1 .. Len(q) /\ lost \subseteq Entry
      /\ \A k \in 1 .. Len(q) : q[k].when \in Nat
  BY <1>1, QueueNumbers, LenProperties DEF CInv, OrderInv, QueueInv
<1>3. Heard(q, Knows, lost, target, Now.in)
  BY <1>1, <1>2, InViewBefore, NowHeard
<1>4. ASSUME NEW t \in Nat, target <= t, NEW i \in Ins
      PROVE  Hears(q, Knows, lost', i, t, Now.in[i])
  <2>1. Hears(q, Knows, lost, i, target, Now.in[i])
    BY <1>3 DEF Heard
  <2>2. CASE \A m \in 1 .. Len(q) : q[m].which = i => q[m].when <= target \/ q[m].when > t
    <3>1. Hears(q, Knows, lost, i, t, Now.in[i])
      BY <1>2, <1>4, <2>1, <2>2, HearsLater
    <3>2. \A c \in lost : c.which = i /\ c.when <= t => c \in lost'
      BY <1>1
    <3> QED BY <3>1, <3>2, HearsMore
  <2>3. CASE ~ \A m \in 1 .. Len(q) : q[m].which = i => q[m].when <= target \/ q[m].when > t
    <3> DEFINE F == {m \in 1 .. Len(q) : q[m].which = i /\ q[m].when <= t}
    <3>1. PICK m \in 1 .. Len(q) : q[m].which = i /\ target < q[m].when /\ q[m].when <= t
      BY <1>2, <1>4, <2>3
    <3>2. m \in F /\ F \subseteq Nat /\ Len(q) \in Nat /\ \A x \in F : x <= Len(q)
      BY <1>2, <3>1, LenProperties
    <3>3. PICK j \in F : \A x \in F : x <= j
      <4> HIDE DEF F
      <4> QED BY <3>2, GreatestNumber
    <3>4. LastFor(q, i, t, j)
      BY <3>3 DEF LastFor
    <3>5. q[m].when <= q[j].when /\ j \in 1 .. Len(q)
      BY <3>2, <3>3, QueueNumbers DEF Sorted
    <3>6. q[j] \in lost' /\ q[j].which = i /\ q[j].when <= t
      BY <1>1, <1>2, <3>1, <3>3, <3>5
    <3>7. Missed(lost', i, q[j].when, t)
      BY <1>2, <3>5, <3>6 DEF Missed
    <3> QED BY <3>4, <3>5, <3>7 DEF Hears
  <2> QED BY <2>2, <2>3
<1>5. \A t \in Nat : InView(t)' => target <= t
  BY <1>1 DEF InView
<1>6. \A k \in 1 .. Len(states') : states'[k] = Now
  BY <1>1
<1>7. q' = q /\ Knows' = Knows
  BY <1>1
<1> QED BY <1>4, <1>5, <1>6, <1>7 DEF ViewInv, ViewAt, Heard

\* After a backup the states are those there were.
LEMMA BackView ==
  ASSUME CInv, NEW back \in Nat, TakenBack(states, states', back),
         NEW t \in Nat, t <= back, NEW k, IsAt(states', k, t)
  PROVE  \E j \in 1 .. Len(states) : IsAt(states, j, t) /\ states'[k].in = states[j].in
<1>1. last \in Nat /\ History(states, last)
  BY QueueNumbers
<1>2. IsAt(states, k, t) /\ k \in 1 .. Len(states) /\ states'[k] = states[k]
  BY <1>1, BackIsAt
<1> QED BY <1>2

\* If no input has been given since, anything goes.
LEMMA MisledView ==
  ASSUME CInv', q' = <<>>, misled' = Ins PROVE ViewInv'
<1> SUFFICES ASSUME NEW t \in Nat, NEW k \in 1 .. Len(states'), NEW i \in Ins
             PROVE  Hears(q', Knows', lost', i, t, states'[k].in[i])
  BY DEF ViewInv, ViewAt, Heard
<1>1. NoneFor(q', i, t)
  BY DEF NoneFor
<1>2. states'[k].in[i] \in BOOLEAN
  <2>1. states'[k] \in State
    <3>1. states' \in Seq(State)
      BY DEF CInv, TypeInv, History
    <3> QED BY <3>1, ElementOfSeq
  <2> QED BY <2>1 DEF State
<1>3. Knows'[i] = BOOLEAN
  BY DEF Knows
<1> QED BY <1>1, <1>2, <1>3 DEF Hears

LEMMA RejectView ==
  ASSUME CInv, QueueInv, ViewInv, NEW delta \in 1 .. MaxStep, Reject(delta)
  PROVE  ViewInv'
<1> DEFINE back == last + delta
<1>1. /\ pc \in {"loop", "retry"} /\ pc' = "retry"
      /\ delta \in Nat /\ last \in Nat /\ target \in Nat
      /\ back \in Nat /\ last <= back /\ back < target /\ target' = back
      /\ Backup(back) /\ lost' = {c \in lost : c.when <= back}
      /\ IF op_pending /\ back < vtime THEN misled' = Ins ELSE misled' = misled
      /\ UNCHANGED <<last, q, seen, Reached>>
  BY QueueNumbers, Numbers DEF Reject, Backup, bridge, cosim, Reached
<1> HIDE DEF back
<1>2. TakenBack(states, states', back)
  BY <1>1, QueueNumbers, BackupHistory
<1>3. /\ vtime \in Nat /\ Reached \in Nat /\ Reached <= vtime
      /\ vtime <= last \/ (op_pending /\ q = <<>>)
  BY <1>1, QueueNumbers DEF CInv, OrderInv
<1>4. CASE op_pending /\ back < vtime
  <2>1. q' = <<>> /\ misled' = Ins
    BY <1>1, <1>3, <1>4
  <2> QED BY <2>1, RejectInv, MisledView
<1>5. CASE ~ (op_pending /\ back < vtime)
  <2>1. Knows' = Knows /\ Reached <= back
    BY <1>1, <1>3, <1>5 DEF Knows
  <2> SUFFICES ASSUME NEW t \in Nat, InView(t)' PROVE ViewAt(t)'
    BY DEF ViewInv
  <2>2. last <= t /\ Reached <= t /\ t <= back
    BY <1>1, <2>1 DEF InView
  <2>3. InView(t)
    BY <1>1, <2>2, InViewBefore
  <2>4. \A k : IsAt(states', k, t) =>
          \E j \in 1 .. Len(states) : IsAt(states, j, t) /\ states'[k].in = states[j].in
    BY <1>1, <1>2, <2>2, BackView
  <2>5. ASSUME NEW i, NEW v, Hears(q, Knows, lost, i, t, v)
        PROVE  Hears(q, Knows, lost', i, t, v)
    <3>1. \A c \in lost : c.when <= t => c \in lost'
      BY <1>1, <2>2 DEF QueueInv, Entry
    <3> QED BY <2>5, <3>1, HearsMore
  <2>6. \A in : Heard(q, Knows, lost, t, in) => Heard(q', Knows', lost', t, in)
    BY <1>1, <2>1, <2>5 DEF Heard
  <2> QED BY <2>3, <2>4, <2>6, ViewKept
<1> QED BY <1>4, <1>5

LEMMA PastBreakpointView ==
  ASSUME CInv, QueueInv, ViewInv, PastBreakpoint PROVE ViewInv'
<1>1. /\ pc = "cut" /\ pc \in InCall /\ pc' = "retry" /\ brk < TIME /\ Backup(brk)
      /\ target' = brk /\ TIME - vtime > Delay
      /\ UNCHANGED <<last, q, Knows, Reached, lost>>
  BY DEF PastBreakpoint, Backup, QueueInv, cosim, missed, Knows, Reached, InCall
<1>2. /\ brk \in Nat /\ last <= brk /\ last \in Nat /\ TIME \in Nat /\ vtime <= brk
      /\ Reached \in Nat /\ Reached <= vtime /\ vtime \in Nat
  BY <1>1, QueueNumbers DEF CInv, OrderInv
<1>3. TakenBack(states, states', brk)
  BY <1>1, <1>2, QueueNumbers, BackupHistory
<1> SUFFICES ASSUME NEW t \in Nat, InView(t)' PROVE ViewAt(t)'
  BY DEF ViewInv
<1>4. last <= t /\ Reached <= t /\ t <= brk
  BY <1>1, <1>2 DEF InView
<1>5. InView(t)
  <2>1. TIME - Reached > Delay /\ t <= TIME
    BY <1>1, <1>2, <1>4, Numbers
  <2> QED BY <1>1, <1>4, <2>1 DEF InView
<1>6. \A k : IsAt(states', k, t) =>
        \E j \in 1 .. Len(states) : IsAt(states, j, t) /\ states'[k].in = states[j].in
  BY <1>2, <1>3, <1>4, BackView
<1>7. \A in : Heard(q, Knows, lost, t, in) => Heard(q', Knows', lost', t, in)
  BY <1>1
<1> QED BY <1>5, <1>6, <1>7, ViewKept

\* The state at the end of the step.
LEMMA StepPendingView ==
  ASSUME CInv, QueueInv, ViewInv, StepPending PROVE ViewInv'
<1> DEFINE st == [Now EXCEPT !.at = target, !.out = Shown]
<1>1. /\ pc \in {"loop", "retry"} /\ pc' \in InCall
      /\ TIME' = target /\ states' = Append(states, st) /\ q' = UpTo(q, target)
      /\ UNCHANGED <<last, target, Knows, Reached, lost>>
  BY DEF StepPending, Called, cosim, missed, Knows, Reached, InCall
<1>2. /\ target \in Nat /\ target \in Int /\ last \in Nat /\ History(states, last)
      /\ LastAt(states) <= target /\ q \in Seq(Entry) /\ Sorted(q) /\ Len(q) \in Nat
  BY <1>1, QueueNumbers DEF CInv, OrderInv
<1>3. st \in State /\ st.at = target /\ st.in = Now.in
  <2> DEFINE n == Now
  <2>1. n \in State /\ Shown \in [Outs -> BOOLEAN]
    BY NowTyped DEF CInv
  <2> HIDE DEF n
  <2>2. /\ [n EXCEPT !.at = target, !.out = Shown] \in State
        /\ [n EXCEPT !.at = target, !.out = Shown].at = target
        /\ [n EXCEPT !.at = target, !.out = Shown].in = n.in
    BY <1>2, <2>1 DEF State
  <2> QED BY <2>2 DEF n
<1> HIDE DEF st
<1>4. q' \in Seq(Entry) /\ SameUpTo(q, q', target)
  <2>1. /\ q' \in Seq(Entry) /\ Len(q') <= Len(q) /\ Len(q') \in Nat
        /\ \A k \in 1 .. Len(q') : q'[k] = q[k]
        /\ \A k \in Len(q') + 1 .. Len(q) : q[k].when > target
    BY <1>1, <1>2, UpToQueue, LenProperties
  <2>2. \A k \in 1 .. Len(q') : q[k] = q'[k]
    BY <2>1
  <2>3. \A k \in Len(q') + 1 .. Len(q') : q'[k].when > target
    BY <2>1
  <2> QED BY <2>1, <2>2, <2>3 DEF SameUpTo
<1> SUFFICES ASSUME NEW t \in Nat, InView(t)' PROVE ViewAt(t)'
  BY DEF ViewInv
<1>5. last <= t /\ (Reached <= t \/ t = target) /\ t <= target
  BY <1>1 DEF InView
<1>6. InView(t)
  BY <1>1, <1>5, InViewBefore
<1>7. SameUpTo(q, q', t)
  BY <1>2, <1>4, <1>5, SameEarlier
<1>8. \A in : Heard(q, Knows, lost, t, in) => Heard(q', Knows', lost', t, in)
  <2>1. ASSUME NEW i, NEW v, Hears(q, Knows, lost, i, t, v)
        PROVE  Hears(q', Knows, lost, i, t, v)
    BY <1>2, <1>4, <1>7, <2>1, HearsSame
  <2> QED BY <1>1, <2>1 DEF Heard
<1>9. ASSUME NEW k, IsAt(states', k, t)
      PROVE  \E j \in 1 .. Len(states) : IsAt(states, j, t) /\ states'[k].in = states[j].in
  <2>1. \/ /\ IsAt(states, k, t) /\ k \in 1 .. Len(states) /\ states'[k] = states[k]
        \/ st.at <= t /\ states'[k] = st
    <3>1. last \in Nat /\ History(states, last) /\ states' = Append(states, st)
      BY <1>1, <1>2
    <3>2. st \in State /\ LastAt(states) <= st.at
      BY <1>2, <1>3
    <3> QED BY <3>1, <3>2, <1>9, AppendIsAt
  <2>2. CASE st.at <= t /\ states'[k] = st
    <3>1. t = target
      BY <1>2, <1>3, <1>5, <2>2
    <3>2. IsAt(states, Len(states), t) /\ Len(states) \in 1 .. Len(states)
      BY <1>2, <3>1, LastIsAt, HistoryTimes
    <3> QED BY <1>3, <2>2, <3>2 DEF Now
  <2> QED BY <2>1, <2>2
<1> QED BY <1>6, <1>8, <1>9, ViewKept

LEMMA LastOrNone ==
  ASSUME NEW a \in Seq(Entry), NEW i, NEW t
  PROVE  NoneFor(a, i, t) \/ \E j \in 1 .. Len(a) : LastFor(a, i, t, j)
<1> DEFINE F == {m \in 1 .. Len(a) : a[m].which = i /\ a[m].when <= t}
<1>1. F \subseteq Nat /\ Len(a) \in Nat /\ \A x \in F : x <= Len(a)
  BY LenProperties
<1>2. CASE F = {}
  BY <1>2 DEF NoneFor
<1>3. CASE F # {}
  <2>1. PICK j \in F : \A x \in F : x <= j
    <3> HIDE DEF F
    <3> QED BY <1>1, <1>3, GreatestNumber
  <2> QED BY <2>1 DEF LastFor
<1> QED BY <1>2, <1>3

\* After a lost change nothing is promised of an input, until an entry follows.
LEMMA HearsLost ==
  ASSUME NEW a \in Seq(Entry), NEW sn, NEW ls, NEW t \in Nat, NEW v,
         NEW c \in ls, c \in Entry, c.when <= t,
         \A k \in 1 .. Len(a) : a[k].when <= c.when
  PROVE  Hears(a, sn, ls, c.which, t, v)
<1>1. c.when \in Nat
  BY DEF Entry
<1>2. Missed(ls, c.which, 0, t) /\ \A k \in 1 .. Len(a) : Missed(ls, c.which, a[k].when, t)
  BY <1>1 DEF Missed
<1> QED BY <1>2, LastOrNone DEF Hears

\* What check_input does for the input that changes and for the others.
LEMMA CheckInputHears ==
  ASSUME NEW a \in Seq(Entry), Sorted(a), Len(a) <= QLength, NEW e \in Entry,
         \A k \in 1 .. Len(a) : a[k].when <= e.when,
         NEW sn, NEW ls, ls \subseteq Entry, NEW more,
         more = ls \cup check_input(a, e).dropped, NEW t \in Nat, NEW i, NEW v,
         \/ t < e.when /\ Hears(a, sn, ls, i, t, v)
         \/ e.when <= t /\ i # e.which /\ Hears(a, sn, ls, i, e.when, v)
         \/ e.when <= t /\ i = e.which /\ v = e.what
  PROVE  Hears(check_input(a, e).q, sn, more, i, t, v)
<1> DEFINE c == check_input(a, e)
           b == c.q
<1>1. /\ Len(a) \in Nat /\ e.when \in Nat
      /\ \A k \in 1 .. Len(a) : a[k] \in Entry /\ a[k].when \in Nat
  BY EntryFields DEF Entry
<1>2. b \in Seq(Entry)
  BY CheckInputQueue
<1>3. ASSUME e.when <= t, i # e.which, Hears(a, sn, ls, i, e.when, v)
      PROVE  Hears(a, sn, ls, i, t, v)
  <2> HIDE DEF b, c
  <2>1. \A m \in 1 .. Len(a) : a[m].which = i => a[m].when <= e.when \/ a[m].when > t
    OBVIOUS
  <2> QED BY <1>1, <1>3, <2>1, HearsLater
<1>4. \A c0 \in ls : c0.which = i /\ c0.when <= t => c0 \in more
  OBVIOUS
<1>5. CASE Len(a) < QLength
  <2>1. /\ b = Append(a, e) /\ Len(b) = Len(a) + 1 /\ b[Len(a) + 1] = e
        /\ \A k \in 1 .. Len(a) : b[k] = a[k]
    <3>1. b = Append(a, e)
      BY <1>5 DEF check_input
    <3> QED BY <3>1, AppendProperties
  <2> HIDE DEF b, c
  <2>2. CASE t < e.when /\ Hears(a, sn, ls, i, t, v)
    <3>1. SameUpTo(a, b, t)
      <4>1. \A k \in Len(a) + 1 .. Len(b) : b[k].when > t
        BY <1>1, <2>1, <2>2
      <4>2. \A k \in 1 .. Len(a) : a[k] = b[k]
        BY <2>1
      <4>3. \A k \in Len(a) + 1 .. Len(a) : a[k].when > t
        BY <1>1
      <4>4. Len(a) \in Nat /\ Len(a) <= Len(a) /\ Len(a) <= Len(b)
        BY <1>1, <2>1
      <4> QED BY <4>1, <4>2, <4>3, <4>4 DEF SameUpTo
    <3> QED BY <1>2, <1>4, <2>2, <3>1, HearsSame, HearsMore DEF b, c
  <2>3. CASE e.when <= t /\ i # e.which /\ Hears(a, sn, ls, i, t, v)
    <3>0. \A k \in 1 .. Len(b) : k \in 1 .. Len(a) \/ k = Len(a) + 1
      BY <1>1, <2>1
    <3>1. NoneFor(a, i, t) => NoneFor(b, i, t)
      BY <1>1, <2>1, <2>3, <3>0 DEF NoneFor
    <3>2. \A j \in 1 .. Len(a) : LastFor(a, i, t, j) => LastFor(b, i, t, j) /\ j \in 1 .. Len(b)
      BY <1>1, <2>1, <2>3, <3>0 DEF LastFor
    <3>3. Hears(b, sn, ls, i, t, v)
      BY <2>1, <2>3, <3>1, <3>2 DEF Hears
    <3> QED BY <1>4, <3>3, HearsMore DEF b, c
  <2>4. CASE e.when <= t /\ i = e.which /\ v = e.what
    <3>1. LastFor(b, i, t, Len(a) + 1) /\ Len(a) + 1 \in 1 .. Len(b)
      BY <1>1, <2>1, <2>4 DEF LastFor
    <3> QED BY <2>1, <2>4, <3>1 DEF Hears, b, c
  <2> QED BY <1>3, <2>2, <2>3, <2>4
<1>6. CASE ~ (Len(a) < QLength)
  <2> DEFINE n == Len(b)
  <2>1. /\ n \in Nat /\ n <= Len(a)
        /\ \A k \in 1 .. n : b[k] = a[k] /\ a[k].when <= e.when - 1
        /\ \A k \in n + 1 .. Len(a) : a[k].when > e.when - 1
        /\ more = ls \cup {a[k] : k \in n + 1 .. Len(a)} \cup {e}
    <3> DEFINE kept == UpTo(a, e.when - 1)
    <3>1. e.when - 1 \in Int
      BY <1>1
    <3>2. /\ Len(kept) \in Nat /\ Len(kept) <= Len(a)
          /\ \A k \in 1 .. Len(kept) : kept[k] = a[k] /\ a[k].when <= e.when - 1
          /\ \A k \in Len(kept) + 1 .. Len(a) : a[k].when > e.when - 1
      BY <3>1, UpToQueue, LenProperties
    <3> HIDE DEF kept
    <3>3. b = kept /\ c.dropped = {a[k] : k \in Len(kept) + 1 .. Len(a)} \cup {e}
      BY <1>6 DEF check_input, kept
    <3> QED BY <3>2, <3>3
  <2> HIDE DEF b, c, n
  <2>2. \A k \in 1 .. Len(b) : b[k].when <= e.when
    BY <1>1, <2>1 DEF n
  <2>3. CASE t < e.when /\ Hears(a, sn, ls, i, t, v)
    <3>1. SameUpTo(a, b, t)
      <4>1. \A k \in n + 1 .. Len(a) : a[k].when > t
        BY <1>1, <2>1, <2>3
      <4>2. \A k \in 1 .. n : a[k] = b[k]
        BY <2>1
      <4>3. \A k \in n + 1 .. Len(b) : b[k].when > t
        BY <2>1 DEF n
      <4> QED BY <1>1, <2>1, <4>1, <4>2, <4>3 DEF SameUpTo, n
    <3> QED BY <1>2, <1>4, <2>3, <3>1, HearsSame, HearsMore DEF b, c
  <2>4. CASE e.when <= t /\ i # e.which /\ Hears(a, sn, ls, i, t, v)
    <3>1. ASSUME NEW j \in 1 .. Len(a), LastFor(a, i, t, j), j \notin 1 .. n
          PROVE  Hears(b, sn, more, i, t, v)
      <4>1. a[j] \in more /\ a[j].which = i /\ a[j] \in Entry /\ a[j].when <= t
            /\ e.when <= a[j].when
        BY <1>1, <2>1, <3>1 DEF LastFor
      <4>2. \A k \in 1 .. Len(b) : b[k].when <= a[j].when
        <5> SUFFICES ASSUME NEW k \in 1 .. Len(b) PROVE b[k].when <= a[j].when
          OBVIOUS
        <5>1. b[k].when <= e.when /\ e.when <= a[j].when
          BY <2>2, <4>1
        <5>2. b[k].when \in Nat /\ a[j].when \in Nat /\ e.when \in Nat
          BY <1>1, <1>2, <4>1, EntryFields, ElementOfSeq DEF Entry
        <5> QED BY <5>1, <5>2
      <4>3. b \in Seq(Entry)
        BY <1>2
      <4> QED BY <4>1, <4>2, <4>3, HearsLost
    <3>2. ASSUME NEW j \in 1 .. n, LastFor(a, i, t, j)
          PROVE  LastFor(b, i, t, j) /\ j \in 1 .. Len(b) /\ b[j] = a[j]
      <4>1. \A m \in 1 .. Len(b) : b[m] = a[m] /\ m \in 1 .. Len(a)
        BY <1>1, <2>1 DEF n
      <4>2. j \in 1 .. Len(b) /\ b[j] = a[j]
        BY <2>1 DEF n
      <4> QED BY <3>2, <4>1, <4>2 DEF LastFor
    <3>3. NoneFor(a, i, t) => NoneFor(b, i, t)
      BY <1>1, <2>1 DEF NoneFor, n
    <3>4. CASE \E j \in 1 .. Len(a) : LastFor(a, i, t, j) /\ j \notin 1 .. n
      BY <3>1, <3>4 DEF b, c
    <3>5. CASE ~ \E j \in 1 .. Len(a) : LastFor(a, i, t, j) /\ j \notin 1 .. n
      <4>1. Hears(b, sn, ls, i, t, v)
        BY <2>4, <3>2, <3>3, <3>5 DEF Hears
      <4> QED BY <1>4, <4>1, HearsMore DEF b, c
    <3> QED BY <3>4, <3>5
  <2>5. CASE e.when <= t /\ i = e.which /\ v = e.what
    BY <1>2, <2>1, <2>2, <2>5, HearsLost DEF b, c
  <2> QED BY <1>3, <2>3, <2>4, <2>5
<1> QED BY <1>5, <1>6

LEMMA EventView ==
  ASSUME CInv, QueueInv, ViewInv, NEW t0 \in Time, NEW i0 \in Ins, Event(t0, i0)
  PROVE  ViewInv'
<1> DEFINE e == [when |-> t0, which |-> i0, what |-> ~ Now.in[i0]]
           a == UpTo(q, t0)
           c == check_input(a, e)
           st == [at |-> t0, in |-> [Now.in EXCEPT ![i0] = ~ @],
                  out |-> Shown, sent |-> Sent(Shown, post')]
<1>1. /\ pc = "loop" /\ pc' = "loop" /\ last < t0 /\ TIME <= t0
      /\ states' = Append(states, st) /\ q' = c.q /\ lost' = lost \cup c.dropped
      /\ UNCHANGED <<last, Knows>>
  <2>1. t0 \in TIME .. target
    BY DEF Event
  <2> QED BY <2>1 DEF Event, cosim, missed, Knows
<1>2. /\ t0 \in Nat /\ t0 \in Int /\ last \in Nat
      /\ History(states, last) /\ LastAt(states) \in Nat /\ LastAt(states) <= TIME
      /\ TIME \in Nat
      /\ q \in Seq(Entry) /\ Sorted(q) /\ Len(q) \in Nat /\ Len(q) <= QLength
      /\ lost \subseteq Entry
  BY <1>1, QueueNumbers, Numbers DEF CInv, TypeInv, OrderInv, QueueInv, Time
<1>3. Now.in \in [Ins -> BOOLEAN]
  BY NowTyped DEF CInv
<1>4. /\ e \in Entry /\ e.when = t0 /\ e.which = i0 /\ e.what = ~ Now.in[i0]
  BY <1>2, <1>3 DEF Entry
<1>5. /\ st \in State /\ st.at = t0 /\ st.in = [Now.in EXCEPT ![i0] = ~ @]
  <2>1. Sent(Shown, post') \in [Outs -> BOOLEAN]
    BY NowTyped DEF Sent, CInv
  <2>2. [Now.in EXCEPT ![i0] = ~ @] \in [Ins -> BOOLEAN]
    BY <1>3
  <2> QED BY <1>2, <2>1, <2>2, NowTyped DEF State, CInv
<1>6. /\ a \in Seq(Entry) /\ Sorted(a) /\ Len(a) <= QLength
      /\ \A k \in 1 .. Len(a) : a[k].when <= t0
      /\ SameUpTo(q, a, t0)
  <2>1. /\ a \in Seq(Entry) /\ Sorted(a) /\ Len(a) <= Len(q) /\ Len(a) \in Nat
        /\ \A k \in 1 .. Len(a) : a[k] = q[k] /\ q[k].when <= t0
        /\ \A k \in Len(a) + 1 .. Len(q) : q[k].when > t0
    BY <1>2, UpToQueue, LenProperties
  <2> HIDE DEF a
  <2>2. \A k \in Len(a) + 1 .. Len(a) : a[k].when > t0
    BY <2>1
  <2>3. \A k \in 1 .. Len(a) : q[k] = a[k]
    BY <2>1
  <2>4. SameUpTo(q, a, t0)
    BY <2>1, <2>2, <2>3 DEF SameUpTo
  <2> QED BY <1>2, <2>1, <2>4, Numbers
<1> HIDE DEF e, a, st
<1>7. ASSUME NEW t \in Nat, NEW i, NEW v,
             \/ t < e.when /\ Hears(a, Knows, lost, i, t, v)
             \/ e.when <= t /\ i # e.which /\ Hears(a, Knows, lost, i, e.when, v)
             \/ e.when <= t /\ i = e.which /\ v = e.what
      PROVE  Hears(q', Knows', lost', i, t, v)
  <2>1. /\ \A k \in 1 .. Len(a) : a[k].when <= e.when
        /\ lost' = lost \cup check_input(a, e).dropped
    BY <1>1, <1>4, <1>6
  <2>2. Hears(check_input(a, e).q, Knows, lost', i, t, v)
    BY <1>2, <1>4, <1>6, <1>7, <2>1, CheckInputHears
  <2> QED BY <1>1, <2>2
<1> HIDE DEF c
<1> SUFFICES ASSUME NEW t \in Nat, InView(t)', NEW k \in 1 .. Len(states'),
                    IsAt(states', k, t), NEW i \in Ins
             PROVE  Hears(q', Knows', lost', i, t, states'[k].in[i])
  BY DEF ViewInv, ViewAt, Heard
<1>8. InView(t)
  <2>1. last <= t
    BY <1>1 DEF InView
  <2> QED BY <1>1, <2>1, InViewBefore
<1>9. \/ /\ t < st.at /\ IsAt(states, k, t) /\ k \in 1 .. Len(states)
         /\ states'[k] = states[k]
      \/ st.at <= t /\ states'[k] = st
  <2>1. st \in State /\ LastAt(states) <= st.at
    BY <1>1, <1>2, <1>5
  <2> QED BY <1>1, <1>2, <2>1, AppendIsAt
<1>10. CASE /\ t < st.at /\ IsAt(states, k, t) /\ k \in 1 .. Len(states)
            /\ states'[k] = states[k]
  <2>1. Hears(q, Knows, lost, i, t, states[k].in[i])
    BY <1>8, <1>10 DEF ViewInv, ViewAt, Heard
  <2>2. SameUpTo(q, a, t)
    BY <1>2, <1>5, <1>6, <1>10, SameEarlier
  <2>3. Hears(a, Knows, lost, i, t, states[k].in[i])
    BY <1>2, <1>6, <2>1, <2>2, HearsSame
  <2> QED BY <1>4, <1>5, <1>7, <1>10, <2>3
<1>11. CASE st.at <= t /\ states'[k] = st
  <2>1. Heard(q, Knows, lost, t0, Now.in)
    <3>1. InView(t0) /\ LastAt(states) <= t0
      BY <1>1, <1>2, InViewBefore
    <3> QED BY <1>2, <3>1, NowHeard
  <2>2. Hears(q, Knows, lost, i, t0, Now.in[i])
    BY <2>1 DEF Heard
  <2>3. Hears(a, Knows, lost, i, t0, Now.in[i])
    BY <1>2, <1>6, <2>2, HearsSame
  <2>4. states'[k].in[i] = IF i = i0 THEN e.what ELSE Now.in[i]
    BY <1>3, <1>4, <1>5, <1>11
  <2> QED BY <1>4, <1>5, <1>7, <1>11, <2>3, <2>4
<1> QED BY <1>9, <1>10, <1>11

\* advance: what goes out of view is what the co-simulator has passed; what the
\* step is cut after has been lost.
LEMMA AdvanceView ==
  ASSUME CInv, QueueInv, ViewInv, pc \in InCall \ {"cut"}, NEW goal \in {vtime, TIME},
         vtime <= goal \/ ran <= ahead, pc = "after" => goal = vtime,
         NEW next \in InCall \ {"cut", "after"}, advance(goal, next)
  PROVE  ViewInv'
<1>1. /\ TIME' = TIME /\ last' = last /\ target' = target /\ TIME = target
      /\ TIME \in Nat /\ ran \in Nat /\ last \in Nat /\ last <= TIME
      /\ vtime \in Nat /\ goal \in Nat /\ goal \in Time
      /\ History(states, last) /\ q \in Seq(Entry) /\ lost \subseteq Entry
      /\ Reached \in Nat /\ Reached <= vtime /\ Reached <= ran /\ Delay \in Nat
      /\ pc # "retry" /\ pc \in InCall
  BY QueueNumbers, CallNumbers, Numbers DEF advance, QueueInv, InCall
<1>2. /\ pc' \in InCall /\ pc' # "after" /\ vtime' \in Nat /\ Reached' = vtime'
      /\ vtime' = goal \/ ran <= vtime'
  <2>1. /\ vtime' \in Time /\ ran' \in Nat /\ vtime' <= ran' /\ (vtime' = goal \/ ran <= vtime')
        /\ pc' \in {next, "cut"}
    BY <1>1, AdvanceKeeps
  <2>2. Reached' = vtime'
    BY <2>1, Numbers DEF Reached, Time
  <2> QED BY <2>1, <2>2, Numbers DEF Time, InCall
<1>3. ASSUME NEW t \in Nat, InView(t)'
      PROVE  /\ last <= t /\ t <= TIME /\ (vtime' <= t \/ t = TIME)
             /\ t = TIME \/ TIME - vtime' > Delay
  BY <1>1, <1>2, <1>3 DEF InView
<1>4. \A t \in Nat : t = TIME => InView(t)
  <2>1. pc = "after" => vtime <= TIME
    BY <1>1, CallNumbers
  <2> QED BY <1>1, <2>1 DEF InView
<1>5. \A t \in Nat : t # TIME /\ InView(t)' /\ (pc = "after" => vtime <= vtime') => InView(t)
  <2> SUFFICES ASSUME NEW t \in Nat, t # TIME, InView(t)', pc = "after" => vtime <= vtime'
               PROVE  InView(t)
    OBVIOUS
  <2>1. last <= t /\ t <= TIME /\ vtime' <= t /\ TIME - vtime' > Delay
    BY <1>3
  <2>2. vtime' # TIME
    BY <1>1, <1>2, <2>1
  <2>3. Reached <= vtime'
    BY <1>1, <1>2, <2>2
  <2>4. Reached <= t /\ TIME - Reached > Delay /\ (pc = "after" => vtime <= t)
    <3>1. TIME \in Nat /\ vtime \in Nat /\ vtime' \in Nat /\ Reached \in Nat /\ Delay \in Nat
      BY <1>1, <1>2
    <3>2. Reached <= t /\ (pc = "after" => vtime <= t)
      <4>1. pc = "after" => vtime <= vtime'
        OBVIOUS
      <4> QED BY <2>1, <2>3, <3>1, <4>1
    <3>3. TIME - vtime' > Delay
      BY <2>1
    <3>4. TIME - Reached > Delay
      BY <2>3, <3>1, <3>3, LessAhead
    <3> QED BY <3>2, <3>4
  <2> QED BY <1>1, <2>1, <2>4 DEF InView
<1>6. CASE /\ Runs(goal)
           /\ pc' = next
           /\ UNCHANGED <<brk, states, q, op_pending, out_vals, post, lost, wiped>>
  <2>1. UNCHANGED <<states, q, Knows, lost>> /\ vtime' = goal
    BY <1>6 DEF Runs, advance, Knows
  <2>2. \A t \in Nat : InView(t)' => InView(t)
    <3>1. pc = "after" => vtime <= vtime'
      BY <1>1, <2>1
    <3> QED BY <1>4, <1>5, <3>1
  <2> QED BY <2>1, <2>2, SameView
<1>7. ASSUME NEW u \in {goal} \cup ran .. goal, NEW new \in SUBSET Outs, Stops(goal, u, new),
             Direct(Accepted(new), next)
      PROVE  ViewInv'
  <2>1. /\ TIME - vtime' <= Delay
        /\ states' = [states EXCEPT ![Len(states)].out = Accepted(new)]
        /\ UNCHANGED <<q, Knows, lost>>
    BY <1>7 DEF Stops, Direct, advance, Knows
  <2>2. Accepted(new) \in [Outs -> BOOLEAN]
    <3>1. shown' \in [Outs -> BOOLEAN]
      BY <1>7 DEF Stops, CInv, TypeInv
    <3> QED BY <3>1, NowTyped DEF Accepted, CInv
  <2>3. /\ Len(states') = Len(states)
        /\ \A k \in 1 .. Len(states) :
             states'[k].at = states[k].at /\ states'[k].in = states[k].in
    BY <1>1, <2>1, <2>2, OutHistory
  <2> SUFFICES ASSUME NEW t \in Nat, InView(t)' PROVE ViewAt(t)'
    BY DEF ViewInv
  <2>4. t = TIME
    <3>1. t = TIME \/ TIME - vtime' > Delay
      BY <1>3
    <3>2. ~ (TIME - vtime' > Delay)
      BY <1>1, <1>2, <2>1
    <3> QED BY <3>1, <3>2
  <2>5. InView(t)
    BY <1>4, <2>4
  <2>6. ASSUME NEW k, IsAt(states', k, t)
        PROVE  \E j \in 1 .. Len(states) : IsAt(states, j, t) /\ states'[k].in = states[j].in
    <3>1. IsAt(states, k, t)
      BY <2>3, <2>6, SameIsAt
    <3> QED BY <2>3, <3>1 DEF IsAt
  <2>7. \A in : Heard(q, Knows, lost, t, in) => Heard(q', Knows', lost', t, in)
    BY <2>1
  <2> QED BY <2>5, <2>6, <2>7, ViewKept
<1>8. ASSUME NEW u \in {goal} \cup ran .. goal, NEW new \in SUBSET Outs, Stops(goal, u, new),
             Truncate(Accepted(new))
      PROVE  ViewInv'
  <2>1. /\ pc' = "cut" /\ vtime' = u /\ q' = <<>>
        /\ lost' = lost \cup {q[k] : k \in {j \in DOMAIN q : q[j].when <= brk'}}
        /\ DOMAIN q = 1 .. Len(q)
        /\ UNCHANGED <<states, Knows>>
    BY <1>1, <1>8, LenProperties DEF Stops, Truncate, advance, Knows
  <2>2. brk' \in Nat
    BY <1>1, AdvanceKeeps
  <2>3. pc = "after" => vtime <= vtime'
    <3>1. pc = "after" => goal = vtime /\ (u = goal \/ method # "after")
      BY <1>8 DEF Stops
    <3>2. pc = "after" /\ method # "after" => vtime <= ran
      BY DEF QueueInv
    <3> QED BY <1>1, <1>2, <2>1, <3>1, <3>2
  <2> SUFFICES ASSUME NEW t \in Nat, InView(t)' PROVE ViewAt(t)'
    BY DEF ViewInv
  <2>4. t <= brk'
    BY <2>1 DEF InView
  <2>5. InView(t)
    BY <1>4, <1>5, <2>3
  <2>6. ASSUME NEW k, IsAt(states', k, t)
        PROVE  \E j \in 1 .. Len(states) : IsAt(states, j, t) /\ states'[k].in = states[j].in
    BY <2>1, <2>6 DEF IsAt
  <2>7. ASSUME NEW i, NEW v, Hears(q, Knows, lost, i, t, v)
        PROVE  Hears(q', Knows', lost', i, t, v)
    <3>1. \A k \in 1 .. Len(q) : q[k].when <= brk' => q[k] \in lost'
      BY <2>1
    <3>2. lost \subseteq lost'
      BY <2>1
    <3>3. Hears(<<>>, Knows, lost', i, t, v)
      BY <1>1, <2>2, <2>4, <2>7, <3>1, <3>2, HearsDropped
    <3> QED BY <2>1, <3>3
  <2>8. \A in : Heard(q, Knows, lost, t, in) => Heard(q', Knows', lost', t, in)
    BY <2>7 DEF Heard
  <2> QED BY <2>5, <2>6, <2>8, ViewKept
<1>9. \/ /\ Runs(goal)
         /\ pc' = next
         /\ UNCHANGED <<brk, states, q, op_pending, out_vals, post, lost, wiped>>
      \/ \E u \in {goal} \cup ran .. goal : \E new \in SUBSET Outs :
           /\ Stops(goal, u, new)
           /\ Direct(Accepted(new), next) \/ Truncate(Accepted(new))
  BY Zenon DEF advance
<1> QED BY <1>6, <1>7, <1>8, <1>9

\* The bridge on its own.
LEMMA BridgeView ==
  ASSUME CInv, QueueInv, ViewInv, Run \/ Scan PROVE ViewInv'
<1>1. CASE Run
  <2>1. /\ pc = "run" /\ pc' \in {"last", "scan"}
        /\ UNCHANGED <<last, target, TIME, Reached, states, q, Knows, lost>>
    BY <1>1 DEF Run, step, cosim, missed, Reached, Knows
  <2> QED BY <2>1, SameView DEF InView, InCall
<1>2. CASE Scan
  <2>1. /\ pc = "scan" /\ pc' \in {"last", "return", "before", "give"}
        /\ UNCHANGED <<last, target, TIME, ran, states, Knows, lost, q>>
    <3>1. /\ pc = "scan" /\ UNCHANGED <<last, target, TIME, ran, states, Knows, lost>>
      BY <1>2 DEF Scan, step, cosim, missed, Knows
    <3>2. CASE q = <<>>
      BY <1>2, <3>1, <3>2 DEF Scan
    <3>3. CASE q # <<>>
      <4>1. ~ (q[1].when <= started)
        <5>1. Len(q) \in Nat /\ Len(q) >= 1 /\ started \in Nat /\ q[1].when \in Nat
          BY <3>3, QueueNumbers, EmptySeq
        <5> QED BY <3>1, <5>1 DEF QueueInv
      <4> QED BY <1>2, <3>1, <3>3, <4>1 DEF Scan
    <3> QED BY <3>2, <3>3
  <2>2. Reached' \in Nat /\ Reached \in Nat /\ Reached <= Reached'
    <3>1. vtime \in Nat /\ ran \in Nat /\ vtime' \in Nat /\ vtime <= vtime' /\ ran' = ran
      BY <1>2, <2>1, QueueNumbers, ScanForward
    <3> QED BY <3>1 DEF Reached
  <2>3. /\ TIME \in Nat /\ Delay \in Nat /\ TIME = target
        /\ pc \in InCall /\ pc' \in InCall
    BY <2>1, QueueNumbers, Numbers DEF InCall, CInv, OrderInv
  <2>4. \A t \in Nat : InView(t)' => InView(t)
    <3> SUFFICES ASSUME NEW t \in Nat, InView(t)' PROVE InView(t)
      OBVIOUS
    <3>1. /\ last <= t /\ (Reached' <= t \/ t = target) /\ t <= TIME
          /\ t = TIME \/ TIME - Reached' > Delay
      BY <2>1, <2>3 DEF InView
    <3>2. Reached <= t \/ t = target
      BY <2>2, <3>1
    <3>3. t = TIME \/ TIME - Reached > Delay
      <4> SUFFICES ASSUME t # TIME PROVE TIME - Reached > Delay
        OBVIOUS
      <4>1. TIME - Reached' > Delay
        BY <3>1
      <4>2. TIME \in Nat /\ Delay \in Nat
        BY <2>3
      <4> QED BY <2>2, <4>1, <4>2, LessAhead
    <3> QED BY <2>1, <2>3, <3>1, <3>2, <3>3 DEF InView
  <2> QED BY <2>1, <2>4, SameView
<1> QED BY <1>1, <1>2

\* What is given is heard from then on: the last entry of an input at that time is
\* its value.
LEMMA GivenHeard ==
  ASSUME CInv, QueueInv, Give, NEW i \in Ins, NEW v, NEW t \in Nat, q[1].when <= t,
         Hears(q, Knows, lost, i, t, v)
  PROVE  Hears(q', Knows', lost', i, t, v)
<1> DEFINE same == UpTo(q, q[1].when)
           n == Len(same)
           given == {same[k].which : k \in DOMAIN same}
           F == {k \in DOMAIN same : same[k].which = i}
<1>1. /\ pc = "give" /\ q' = SubSeq(q, n + 1, Len(q))
      /\ lost' = {c \in lost : c.which \in given => c.when >= q[1].when}
      /\ i \in given => Knows'[i] = {same[CHOOSE k \in F : \A j \in F : j <= k].what}
      /\ i \notin given => Knows'[i] = Knows[i]
  <2>1. /\ pc = "give" /\ q' = SubSeq(q, n + 1, Len(q))
        /\ lost' = {c \in lost : c.which \in given => c.when >= q[1].when}
        /\ seen'[i] = IF i \in given THEN same[CHOOSE k \in F : \A j \in F : j <= k].what
                      ELSE seen[i]
        /\ misled' = misled \ given
    BY DEF Give
  <2> HIDE DEF given, F, n, same
  <2> QED BY <2>1 DEF Knows
<1>2. /\ q \in Seq(Entry) /\ Sorted(q) /\ Len(q) \in Nat /\ lost \subseteq Entry
      /\ \A k \in 1 .. Len(q) : q[k].when \in Nat
  BY QueueNumbers DEF QueueInv
<1>3. /\ n \in 1 .. Len(q)
      /\ \A k \in 1 .. n : same[k] = q[k] /\ q[k].when = q[1].when
      /\ \A k \in n + 1 .. Len(q) : q[k].when > q[1].when
  BY <1>1, GivenEntries
<1>4. DOMAIN same = 1 .. n /\ q[1].when \in Nat
  <2>1. q[1].when \in Nat
    BY <1>2, <1>3
  <2>2. q[1].when \in Int
    BY <2>1
  <2>3. same \in Seq(Entry)
    BY <1>2, <2>2, UpToQueue
  <2> QED BY <2>1, <2>3, LenProperties
<1>5. given = {q[k].which : k \in 1 .. n} /\ F = {k \in 1 .. n : q[k].which = i}
  BY <1>3, <1>4
<1> HIDE DEF given, F, n, same
<1>6. /\ Len(q') = Len(q) - n
      /\ \A k \in 1 .. Len(q') : q'[k] = q[n + k] /\ n + k \in 1 .. Len(q)
  BY <1>1, <1>2, <1>3, RestQueue
<1>7. \A k \in n + 1 .. Len(q) : k - n \in 1 .. Len(q') /\ q'[k - n] = q[k]
  BY <1>2, <1>3, <1>6
<1>8. ASSUME NEW from \in Nat, i \in given => q[1].when <= from, Missed(lost, i, from, t)
      PROVE  Missed(lost', i, from, t)
  <2>1. PICK c \in lost : c.which = i /\ from <= c.when /\ c.when <= t
    BY <1>8 DEF Missed
  <2>2. c.when \in Nat
    BY <1>2 DEF Entry
  <2>3. c \in lost'
    BY <1>1, <1>4, <1>8, <2>1, <2>2
  <2> QED BY <2>1, <2>3 DEF Missed
<1>9. ASSUME NEW j \in n + 1 .. Len(q), LastFor(q, i, t, j),
             q[j].what = v \/ Missed(lost, i, q[j].when, t)
      PROVE  Hears(q', Knows', lost', i, t, v)
  <2>1. j - n \in 1 .. Len(q') /\ q'[j - n] = q[j]
    BY <1>7
  <2>2. \A m \in 1 .. Len(q') : q'[m].which = i /\ q'[m].when <= t => m <= j - n
    <3> SUFFICES ASSUME NEW m \in 1 .. Len(q'), q'[m].which = i /\ q'[m].when <= t
                 PROVE  m <= j - n
      OBVIOUS
    <3>1. n + m \in 1 .. Len(q) /\ q'[m] = q[n + m] /\ m \in Nat /\ n \in Nat /\ j \in Nat
      BY <1>2, <1>3, <1>6
    <3>2. n + m <= j
      BY <1>9, <3>1 DEF LastFor
    <3> QED BY <3>1, <3>2
  <2>3. LastFor(q', i, t, j - n)
    BY <1>9, <2>1, <2>2 DEF LastFor
  <2>4. q[j].when \in Nat /\ q[1].when <= q[j].when
    BY <1>2, <1>3, <1>4
  <2>5. q[j].what = v \/ Missed(lost', i, q[j].when, t)
    BY <1>8, <1>9, <2>4
  <2> QED BY <2>1, <2>3, <2>5 DEF Hears
<1>10. ASSUME \A m \in n + 1 .. Len(q) : ~ (q[m].which = i /\ q[m].when <= t)
       PROVE  NoneFor(q', i, t)
  <2> SUFFICES ASSUME NEW m \in 1 .. Len(q') PROVE ~ (q'[m].which = i /\ q'[m].when <= t)
    BY DEF NoneFor
  <2>1. n + m \in n + 1 .. Len(q) /\ q'[m] = q[n + m]
    BY <1>2, <1>3, <1>6
  <2> QED BY <1>10, <2>1
<1>11. ASSUME NEW j \in 1 .. n, LastFor(q, i, t, j),
              q[j].what = v \/ Missed(lost, i, q[j].when, t)
       PROVE  Hears(q', Knows', lost', i, t, v)
  <2>1. i \in given /\ j \in F /\ \A k \in F : k <= j
    BY <1>2, <1>3, <1>4, <1>5, <1>11 DEF LastFor
  <2>2. \A k \in F : (\A l \in F : l <= k) => k = j
    BY <1>5, <2>1
  <2>3. (CHOOSE k \in F : \A l \in F : l <= k) = j
    BY <2>1, <2>2
  <2>4. q[j].what \in Knows'[i]
    BY <1>1, <1>3, <2>1, <2>3
  <2>5. NoneFor(q', i, t)
    <3>1. \A m \in n + 1 .. Len(q) : ~ (q[m].which = i /\ q[m].when <= t)
      BY <1>2, <1>3, <1>11 DEF LastFor
    <3> QED BY <1>10, <3>1
  <2>6. Missed(lost, i, q[j].when, t) => Missed(lost', i, 0, t)
    <3>1. q[j].when = q[1].when
      BY <1>3
    <3>2. Missed(lost', i, q[1].when, t) => Missed(lost', i, 0, t)
      BY <1>1, <1>2, <1>4 DEF Missed, Entry
    <3> QED BY <1>4, <1>8, <3>1, <3>2
  <2> QED BY <1>11, <2>4, <2>5, <2>6 DEF Hears
<1>12. CASE NoneFor(q, i, t)
  <2>1. i \notin given
    BY <1>2, <1>3, <1>4, <1>5, <1>12 DEF NoneFor
  <2>2. v \in Knows[i] \/ Missed(lost, i, 0, t)
    BY <1>12 DEF Hears, NoneFor, LastFor
  <2>3. v \in Knows'[i] \/ Missed(lost', i, 0, t)
    BY <1>1, <1>8, <2>1, <2>2
  <2>4. NoneFor(q', i, t)
    <3>1. \A m \in n + 1 .. Len(q) : ~ (q[m].which = i /\ q[m].when <= t)
      BY <1>2, <1>3, <1>12 DEF NoneFor
    <3> QED BY <1>10, <3>1
  <2> QED BY <2>3, <2>4 DEF Hears
<1>13. CASE ~ NoneFor(q, i, t)
  <2>1. PICK j \in 1 .. Len(q) : LastFor(q, i, t, j)
                                 /\ (q[j].what = v \/ Missed(lost, i, q[j].when, t))
    BY <1>13 DEF Hears
  <2>2. j \in 1 .. n \/ j \in n + 1 .. Len(q)
    BY <1>2, <1>3
  <2> QED BY <1>9, <1>11, <2>1, <2>2
<1> QED BY <1>12, <1>13

LEMMA GiveView ==
  ASSUME CInv, QueueInv, ViewInv, Give PROVE ViewInv'
<1>1. /\ pc = "give" /\ pc \in InCall /\ pc' \in {"scan", "after"} /\ pc' \in InCall
      /\ pc' = "scan" => method = "normal"
      /\ UNCHANGED <<last, target, TIME, Reached, vtime, states>>
  BY DEF Give, step, InCall, Reached
<1>2. /\ q[1].when \in Nat /\ q[1].when <= TIME /\ TIME \in Nat /\ TIME = target
      /\ vtime \in Nat /\ ran \in Nat /\ Delay \in Nat
  <2>1. q # <<>>
    BY <1>1 DEF CInv, OrderInv
  <2>2. 1 \in 1 .. Len(q)
    BY <2>1, QueueNumbers, EmptySeq
  <2> QED BY <1>1, <2>2, CallNumbers, Numbers
<1> SUFFICES ASSUME NEW t \in Nat, InView(t)' PROVE ViewAt(t)'
  BY DEF ViewInv
<1>3. /\ last <= t /\ (Reached <= t \/ t = target) /\ t <= TIME
      /\ t = TIME \/ TIME - Reached > Delay
      /\ pc' = "after" => vtime <= t
  BY <1>1 DEF InView
<1>4. InView(t)
  BY <1>1, <1>3 DEF InView
<1>5. q[1].when <= t
  <2>1. CASE t = TIME
    BY <1>2, <2>1
  <2>2. CASE t # TIME
    <3>1. Reached <= t /\ TIME - Reached > Delay
      BY <1>2, <1>3, <2>2
    <3>2. vtime <= ran => Reached = vtime
      BY <1>2 DEF Reached
    <3>3. vtime = q[1].when
      <4>1. ~ (vtime <= ran /\ TIME - vtime <= Delay)
        BY <1>2, <3>1, <3>2
      <4> QED BY <1>1, <4>1 DEF QueueInv
    <3>4. vtime <= t
      <4>1. CASE pc' = "after"
        BY <1>3, <4>1
      <4>2. CASE pc' = "scan"
        BY <1>1, <3>1, <3>2, <4>2 DEF QueueInv
      <4> QED BY <1>1, <4>1, <4>2
    <3> QED BY <3>3, <3>4
  <2> QED BY <2>1, <2>2
<1>6. ASSUME NEW k, IsAt(states', k, t)
      PROVE  \E j \in 1 .. Len(states) : IsAt(states, j, t) /\ states'[k].in = states[j].in
  BY <1>1, <1>6 DEF IsAt
<1>7. \A in : Heard(q, Knows, lost, t, in) => Heard(q', Knows', lost', t, in)
  <2>1. ASSUME NEW i \in Ins, NEW v, Hears(q, Knows, lost, i, t, v)
        PROVE  Hears(q', Knows', lost', i, t, v)
    BY <1>5, <2>1, GivenHeard
  <2> QED BY <2>1 DEF Heard
<1> QED BY <1>4, <1>6, <1>7, ViewKept

\* When the step is accepted nothing is left in the queue.
LEMMA AcceptingHeard ==
  ASSUME CInv, QueueInv, ViewInv, Accepting
  PROVE  q = <<>> /\ Heard(q, Knows, lost, TIME, Now.in)
<1>1. /\ pc \in {"return", "cut"} /\ pc \in InCall /\ (pc = "cut" => TIME <= brk)
      /\ q = <<>>
  <2>1. pc = "return" \/ (pc = "cut" /\ brk >= TIME)
    BY DEF Accepting
  <2> QED BY <2>1, QueueNumbers DEF InCall, QueueInv
<1>2. TIME \in Nat /\ last <= TIME /\ TIME = target /\ LastAt(states) <= TIME
  <2>1. TIME \in Nat /\ last <= TIME /\ TIME = target
    BY <1>1, CallNumbers
  <2> QED BY <1>1, <2>1 DEF CInv, OrderInv
<1>3. InView(TIME)
  BY <1>1, <1>2 DEF InView
<1> QED BY <1>1, <1>2, <1>3, NowHeard

LEMMA ReturnView ==
  ASSUME CInv, QueueInv, ViewInv, Return PROVE ViewInv'
<1> DEFINE st == [Now EXCEPT !.sent = Sent(Now.out, post)]
<1>1. /\ Accepting /\ pc \in InCall /\ pc' = "accepted" /\ states' = <<st>>
      /\ last' = target /\ UNCHANGED <<q, Knows, lost>>
  BY DEF Return, Accepting, cosim, Knows, InCall
<1>2. st.in = Now.in
  <2>1. Now \in State
    BY NowTyped DEF CInv
  <2> QED BY <2>1 DEF State
<1> HIDE DEF st
<1>3. TIME = target /\ TIME \in Nat /\ lost \subseteq Entry
  BY <1>1, CallNumbers DEF QueueInv
<1>4. q = <<>> /\ Heard(q, Knows, lost, TIME, Now.in)
  BY <1>1, AcceptingHeard
<1>5. ASSUME NEW t \in Nat, TIME <= t, NEW i \in Ins
      PROVE  Hears(q, Knows, lost, i, t, Now.in[i])
  <2>1. Hears(q, Knows, lost, i, TIME, Now.in[i])
    BY <1>4 DEF Heard
  <2>2. q \in Seq(Entry) /\ Len(q) = 0
    BY <1>4, EmptySeq
  <2>3. \A m \in 1 .. Len(q) : q[m].which = i => q[m].when <= TIME \/ q[m].when > t
    BY <2>2
  <2> QED BY <1>3, <1>5, <2>1, <2>2, <2>3, HearsLater
<1>6. \A t \in Nat : InView(t)' => TIME <= t
  BY <1>1, <1>3 DEF InView
<1>7. \A k \in 1 .. Len(states') : states'[k].in = Now.in
  BY <1>1, <1>2
<1> QED BY <1>1, <1>5, <1>6, <1>7 DEF ViewInv, ViewAt, Heard

LEMMA NextView ==
  ASSUME CInv, QueueInv, ViewInv, [Next]_vars PROVE ViewInv'
<1>1. CASE \E t \in Time : StartStep(t) \/ \E i \in Ins : Event(t, i)
  BY <1>1, StartStepView, EventView
<1>2. CASE Solver
  BY <1>2, FirstStepView, StepPendingView, RejectView DEF Solver
<1>3. CASE First \/ Ahead \/ After
  <2>1. /\ pc \in InCall \ {"cut"}
        /\ \E next \in InCall \ {"cut", "after"} : advance(vtime, next)
    BY <1>3 DEF First, Ahead, After, InCall
  <2>2. vtime <= vtime
    BY QueueNumbers
  <2> QED BY <2>1, <2>2, AdvanceView
<1>4. CASE Last
  <2>1. /\ pc = "last" /\ pc \in InCall \ {"cut"} /\ "return" \in InCall \ {"cut", "after"}
        /\ advance(TIME, "return")
    BY <1>4 DEF Last, InCall
  <2>2. vtime <= TIME \/ ran <= ahead
    BY <2>1, CallNumbers DEF Behind
  <2> QED BY <2>1, <2>2, AdvanceView
<1>5. CASE Run \/ Scan \/ Give \/ Return \/ PastBreakpoint
  BY <1>5, BridgeView, GiveView, ReturnView, PastBreakpointView
<1>6. CASE UNCHANGED vars
  <2>1. UNCHANGED <<pc, last, target, TIME, brk, vtime, Reached, states, q, Knows, lost>>
    BY <1>6 DEF vars, step, bridge, cosim, missed, Reached, Knows
  <2> QED BY <2>1, SameView DEF InView
<1> QED BY <1>1, <1>2, <1>3, <1>4, <1>5, <1>6 DEF Next, Cosim

\* When the bridge lets a step be accepted, the co-simulator has every input or a
\* change of it is among the lost ones (InputsSeen), for every length of the queue.
THEOREM CosimInputsSeen == Spec => []InputsSeen
<1>1. CInv /\ QueueInv /\ ViewInv /\ [Next]_vars => QueueInv' /\ ViewInv'
  BY NextQueue, NextView
<1>2. CInv /\ QueueInv /\ ViewInv => InputsSeen
  <2> SUFFICES ASSUME CInv, QueueInv, ViewInv, Accepting, NEW i \in Ins \ misled
               PROVE  seen[i] = Now.in[i] \/ \E c \in lost : c.which = i /\ c.when <= TIME
    BY DEF InputsSeen
  <2>1. q = <<>> /\ Hears(q, Knows, lost, i, TIME, Now.in[i])
    BY AcceptingHeard DEF Heard
  <2>2. Now.in[i] \in Knows[i] \/ Missed(lost, i, 0, TIME)
    BY <2>1 DEF Hears, LastFor
  <2>3. Knows[i] = {seen[i]}
    BY DEF Knows
  <2> QED BY <2>2, <2>3 DEF Missed
<1> QED BY <1>1, <1>2, InitQueue, InitView, CInvHolds, PTL DEF Spec
=============================================================================
