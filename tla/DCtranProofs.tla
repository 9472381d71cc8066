---------------------------- MODULE DCtranProofs ----------------------------
(***************************************************************************)
(* Proofs about the breakpoint table and the choice of the timestep.        *)
(***************************************************************************)
EXTENDS DCtran, NatLemmas, SequenceTheorems

\* An ordered table with entries from low to high.
Table(b, low, high) ==
  /\ b \in Seq(Int) /\ Len(b) >= 2
  /\ Ordered(b)
  /\ \A k \in 1 .. Len(b) : low <= b[k] /\ b[k] <= high

-----------------------------------------------------------------------------
(* The operations on the table.                                             *)

\* The loop of CKTsetBreak finds the first later entry, or none.
LEMMA PassedIsFirst ==
  ASSUME NEW b \in Seq(Int), NEW time \in Int, NEW i, i = Passed(b, time)
  PROVE  /\ i \in 1 .. Len(b) + 1
         /\ i <= Len(b) => b[i] > time
         /\ \A j \in 1 .. i - 1 : b[j] <= time
<1> DEFINE T == {k \in 1 .. Len(b) + 1 : k <= Len(b) => b[k] > time}
<1>1. Len(b) \in Nat /\ \A k \in 1 .. Len(b) : b[k] \in Int
  BY LenProperties, ElementOfSeq
<1>2. T \subseteq Nat /\ Len(b) + 1 \in T
  BY <1>1
<1>3. PICK x \in T : \A y \in T : x <= y
  BY <1>2, LeastNumber
<1>4. \A j \in 1 .. x - 1 : b[j] <= time
  <2> SUFFICES ASSUME NEW j \in 1 .. x - 1 PROVE b[j] <= time
    OBVIOUS
  <2>1. j \in 1 .. Len(b) + 1 /\ j \notin T
    BY <1>1, <1>3
  <2> QED BY <1>1, <2>1
<1>5. \E n \in 1 .. Len(b) + 1 : /\ n <= Len(b) => b[n] > time
                                 /\ \A j \in 1 .. n - 1 : b[j] <= time
  BY <1>3, <1>4
<1> HIDE DEF T
<1> QED BY <1>5 DEF Passed

\* A function on 1 .. n is a sequence of length n.
LEMMA FunctionIsSeq ==
  ASSUME NEW n \in Nat, NEW f \in [1 .. n -> Int]
  PROVE  f \in Seq(Int) /\ Len(f) = n
<1>1. f \in Seq(Int)
  BY SeqDef
<1>2. Len(f) \in Nat /\ DOMAIN f = 1 .. Len(f)
  BY <1>1, LenProperties
<1> QED BY <1>1, <1>2

\* What insertion makes of a table.
Inserted(b, c, i, time) ==
  /\ c \in Seq(Int) /\ Len(c) = Len(b) + 1
  /\ \A k \in 1 .. Len(b) + 1 : c[k] = IF k < i THEN b[k]
                                       ELSE IF k = i THEN time ELSE b[k - 1]

LEMMA InsertEntries ==
  ASSUME NEW b \in Seq(Int), NEW time \in Int, NEW i \in 1 .. Len(b) + 1
  PROVE  Inserted(b, Insert(b, i, time), i, time)
<1> DEFINE n == Len(b)
           c == Insert(b, i, time)
<1>1. n \in Nat /\ \A k \in 1 .. n : b[k] \in Int
  BY LenProperties, ElementOfSeq
<1>2. i \in 1 .. n + 1
  OBVIOUS
<1>3. c = [k \in 1 .. n + 1 |-> IF k < i THEN b[k]
                                ELSE IF k = i THEN time ELSE b[k - 1]]
  BY DEF Insert
<1> HIDE DEF n, c
<1>4. ASSUME NEW k \in 1 .. n + 1
      PROVE  (IF k < i THEN b[k] ELSE IF k = i THEN time ELSE b[k - 1]) \in Int
  <2>1. CASE k < i
    <3>1. k \in 1 .. n
      BY <1>1, <1>2, <2>1
    <3> QED BY <1>1, <2>1, <3>1
  <2>2. CASE k = i
    BY <1>2, <2>2
  <2>3. CASE ~ k < i /\ k # i
    <3>1. k - 1 \in 1 .. n
      BY <1>1, <1>2, <2>3
    <3> QED BY <1>1, <2>3, <3>1
  <2> QED BY <2>1, <2>2, <2>3
<1>5. c \in [1 .. n + 1 -> Int]
  BY <1>3, <1>4
<1>6. c \in Seq(Int) /\ Len(c) = n + 1
  BY <1>1, <1>5, FunctionIsSeq
<1>7. \A k \in 1 .. n + 1 : c[k] = IF k < i THEN b[k]
                                  ELSE IF k = i THEN time ELSE b[k - 1]
  BY <1>3
<1> QED BY <1>6, <1>7 DEF Inserted, n, c

\* CKTsetBreak keeps the table in order, and adds nothing to it but the time
\* asked for.
LEMMA SetBreakTable ==
  ASSUME NEW b, NEW low \in Int, NEW high \in Int, Table(b, low, high),
         NEW now \in Int, NEW time \in Int, low <= time, time <= high
  PROVE  Table(CKTsetBreak(b, now, time), low, high)
<1> DEFINE i == Passed(b, time)
           n == Len(b)
<1>1. b \in Seq(Int) /\ n \in Nat /\ n >= 2 /\ b \in [1 .. n -> Int]
  BY LenProperties DEF Table
<1>2. /\ \A j, k \in 1 .. n : j <= k => b[j] <= b[k]
      /\ \A k \in 1 .. n : b[k] \in Int /\ low <= b[k] /\ b[k] <= high
  BY <1>1 DEF Table, Ordered
<1>3. /\ i \in 1 .. n + 1
      /\ i <= n => b[i] > time
      /\ \A j \in 1 .. i - 1 : b[j] <= time
  BY <1>1, PassedIsFirst
<1> HIDE DEF i, n
<1>4. ASSUME i <= n PROVE Table([b EXCEPT ![i] = time], low, high)
  <2> DEFINE c == [b EXCEPT ![i] = time]
  <2>1. c \in [1 .. n -> Int] /\ \A k \in 1 .. n : c[k] = IF k = i THEN time ELSE b[k]
    BY <1>1, <1>3, <1>4
  <2> HIDE DEF c
  <2>2. c \in Seq(Int) /\ Len(c) = n
    BY <1>1, <2>1, FunctionIsSeq
  <2>3. \A j, k \in 1 .. n : j <= k => c[j] <= c[k]
    <3> SUFFICES ASSUME NEW j \in 1 .. n, NEW k \in 1 .. n, j <= k PROVE c[j] <= c[k]
      OBVIOUS
    <3>1. b[j] <= b[k] /\ b[j] \in Int /\ b[k] \in Int
      BY <1>1, <1>2
    <3>2. CASE j = i
      <4>1. i \in 1 .. n /\ b[i] <= b[k] /\ b[i] \in Int
        BY <1>1, <1>2, <3>2
      <4> QED BY <1>1, <1>3, <1>4, <2>1, <3>1, <3>2, <4>1
    <3>3. CASE j < i /\ k = i
      <4>1. j \in 1 .. i - 1
        BY <1>1, <1>3, <3>3
      <4> QED BY <1>3, <2>1, <3>3, <4>1
    <3>4. CASE j # i /\ k # i
      BY <2>1, <3>1, <3>4
    <3> QED BY <1>1, <1>3, <3>2, <3>3, <3>4
  <2> QED BY <1>1, <1>2, <2>1, <2>2, <2>3 DEF Table, Ordered
<1>5. Table(Insert(b, i, time), low, high)
  <2> DEFINE c == Insert(b, i, time)
  <2>1. Inserted(b, c, i, time)
    <3>1. i \in 1 .. Len(b) + 1 /\ b \in Seq(Int)
      BY <1>1, <1>3 DEF n
    <3> QED BY <3>1, InsertEntries
  <2> HIDE DEF c
  <2>2. \A k \in 1 .. n + 1 : c[k] = IF k < i THEN b[k]
                                    ELSE IF k = i THEN time ELSE b[k - 1]
    BY <2>1 DEF Inserted, n
  <2>3. c \in Seq(Int) /\ Len(c) = n + 1
    BY <2>1 DEF Inserted, n
  <2>4. \A j, k \in 1 .. n + 1 : j <= k => c[j] <= c[k]
    <3> SUFFICES ASSUME NEW j \in 1 .. n + 1, NEW k \in 1 .. n + 1, j <= k
                 PROVE  c[j] <= c[k]
      OBVIOUS
    <3>1. CASE k < i
      <4>1. j \in 1 .. n /\ k \in 1 .. n /\ b[j] <= b[k]
        BY <1>1, <1>2, <1>3, <3>1
      <4> QED BY <1>1, <1>3, <2>2, <3>1, <4>1
    <3>2. CASE k = i /\ j < i
      <4>1. j \in 1 .. i - 1
        BY <1>1, <1>3, <3>2
      <4> QED BY <1>3, <2>2, <3>2, <4>1
    <3>3. CASE j = i /\ k = i
      BY <2>2, <3>3
    <3>4. CASE k > i
      <4>1. k - 1 \in 1 .. n /\ c[k] = b[k - 1] /\ i \in 1 .. n /\ i <= k - 1
        BY <1>1, <1>3, <2>2, <3>4
      <4>2. time < b[i] /\ b[i] <= b[k - 1] /\ b[i] \in Int /\ b[k - 1] \in Int
        BY <1>1, <1>2, <1>3, <4>1
      <4>3. CASE j < i
        <5>1. j \in 1 .. i - 1 /\ c[j] = b[j] /\ j \in 1 .. n
          BY <1>1, <1>3, <2>2, <4>3
        <5>2. b[j] <= time /\ b[j] \in Int
          BY <1>2, <1>3, <5>1
        <5> QED BY <4>1, <4>2, <5>1, <5>2
      <4>4. CASE j = i
        <5>1. c[j] = time
          BY <2>2, <4>4
        <5> QED BY <4>1, <4>2, <5>1
      <4>5. CASE j > i
        <5>1. j - 1 \in 1 .. n /\ c[j] = b[j - 1] /\ j - 1 <= k - 1
          BY <1>1, <1>3, <2>2, <4>5
        <5> QED BY <1>2, <4>1, <5>1
      <4> QED BY <1>1, <1>3, <4>3, <4>4, <4>5
    <3> QED BY <1>1, <1>3, <3>1, <3>2, <3>3, <3>4
  <2>5. \A k \in 1 .. n + 1 : low <= c[k] /\ c[k] <= high
    <3> SUFFICES ASSUME NEW k \in 1 .. n + 1 PROVE low <= c[k] /\ c[k] <= high
      OBVIOUS
    <3>1. CASE k < i
      <4>1. k \in 1 .. n /\ c[k] = b[k]
        BY <1>1, <1>3, <2>2, <3>1
      <4> QED BY <1>2, <4>1
    <3>2. CASE k = i BY <2>2, <3>2
    <3>3. CASE k > i
      <4>1. k - 1 \in 1 .. n /\ c[k] = b[k - 1]
        BY <1>1, <1>3, <2>2, <3>3
      <4> QED BY <1>2, <4>1
    <3> QED BY <1>3, <3>1, <3>2, <3>3
  <2> QED BY <1>1, <2>3, <2>4, <2>5 DEF Table, Ordered, c
<1>6. CKTsetBreak(b, now, time) \in
        {b, Insert(b, i, time)} \cup (IF i <= n THEN {[b EXCEPT ![i] = time]} ELSE {})
  BY DEF CKTsetBreak, i, n
<1>7. CASE CKTsetBreak(b, now, time) = b BY <1>7
<1>8. CASE CKTsetBreak(b, now, time) = Insert(b, i, time) BY <1>5, <1>8
<1>9. CASE i <= n /\ CKTsetBreak(b, now, time) = [b EXCEPT ![i] = time]
  BY <1>4, <1>9
<1> QED BY <1>6, <1>7, <1>8, <1>9

\* What the refilled table holds.
LEMMA RefilledEntries ==
  ASSUME NEW b, NEW low \in Int, low <= FinalTime, Table(b, low, FinalTime)
  PROVE  /\ Refilled(b) \in Seq(Int) /\ Len(Refilled(b)) = Len(b) + 2
         /\ \A k \in 1 .. Len(b) : Refilled(b)[k] = b[k]
         /\ \A k \in Len(b) + 1 .. Len(b) + 2 : Refilled(b)[k] = FinalTime
         /\ \A k \in 1 .. Len(b) + 2 : /\ Refilled(b)[k] \in Int
                                       /\ low <= Refilled(b)[k]
                                       /\ Refilled(b)[k] <= FinalTime
         /\ \A j, k \in 1 .. Len(b) + 2 :
              j <= k => Refilled(b)[j] <= Refilled(b)[k]
<1> DEFINE n == Len(b)
           f == <<FinalTime, FinalTime>>
           x == Refilled(b)
<1>1. FinalTime \in Int
  BY BreakAssumption
<1>2. /\ b \in Seq(Int) /\ n \in Nat
      /\ \A j, k \in 1 .. n : j <= k => b[j] <= b[k]
      /\ \A k \in 1 .. n : b[k] \in Int /\ low <= b[k] /\ b[k] <= FinalTime
  BY LenProperties, ElementOfSeq DEF Table, Ordered
<1>3. f \in Seq(Int) /\ Len(f) = 2 /\ f[1] = FinalTime /\ f[2] = FinalTime
  BY <1>1
<1> HIDE DEF n, f
<1>4. /\ x \in Seq(Int) /\ Len(x) = n + 2
      /\ \A k \in 1 .. n + 2 : x[k] = IF k <= n THEN b[k] ELSE f[k - n]
  BY <1>2, <1>3, ConcatProperties DEF Refilled, n, f
<1> HIDE DEF x
<1>5. \A k \in 1 .. n : x[k] = b[k]
  BY <1>2, <1>4
<1>6. \A k \in n + 1 .. n + 2 : x[k] = FinalTime
  <2> SUFFICES ASSUME NEW k \in n + 1 .. n + 2 PROVE x[k] = FinalTime
    OBVIOUS
  <2>1. k \in 1 .. n + 2 /\ ~ k <= n /\ (k - n = 1 \/ k - n = 2)
    BY <1>2
  <2> QED BY <1>3, <1>4, <2>1
<1>7. \A k \in 1 .. n + 2 : k \in 1 .. n \/ k \in n + 1 .. n + 2
  BY <1>2
<1>8. \A k \in 1 .. n + 2 : x[k] \in Int /\ low <= x[k] /\ x[k] <= FinalTime
  BY <1>1, <1>2, <1>5, <1>6, <1>7
<1>9. \A j, k \in 1 .. n + 2 : j <= k => x[j] <= x[k]
  <2> SUFFICES ASSUME NEW j \in 1 .. n + 2, NEW k \in 1 .. n + 2, j <= k
               PROVE  x[j] <= x[k]
    OBVIOUS
  <2>1. CASE k \in 1 .. n
    <3>1. j \in 1 .. n
      BY <1>2, <2>1
    <3> QED BY <1>2, <1>5, <2>1, <3>1
  <2>2. CASE k \in n + 1 .. n + 2
    BY <1>6, <1>8, <2>2
  <2> QED BY <1>7, <2>1, <2>2
<1> QED BY <1>4, <1>5, <1>6, <1>8, <1>9 DEF n, x

\* Deleting k entries leaves the others, and what is refilled behind them.
Shifted(b, c, k) ==
  /\ c \in Seq(Int) /\ Len(c) >= 2
  /\ \A j \in 1 .. Len(c) : k + j \in 1 .. Len(b) + 2 /\ c[j] = Refilled(b)[k + j]

LEMMA ClrBreaksEntries ==
  ASSUME NEW b, NEW low \in Int, low <= FinalTime, Table(b, low, FinalTime),
         NEW k \in 0 .. Len(b)
  PROVE  Shifted(b, CKTclrBreaks(b, k), k)
<1> DEFINE n == Len(b)
           x == Refilled(b)
           last == IF k + 2 > n THEN k + 2 ELSE n
           c == CKTclrBreaks(b, k)
<1>1. n \in Nat /\ n >= 2
  BY LenProperties DEF Table
<1>2. k \in 0 .. n /\ last \in Int /\ k + 2 <= last /\ last <= n + 2
  BY <1>1
<1>3. \A j \in 1 .. n + 2 : x[j] \in Int
  BY RefilledEntries
<1>4. c = SubSeq(x, k + 1, last)
  BY DEF CKTclrBreaks, Refilled
<1> HIDE DEF n, x, last, c
<1>5. \A j \in k + 1 .. last : x[j] \in Int
  BY <1>1, <1>2, <1>3
<1>6. /\ c \in Seq(Int) /\ Len(c) = last - k
      /\ \A j \in 1 .. last - k : c[j] = x[k + j]
  <2>1. k + 1 \in Int /\ k + 1 <= last
    BY <1>1, <1>2
  <2>2. /\ SubSeq(x, k + 1, last) \in Seq(Int)
        /\ Len(SubSeq(x, k + 1, last)) = last - (k + 1) + 1
        /\ \A j \in 1 .. last - (k + 1) + 1 :
             SubSeq(x, k + 1, last)[j] = x[(k + 1) + j - 1]
    BY <1>2, <1>5, <2>1, SubSeqProperties
  <2>3. last - (k + 1) + 1 = last - k
    BY <1>1, <1>2
  <2>4. ASSUME NEW j \in 1 .. last - k PROVE c[j] = x[k + j]
    <3>1. j \in 1 .. last - (k + 1) + 1 /\ (k + 1) + j - 1 = k + j
      BY <1>2, <2>3
    <3> QED BY <1>4, <2>2, <3>1
  <2> QED BY <1>4, <2>2, <2>3, <2>4
<1>7. \A j \in 1 .. last - k : k + j \in 1 .. n + 2
  BY <1>1, <1>2
<1>8. Len(c) >= 2 /\ \A j \in 1 .. Len(c) : k + j \in 1 .. n + 2 /\ c[j] = x[k + j]
  BY <1>1, <1>2, <1>6, <1>7
<1> QED BY <1>6, <1>8 DEF Shifted, n, x, c

\* Deleting entries keeps the table in order, and the first one left is the
\* first one not deleted.
LEMMA ClrBreaksTable ==
  ASSUME NEW b, NEW low \in Int, low <= FinalTime, Table(b, low, FinalTime),
         NEW k \in 0 .. Len(b)
  PROVE  /\ Table(CKTclrBreaks(b, k), low, FinalTime)
         /\ CKTclrBreaks(b, k)[1] = Refilled(b)[k + 1]
<1> DEFINE n == Len(b)
           x == Refilled(b)
           c == CKTclrBreaks(b, k)
<1>1. n \in Nat /\ k \in Nat
  BY LenProperties DEF Table
<1>2. /\ \A j \in 1 .. n + 2 : x[j] \in Int /\ low <= x[j] /\ x[j] <= FinalTime
      /\ \A i, j \in 1 .. n + 2 : i <= j => x[i] <= x[j]
  BY RefilledEntries
<1>3. /\ c \in Seq(Int) /\ Len(c) >= 2 /\ Len(c) \in Nat
      /\ \A j \in 1 .. Len(c) : k + j \in 1 .. n + 2 /\ c[j] = x[k + j]
  BY ClrBreaksEntries, LenProperties DEF Shifted
<1> HIDE DEF n, x, c
<1>4. \A j \in 1 .. Len(c) : low <= c[j] /\ c[j] <= FinalTime
  BY <1>2, <1>3
<1>5. Ordered(c)
  <2> SUFFICES ASSUME NEW i \in 1 .. Len(c), NEW j \in 1 .. Len(c), i <= j
               PROVE  c[i] <= c[j]
    BY DEF Ordered
  <2>1. k + i <= k + j
    BY <1>1, <1>3
  <2> QED BY <1>2, <1>3, <2>1
<1>6. 1 \in 1 .. Len(c)
  BY <1>3
<1> QED BY <1>3, <1>4, <1>5, <1>6 DEF Table, c, x

\* What is thrown out at the beginning of a step leaves a table whose first entry
\* lies ahead, or is the final time.
LEMMA ThrowOutTable ==
  ASSUME NEW b, NEW low \in Int, low <= FinalTime, Table(b, low, FinalTime),
         CKTtime \in Int
  PROVE  /\ Table(ThrowOut(b), low, FinalTime)
         /\ ThrowOut(b)[1] > CKTtime \/ ThrowOut(b)[1] = FinalTime
         /\ \E k \in 0 .. Len(b) : ThrowOut(b) = CKTclrBreaks(b, k)
<1> DEFINE n == Len(b)
           x == Refilled(b)
           outdated(t) == t <= CKTtime + MinBreak /\ t < FinalTime
           T == {k \in 1 .. n + 1 : ~ outdated(x[k])}
           IsFirst(k) == /\ ~ outdated(x[k])
                         /\ \A j \in 1 .. k - 1 : outdated(x[j])
           first == CHOOSE k \in 1 .. n + 1 : IsFirst(k)
<1>1. n \in Nat /\ FinalTime \in Int /\ MinBreak \in Nat
  BY LenProperties, BreakAssumption DEF Table
<1>2. /\ x[n + 1] = FinalTime
      /\ \A k \in 1 .. n + 2 : x[k] \in Int /\ x[k] <= FinalTime
  BY <1>1, RefilledEntries
<1> HIDE DEF n, x
<1>3. T \subseteq Nat /\ n + 1 \in T
  BY <1>1, <1>2
<1>4. PICK k \in T : \A y \in T : k <= y
  BY <1>3, LeastNumber
<1>5. k \in 1 .. n + 1 /\ IsFirst(k)
  <2>1. \A j \in 1 .. k - 1 : j \in 1 .. n + 1 /\ j \notin T
    BY <1>1, <1>4
  <2> QED BY <1>4, <2>1
<1> HIDE DEF T, IsFirst
<1>6. first \in 1 .. n + 1 /\ IsFirst(first)
  BY <1>5
<1>7. ThrowOut(b) = CKTclrBreaks(b, first - 1)
  BY DEF ThrowOut, n, x, IsFirst
<1> HIDE DEF first
<1>8. first - 1 \in 0 .. Len(b) /\ first - 1 + 1 = first
  BY <1>1, <1>6 DEF n
<1>9. Table(ThrowOut(b), low, FinalTime) /\ ThrowOut(b)[1] = x[first]
  BY <1>7, <1>8, ClrBreaksTable DEF x
<1>10. x[first] > CKTtime \/ x[first] = FinalTime
  BY <1>1, <1>2, <1>6 DEF IsFirst
<1> QED BY <1>7, <1>8, <1>9, <1>10

-----------------------------------------------------------------------------
(* The timestep.                                                            *)

\* Nothing is requested for later than the final time.
NoLateRequest == \A t \in Requests : t <= FinalTime

\* The inductive invariant: the table holds times up to the final time in order,
\* and so does the loop.
StepInv ==
  /\ Table(breaks, 0, FinalTime)
  /\ last_time \in Int /\ last_time <= FinalTime
  /\ target \in Int /\ target <= FinalTime
  /\ temp \in Int

LEMMA Numbers ==
  ASSUME StepInv
  PROVE  /\ CKTtime \in Int /\ CKTtime <= FinalTime
         /\ FinalTime \in Nat /\ MinBreak \in Nat /\ MaxStep \in Nat
         /\ Infinity \in Nat
         /\ \A t \in Requests : t \in Nat
         /\ breaks[1] \in Int /\ breaks[2] \in Int
<1>1. breaks[1] \in Int /\ breaks[2] \in Int
  BY LenProperties, ElementOfSeq DEF StepInv, Table
<1> QED
  BY <1>1, BreakAssumption, DCtranAssumption DEF StepInv, CKTtime, Infinity, Evt!Infinity

\* The step that is prepared ends at the next breakpoint or before.
LEMMA StepWithinBreak ==
  ASSUME StepInv, NEW delta \in 1 .. MaxStep, StartStep(delta)
  PROVE  /\ Table(breaks', 0, FinalTime)
         /\ target' \in Int /\ target' <= breaks'[1] /\ target' <= FinalTime
<1> DEFINE now == CKTtime
           d1 == AfterBreak(delta)
           d2 == CutToTemp(d1)
           b == breaks'[1]
<1>1. /\ now \in Int /\ now <= FinalTime /\ FinalTime \in Nat
      /\ breaks[1] \in Int /\ breaks[2] \in Int /\ temp \in Int /\ delta \in Int
      /\ Table(breaks, 0, FinalTime)
  BY Numbers DEF StepInv
<1>2. breaks' = ThrowOut(breaks) /\ target' = now + Hit(d2, b)
  BY DEF StartStep
<1>3. Table(breaks', 0, FinalTime) /\ (b > now \/ b = FinalTime)
  BY <1>1, <1>2, ThrowOutTable
<1>4. b \in Int /\ b <= FinalTime
  BY <1>3, LenProperties, ElementOfSeq DEF Table
<1>5. d1 \in Int
  BY <1>1 DEF AfterBreak
<1>6. d2 \in Int
  BY <1>1, <1>5 DEF CutToTemp
<1>7. Hit(d2, b) \in Int /\ now + Hit(d2, b) <= b
  <2> HIDE DEF d2, b
  <2>1. now <= b
    BY <1>1, <1>3, <1>4
  <2>2. (b - now + 1) \div 2 \in Int /\ (b - now + 1) \div 2 <= b - now
    BY <1>1, <1>4, <2>1
  <2> QED BY <1>1, <1>4, <1>6, <2>1, <2>2 DEF Hit
<1> QED BY <1>1, <1>2, <1>3, <1>4, <1>7

LEMMA RetryTarget ==
  ASSUME StepInv, NEW delta \in Int, delta < target - last_time \/ delta = 0,
         RetryOrFail(delta)
  PROVE  /\ breaks' = breaks /\ last_time' = last_time /\ temp' \in Int
         /\ target' \in Int /\ target' <= target
<1>1. temp \in Int /\ target \in Int /\ last_time \in Int /\ Infinity \in Int
  BY Numbers DEF StepInv
<1>2. CASE delta > 1 \/ target - last_time > 1
  <2>1. Retry(IF delta <= 1 THEN 1 ELSE delta)
    BY <1>2 DEF RetryOrFail
  <2>2. /\ breaks' = breaks /\ last_time' = last_time /\ temp' = Infinity
        /\ target' = last_time + (IF delta <= 1 THEN 1 ELSE delta)
    BY <2>1 DEF Retry, Evt!EVTbackup_inst_queue
  <2> QED BY <1>1, <1>2, <2>2
<1>3. CASE ~ (delta > 1 \/ target - last_time > 1)
  BY <1>1, <1>3 DEF RetryOrFail, queue
<1> QED BY <1>2, <1>3

LEMMA StepInvInit == Init => StepInv
<1> SUFFICES ASSUME Init PROVE StepInv
  OBVIOUS
<1>1. /\ breaks = <<0, FinalTime>> /\ temp = Infinity
      /\ last_time = 0 /\ target = 0 /\ FinalTime \in Nat /\ Infinity \in Nat
  BY BreakAssumption, DCtranAssumption DEF Init, Evt!Init, Infinity, Evt!Infinity
<1>2. Table(breaks, 0, FinalTime)
  BY <1>1 DEF Table, Ordered
<1> QED BY <1>1, <1>2 DEF StepInv

\* A request adds to the table, or to the temporary breakpoint.
LEMMA RequestInv ==
  ASSUME StepInv, NoLateRequest, NEW t \in Requests,
         UNCHANGED <<last_time, target>>,
         (SetBreak(t) /\ temp' = temp) \/ (SetTemp(t) /\ breaks' = breaks)
  PROVE  StepInv'
<1>1. t \in Int /\ 0 <= t /\ t <= FinalTime /\ CKTtime \in Int /\ FinalTime \in Int
  BY Numbers DEF NoLateRequest
<1>2. CASE SetBreak(t) /\ temp' = temp
  <2>1. Table(breaks', 0, FinalTime)
    BY <1>1, <1>2, SetBreakTable DEF SetBreak, StepInv
  <2> QED BY <1>2, <2>1 DEF StepInv
<1>3. CASE SetTemp(t) /\ breaks' = breaks
  BY <1>1, <1>3 DEF SetTemp, StepInv
<1> QED BY <1>2, <1>3

\* Every step keeps the invariant.
LEMMA StepInvNext ==
  ASSUME StepInv, NoLateRequest, [Next]_vars
  PROVE  StepInv'
<1> USE DEF StepInv
<1>1. /\ CKTtime \in Int /\ CKTtime <= FinalTime /\ FinalTime \in Nat /\ Infinity \in Nat
      /\ breaks[1] \in Int /\ \A t \in Requests : t \in Nat
  BY Numbers
<1>2. CASE NextTime
  <2>1. Table(CKTclrBreak(breaks), 0, FinalTime)
    <3>1. 1 \in 0 .. Len(breaks) /\ 0 <= FinalTime
      BY <1>1, LenProperties DEF Table
    <3> QED BY <3>1, ClrBreaksTable DEF CKTclrBreak
  <2> QED BY <1>1, <1>2, <2>1 DEF NextTime, Evt!EVTaccept_inst
<1>3. CASE EventRound
  <2>1. last_time' = last_time /\ target' = target /\ breaks' = breaks /\ temp' = Infinity
    BY <1>3 DEF EventRound, Evt!EVTdequeue_inst, Evt!queue
  <2> QED BY <1>1, <2>1
<1>4. CASE EndRound
  BY <1>1, <1>4 DEF EndRound, queue
<1>5. CASE Solve
  BY <1>1, <1>5 DEF Solve, queue
<1>6. CASE PastBreakpoint
  BY <1>1, <1>6, RetryTarget DEF PastBreakpoint
<1>7. CASE Converged
  BY <1>7 DEF Converged, queue
<1>8. ASSUME NEW delta \in 1 .. MaxStep, StartStep(delta) PROVE StepInv'
  BY <1>8, StepWithinBreak DEF StartStep, queue
<1>9. ASSUME NEW delta \in 0 .. MaxStep, Reject(delta) PROVE StepInv'
  BY <1>1, <1>9, RetryTarget DEF Reject
<1>10. ASSUME NEW i \in Insts, EVTload(i) PROVE StepInv'
  BY <1>10 DEF EVTload, Evt!EVTload, Evt!queue
<1>11. ASSUME NEW i \in Insts, NEW t \in Events, cm_event_queue(i, t) PROVE StepInv'
  BY <1>11 DEF cm_event_queue, Evt!cm_event_queue, Evt!EVTqueue_inst
<1>12. ASSUME NEW t \in Requests,
              \/ DeviceBreak(t) \/ UserBreak(t)
              \/ cm_analog_set_temp_bkpt(t) \/ cm_analog_set_perm_bkpt(t)
       PROVE  StepInv'
  <2>1. /\ UNCHANGED <<last_time, target>>
        /\ (SetBreak(t) /\ temp' = temp) \/ (SetTemp(t) /\ breaks' = breaks)
    BY <1>12 DEF DeviceBreak, UserBreak, cm_analog_set_temp_bkpt,
                 cm_analog_set_perm_bkpt, queue
  <2> HIDE DEF StepInv
  <2> QED BY <2>1, RequestInv
<1>13. CASE Resume
  BY <1>13 DEF Resume, queue
<1>14. CASE UNCHANGED vars
  BY <1>14 DEF vars, queue
<1> QED
  BY <1>2, <1>3, <1>4, <1>5, <1>6, <1>7, <1>8, <1>9, <1>10, <1>11, <1>12, <1>13, <1>14
    DEF Next, Step, User

\* When nothing is requested for later than the final time, the breakpoint table
\* stays in order (cktsetbk.c, cktclrbk.c) whatever is requested when, however
\* close together, and in however many steps: DCtran may look at its first entry
\* only.
THEOREM TableStaysOrdered ==
  ASSUME NoLateRequest
  PROVE  Spec => []TableOrdered
<1>1. StepInv => TableOrdered
  BY DEF StepInv, Table, TableOrdered
<1> QED
  BY <1>1, StepInvInit, StepInvNext, PTL DEF Spec

\* Under the same condition no step of DCtran is prepared, tried or accepted
\* beyond the final time.
THEOREM NeverBeyondFinalTime ==
  ASSUME NoLateRequest
  PROVE  Spec => []FinalTimeKept
<1>1. StepInv => FinalTimeKept
  BY DEF StepInv, FinalTimeKept
<1> QED
  BY <1>1, StepInvInit, StepInvNext, PTL DEF Spec

-----------------------------------------------------------------------------
(* No breakpoint is stepped over.                                           *)

\* From the choice of a step to the timepoint it reaches, the table holds nothing
\* before that timepoint.
AheadInv ==
  /\ StepInv
  /\ pc \in {"loop", "iter", "solve", "reached"} => Table(breaks, target, FinalTime)

\* A table from whose first entry on nothing is before low.
LEMMA RaiseLow ==
  ASSUME NEW b, NEW low \in Int, NEW high \in Int, NEW t \in Int,
         Table(b, low, high), t <= b[1]
  PROVE  Table(b, t, high)
<1>1. /\ Len(b) \in Nat /\ Len(b) >= 2
      /\ \A k \in 1 .. Len(b) : b[k] \in Int
  BY LenProperties, ElementOfSeq DEF Table
<1>2. \A k \in 1 .. Len(b) : b[1] <= b[k]
  BY <1>1 DEF Table, Ordered
<1>3. \A k \in 1 .. Len(b) : t <= b[k]
  BY <1>1, <1>2
<1> QED BY <1>3 DEF Table

LEMMA LowerLow ==
  ASSUME NEW b, NEW low \in Int, NEW high \in Int, NEW t \in Int,
         Table(b, low, high), t <= low
  PROVE  Table(b, t, high)
<1>1. \A k \in 1 .. Len(b) : b[k] \in Int
  BY LenProperties, ElementOfSeq DEF Table
<1> QED BY <1>1 DEF Table

\* Every step keeps it, when event-driven instances ask for no breakpoints.
LEMMA AheadNext ==
  ASSUME AheadInv, NoLateRequest, AskIn \subseteq {"solve"}, [Next]_vars
  PROVE  AheadInv'
<1> DEFINE under == pc \in {"loop", "iter", "solve", "reached"}
<1>1. StepInv /\ StepInv'
  BY StepInvNext DEF AheadInv
<1>2. /\ CKTtime \in Int /\ FinalTime \in Nat /\ MinBreak \in Nat
      /\ \A t \in Requests : t \in Int /\ t <= FinalTime
      /\ target \in Int /\ last_time \in Int /\ temp \in Int /\ target' \in Int
  BY <1>1, Numbers DEF NoLateRequest, StepInv
<1>3. under => Table(breaks, target, FinalTime)
  BY DEF AheadInv
<1> SUFFICES ASSUME under' PROVE Table(breaks', target', FinalTime)
  BY <1>1 DEF AheadInv
<1>4. ASSUME under, breaks' = breaks, target' <= target
      PROVE  Table(breaks', target', FinalTime)
  BY <1>2, <1>3, <1>4, LowerLow
<1>5. ASSUME under, target' = target, NEW t \in Requests, target <= t, SetBreak(t)
      PROVE  Table(breaks', target', FinalTime)
  BY <1>2, <1>3, <1>5, SetBreakTable DEF SetBreak
<1>6. CASE NextTime
  BY <1>6 DEF NextTime
<1>7. CASE EventRound \/ Solve \/ Converged
  BY <1>2, <1>4, <1>7 DEF EventRound, Solve, Converged
<1>8. CASE EndRound
  <2>1. under /\ breaks' = breaks /\ (target' = target \/ target' < target)
    BY <1>8 DEF EndRound
  <2> QED BY <1>2, <1>4, <2>1
<1>9. CASE PastBreakpoint
  BY <1>1, <1>2, <1>4, <1>9, RetryTarget DEF PastBreakpoint
<1>10. ASSUME NEW delta \in 1 .. MaxStep, StartStep(delta)
       PROVE  Table(breaks', target', FinalTime)
  BY <1>1, <1>2, <1>10, StepWithinBreak, RaiseLow
<1>11. ASSUME NEW delta \in 0 .. MaxStep, Reject(delta)
       PROVE  Table(breaks', target', FinalTime)
  BY <1>1, <1>2, <1>4, <1>11, RetryTarget DEF Reject
<1>12. ASSUME NEW i \in Insts, EVTload(i) PROVE Table(breaks', target', FinalTime)
  BY <1>2, <1>4, <1>12 DEF EVTload, Evt!EVTload
<1>13. ASSUME NEW i \in Insts, NEW t \in Events, cm_event_queue(i, t)
       PROVE  Table(breaks', target', FinalTime)
  BY <1>2, <1>4, <1>13 DEF cm_event_queue, Evt!cm_event_queue
<1>14. ASSUME NEW t \in Requests, DeviceBreak(t)
       PROVE  Table(breaks', target', FinalTime)
  BY <1>5, <1>14 DEF DeviceBreak, CKTtime
<1>15. ASSUME NEW t \in Requests, UserBreak(t) \/ Resume
       PROVE  Table(breaks', target', FinalTime)
  BY <1>15 DEF UserBreak, Resume
<1>16. ASSUME NEW t \in Requests, cm_analog_set_temp_bkpt(t)
       PROVE  Table(breaks', target', FinalTime)
  BY <1>2, <1>4, <1>16 DEF cm_analog_set_temp_bkpt
<1>17. ASSUME NEW t \in Requests, cm_analog_set_perm_bkpt(t)
       PROVE  Table(breaks', target', FinalTime)
  <2>1. pc = "solve" /\ CKTtime = target /\ target' = target /\ under
    BY <1>17 DEF cm_analog_set_perm_bkpt, ModelCalled, CKTtime
  <2>2. CASE t < CKTtime + MinBreak
    BY <1>2, <1>4, <1>17, <2>1, <2>2 DEF cm_analog_set_perm_bkpt
  <2>3. CASE ~ (t < CKTtime + MinBreak)
    BY <1>2, <1>5, <1>17, <2>1, <2>3 DEF cm_analog_set_perm_bkpt
  <2> QED BY <2>2, <2>3
<1>18. CASE Resume
  BY <1>18 DEF Resume
<1>19. CASE UNCHANGED vars
  BY <1>2, <1>4, <1>19 DEF vars
<1> QED
  BY <1>6, <1>7, <1>8, <1>9, <1>10, <1>11, <1>12, <1>13, <1>14, <1>15, <1>16, <1>17,
     <1>18, <1>19 DEF Next, Step, User

\* When only devices, hybrids and the user ask for breakpoints, DCtran steps over
\* none of them: no timepoint is reached while an earlier breakpoint is in the
\* table.
THEOREM NoneSteppedOver ==
  ASSUME NoLateRequest, AskIn \subseteq {"solve"}
  PROVE  Spec => []NoBreakSteppedOver
<1>1. Init => AheadInv
  <2> SUFFICES ASSUME Init PROVE AheadInv
    OBVIOUS
  <2>1. StepInv /\ target = 0
    BY StepInvInit DEF Init, Evt!Init
  <2> QED BY <2>1 DEF AheadInv, StepInv
<1>2. AheadInv => NoBreakSteppedOver
  <2> SUFFICES ASSUME AheadInv, pc = "reached", NEW k \in 1 .. Len(breaks)
               PROVE  ~ breaks[k] < target
    BY DEF NoBreakSteppedOver
  <2>1. target \in Int /\ Table(breaks, target, FinalTime)
    BY DEF AheadInv, StepInv
  <2>2. breaks[k] \in Int /\ target <= breaks[k]
    BY <2>1, ElementOfSeq DEF Table
  <2> QED BY <2>1, <2>2
<1> QED
  BY <1>1, <1>2, AheadNext, PTL DEF Spec

-----------------------------------------------------------------------------
(* Time goes forward.                                                       *)

\* Breakpoints are requested at distances of more than CKTminBreak, from each
\* other and from the final time, and "indistinguishably close" is equal.
Apart ==
  /\ NoLateRequest
  /\ MinBreak >= 1 /\ Indistinct = 0
  /\ \A t, u \in Requests \cup {FinalTime} : t < u => u - t > MinBreak

\* A table with no two equal entries but the final time.
Distinct(b) ==
  /\ \A k \in 1 .. Len(b) : b[k] \in Requests \cup {0, FinalTime}
  /\ \A j, k \in 1 .. Len(b) : j < k => b[j] < b[k] \/ b[j] = FinalTime

\* CKTsetBreak does not replace an entry, and inserts none that is there.
LEMMA SetBreakDistinct ==
  ASSUME Apart, NEW b, Table(b, 0, FinalTime), Distinct(b), NEW now \in Int,
         NEW time \in Requests
  PROVE  Distinct(CKTsetBreak(b, now, time))
<1> DEFINE i == Passed(b, time)
           n == Len(b)
           c == Insert(b, i, time)
<1>1. /\ b \in Seq(Int) /\ n \in Nat /\ time \in Int /\ 0 < time /\ time <= FinalTime
      /\ \A j, k \in 1 .. n : j <= k => b[j] <= b[k]
      /\ \A k \in 1 .. n : b[k] \in Int /\ b[k] <= FinalTime
  BY LenProperties, ElementOfSeq, DCtranAssumption DEF Table, Ordered, Apart, NoLateRequest
<1>2. /\ i \in 1 .. n + 1
      /\ i <= n => b[i] > time
      /\ \A j \in 1 .. i - 1 : b[j] <= time
  BY <1>1, PassedIsFirst
<1>3. /\ \A k \in 1 .. n : b[k] \in Requests \cup {0, FinalTime}
      /\ \A j, k \in 1 .. n : j < k => b[j] < b[k] \/ b[j] = FinalTime
  BY DEF Distinct
<1>4. MinBreak \in Int /\ MinBreak >= 1
  BY BreakAssumption DEF Apart
<1> HIDE DEF i, n
<1>5. ASSUME i <= n PROVE ~ (b[i] - time <= MinBreak)
  <2>1. i \in 1 .. n /\ b[i] \in Int /\ time < b[i] /\ b[i] # 0
    BY <1>1, <1>2, <1>5
  <2>2. b[i] - time > MinBreak
    BY <1>3, <2>1 DEF Apart
  <2> QED BY <1>1, <1>4, <2>1, <2>2
<1>6. \/ CKTsetBreak(b, now, time) = b
      \/ /\ CKTsetBreak(b, now, time) = c
         /\ i > 1 => ~ (time - b[i - 1] <= MinBreak)
  BY <1>5 DEF CKTsetBreak, i, n
<1>7. ASSUME i > 1 => ~ (time - b[i - 1] <= MinBreak) PROVE Distinct(c)
  <2>1. /\ Len(c) = n + 1
        /\ \A k \in 1 .. n + 1 : c[k] = IF k < i THEN b[k]
                                        ELSE IF k = i THEN time ELSE b[k - 1]
    <3>1. i \in 1 .. Len(b) + 1 /\ b \in Seq(Int)
      BY <1>1, <1>2 DEF n
    <3>2. Inserted(b, c, i, time)
      BY <1>1, <3>1, InsertEntries
    <3> QED BY <3>2 DEF Inserted, n
  <2> HIDE DEF c
  <2>2. ASSUME NEW j \in 1 .. i - 1 PROVE b[j] < time
    <3>1. j \in 1 .. n /\ i - 1 \in 1 .. n /\ j <= i - 1 /\ i > 1 /\ i - 1 \in 1 .. i - 1
      BY <1>1, <1>2
    <3>2. b[j] <= b[i - 1] /\ b[i - 1] <= time /\ b[j] \in Int /\ b[i - 1] \in Int
      BY <1>1, <1>2, <3>1
    <3> QED BY <1>1, <1>4, <1>7, <3>1, <3>2
  <2>3. ASSUME NEW j \in i .. n PROVE time < b[j]
    <3>1. j \in 1 .. n /\ i \in 1 .. n /\ i <= j
      BY <1>1, <1>2
    <3>2. time < b[i] /\ b[i] <= b[j] /\ b[i] \in Int /\ b[j] \in Int
      BY <1>1, <1>2, <3>1
    <3> QED BY <1>1, <3>2
  <2>4. ASSUME NEW k \in 1 .. n + 1
        PROVE  \/ k < i /\ k \in 1 .. n /\ k \in 1 .. i - 1 /\ c[k] = b[k]
               \/ k = i /\ c[k] = time
               \/ i < k /\ k - 1 \in 1 .. n /\ k - 1 \in i .. n /\ c[k] = b[k - 1]
    BY <1>1, <1>2, <2>1
  <2>5. \A k \in 1 .. n + 1 : c[k] \in Requests \cup {0, FinalTime}
    BY <1>3, <2>4
  <2>6. ASSUME NEW j \in 1 .. n + 1, NEW k \in 1 .. n + 1, j < k
        PROVE  c[j] < c[k] \/ c[j] = FinalTime
    <3>1. i \in Int
      BY <1>1, <1>2
    <3>2. CASE k < i
      <4>1. c[j] = b[j] /\ c[k] = b[k] /\ j \in 1 .. n /\ k \in 1 .. n
        BY <2>4, <2>6, <3>1, <3>2
      <4> QED BY <1>3, <2>6, <4>1
    <3>3. CASE k = i
      <4>1. c[j] = b[j] /\ c[k] = time /\ j \in 1 .. i - 1
        BY <2>4, <2>6, <3>1, <3>3
      <4> QED BY <2>2, <4>1
    <3>4. CASE i < k
      <4>1. c[k] = b[k - 1] /\ k - 1 \in 1 .. n /\ k - 1 \in i .. n
        BY <2>4, <3>1, <3>4
      <4>2. CASE j < i
        <5>1. c[j] = b[j] /\ j \in 1 .. n /\ j < k - 1
          BY <2>4, <3>1, <4>1, <4>2
        <5> QED BY <1>3, <4>1, <5>1
      <4>3. CASE j = i
        BY <2>3, <2>4, <3>1, <4>1, <4>3
      <4>4. CASE i < j
        <5>1. c[j] = b[j - 1] /\ j - 1 \in 1 .. n /\ j - 1 < k - 1
          BY <2>4, <2>6, <3>1, <4>4
        <5> QED BY <1>3, <4>1, <5>1
      <4> QED BY <3>1, <4>2, <4>3, <4>4
    <3> QED BY <3>1, <3>2, <3>3, <3>4
  <2> QED BY <2>1, <2>5, <2>6 DEF Distinct
<1> QED BY <1>6, <1>7

LEMMA ClrBreaksDistinct ==
  ASSUME NEW b, Table(b, 0, FinalTime), Distinct(b), NEW k \in 0 .. Len(b)
  PROVE  Distinct(CKTclrBreaks(b, k))
<1> DEFINE n == Len(b)
           x == Refilled(b)
           c == CKTclrBreaks(b, k)
<1>1. n \in Nat /\ k \in Nat /\ 0 <= FinalTime /\ FinalTime \in Int
  BY LenProperties, BreakAssumption DEF Table
<1>2. /\ \A j \in 1 .. n : x[j] = b[j]
      /\ \A j \in n + 1 .. n + 2 : x[j] = FinalTime
      /\ \A j \in 1 .. n + 2 : x[j] \in Int /\ x[j] <= FinalTime
  BY <1>1, RefilledEntries
<1>3. /\ Len(c) \in Nat
      /\ \A j \in 1 .. Len(c) : k + j \in 1 .. n + 2 /\ c[j] = x[k + j]
  BY <1>1, ClrBreaksEntries, LenProperties DEF Shifted
<1>4. /\ \A j \in 1 .. n : b[j] \in Requests \cup {0, FinalTime}
      /\ \A i, j \in 1 .. n : i < j => b[i] < b[j] \/ b[i] = FinalTime
  BY DEF Distinct
<1> HIDE DEF n, x, c
<1>5. \A j \in 1 .. n + 2 : j \in 1 .. n \/ j \in n + 1 .. n + 2
  BY <1>1
<1>6. \A j \in 1 .. n + 2 : x[j] \in Requests \cup {0, FinalTime}
  BY <1>2, <1>4, <1>5
<1>7. ASSUME NEW i \in 1 .. n + 2, NEW j \in 1 .. n + 2, i < j
      PROVE  x[i] < x[j] \/ x[i] = FinalTime
  <2>1. CASE j \in 1 .. n
    <3>1. i \in 1 .. n
      BY <1>1, <1>7, <2>1
    <3> QED BY <1>2, <1>4, <1>7, <2>1, <3>1
  <2>2. CASE j \in n + 1 .. n + 2
    BY <1>1, <1>2, <2>2
  <2> QED BY <1>5, <2>1, <2>2
<1>8. ASSUME NEW i \in 1 .. Len(c), NEW j \in 1 .. Len(c), i < j
      PROVE  c[i] < c[j] \/ c[i] = FinalTime
  <2>1. k + i < k + j
    BY <1>1, <1>3, <1>8
  <2> QED BY <1>3, <1>7, <2>1
<1>9. \A j \in 1 .. Len(c) : c[j] \in Requests \cup {0, FinalTime}
  BY <1>3, <1>6
<1> QED BY <1>8, <1>9 DEF Distinct, c

\* What time going forward rests on: a temporary breakpoint that is left when a
\* timepoint is reached lies after it, and no step begins at the final time.
ForwardInv ==
  /\ StepInv /\ Distinct(breaks)
  /\ StepForward
  /\ pc \in {"paused", "resume"} => last_time < FinalTime /\ last_time < temp
  /\ pc = "solve" => temp # target
  /\ pc = "reached" => target < temp

\* The step that is prepared leads forward.
LEMMA StepLeadsForward ==
  ASSUME ForwardInv, Apart, NEW delta \in 1 .. MaxStep, StartStep(delta)
  PROVE  target' > last_time
<1> DEFINE now == CKTtime
           b == breaks'[1]
           gap == breaks[2] - breaks[1]
           d1 == AfterBreak(delta)
           d2 == CutToTemp(d1)
<1>1. /\ pc = "resume" /\ now = last_time /\ now < FinalTime /\ now < temp
      /\ breaks' = ThrowOut(breaks) /\ target' = now + Hit(d2, b)
  BY DEF StartStep, CKTtime, ForwardInv
<1>2. /\ now \in Int /\ FinalTime \in Int /\ temp \in Int /\ delta \in Int /\ delta >= 1
      /\ breaks[1] \in Int /\ breaks[2] \in Int /\ StepInv /\ Indistinct = 0
      /\ Table(breaks, 0, FinalTime) /\ 0 <= FinalTime
  BY Numbers DEF ForwardInv, StepInv, Apart
<1>3. b \in Int /\ now < b
  <2>1. Table(breaks', 0, FinalTime) /\ (b > now \/ b = FinalTime)
    BY <1>1, <1>2, ThrowOutTable
  <2>2. b \in Int
    BY <2>1, LenProperties, ElementOfSeq DEF Table
  <2> QED BY <1>1, <2>1, <2>2
<1>4. breaks[1] <= now => gap >= 1
  <2>1. 1 \in 1 .. Len(breaks) /\ 2 \in 1 .. Len(breaks)
    BY <1>2, LenProperties DEF Table
  <2>2. breaks[1] < breaks[2] \/ breaks[1] = FinalTime
    BY <2>1 DEF ForwardInv, Distinct
  <2> QED BY <1>1, <1>2, <2>2
<1>5. d1 \in Int /\ d1 >= 1
  <2>1. gap \in Int
    BY <1>2
  <2> DEFINE less == IF gap > 0 THEN (gap + 9) \div 10 ELSE gap
  <2>2. d1 = IF now = breaks[1] \/ breaks[1] - now <= 0
             THEN IF less < delta THEN less ELSE delta
             ELSE delta
    BY <1>2 DEF AfterBreak
  <2> HIDE DEF gap, d1, now
  <2>3. gap >= 1 => (gap + 9) \div 10 \in Int /\ (gap + 9) \div 10 >= 1
    BY <2>1
  <2>4. breaks[1] <= now => less \in Int /\ less >= 1
    BY <1>4, <2>1, <2>3
  <2> HIDE DEF less
  <2>5. now = breaks[1] \/ breaks[1] - now <= 0 => breaks[1] <= now
    BY <1>2
  <2> QED BY <1>2, <2>2, <2>4, <2>5
<1>6. d2 \in Int /\ d2 >= 1
  <2> HIDE DEF d1
  <2>1. d2 = IF now + d1 >= temp THEN temp - now ELSE d1
    BY DEF CutToTemp
  <2> QED BY <1>1, <1>2, <1>5, <2>1
<1>7. Hit(d2, b) \in Int /\ Hit(d2, b) >= 1
  <2> HIDE DEF d2, b, now
  <2>1. (b - now + 1) \div 2 \in Int /\ (b - now + 1) \div 2 >= 1
    BY <1>2, <1>3
  <2>2. Hit(d2, b) = IF now + d2 > b THEN b - now
                     ELSE IF 19 * d2 > 10 * (b - now) THEN (b - now + 1) \div 2
                     ELSE d2
    BY DEF Hit, now
  <2> QED BY <1>2, <1>3, <1>6, <2>1, <2>2
<1> QED BY <1>1, <1>2, <1>7

\* A step is tried again with a smaller target that still leads forward, or the
\* analysis gives up.
LEMMA RetryForward ==
  ASSUME StepInv, pc = "solve", last_time < target, NEW delta \in Int,
         delta < target - last_time \/ delta = 0, RetryOrFail(delta)
  PROVE  /\ breaks' = breaks /\ last_time' = last_time
         /\ \/ /\ pc' = "solve" /\ temp' = Infinity
               /\ target' \in Int /\ last_time < target' /\ target' < target
               /\ evt_step' = target' /\ to_call' = to_call
               /\ Evt!EVTbackup_inst_queue(target')
            \/ /\ pc' = "failed"
               /\ UNCHANGED <<queue, to_call, evt_step, target>>
<1>1. target \in Int /\ last_time \in Int
  BY DEF StepInv
<1>2. CASE delta > 1 \/ target - last_time > 1
  <2> DEFINE d == IF delta <= 1 THEN 1 ELSE delta
  <2>1. Retry(d)
    BY <1>2 DEF RetryOrFail
  <2>2. d \in Int /\ d >= 1 /\ last_time + d < target
    BY <1>1, <1>2
  <2>3. /\ breaks' = breaks /\ temp' = Infinity /\ pc' = pc /\ to_call' = to_call
        /\ target' = last_time + d /\ evt_step' = target'
        /\ Evt!EVTbackup_inst_queue(target')
    BY <2>1 DEF Retry
  <2>4. last_time' = last_time
    BY <2>3 DEF Evt!EVTbackup_inst_queue
  <2> HIDE DEF d
  <2>5. target' \in Int /\ last_time < target' /\ target' < target
    BY <1>1, <2>2, <2>3
  <2> QED BY <2>3, <2>4, <2>5
<1>3. CASE ~ (delta > 1 \/ target - last_time > 1)
  BY <1>3 DEF RetryOrFail, queue
<1> QED BY <1>2, <1>3

LEMMA ForwardNext ==
  ASSUME ForwardInv, Apart, [Next]_vars
  PROVE  ForwardInv'
<1>1. StepInv /\ StepInv' /\ Distinct(breaks) /\ Table(breaks, 0, FinalTime)
  BY StepInvNext DEF ForwardInv, Apart, StepInv
<1>2. /\ last_time \in Int /\ target \in Int /\ temp \in Int /\ CKTtime \in Int
      /\ target <= FinalTime /\ FinalTime \in Int /\ MinBreak \in Int /\ MinBreak >= 1
      /\ Infinity \in Int /\ FinalTime < Infinity /\ target' \in Int
      /\ \A t \in Requests : t \in Int
  BY <1>1, Numbers, DCtranAssumption DEF StepInv, Apart, Infinity, Evt!Infinity
<1>3. /\ pc \in {"loop", "iter", "solve"} => last_time < target
      /\ pc \in {"paused", "resume"} => last_time < FinalTime /\ last_time < temp
      /\ pc = "solve" => temp # target
      /\ pc = "reached" => target < temp
  BY DEF ForwardInv, StepForward
<1>4. ASSUME Distinct(breaks'),
             pc' \in {"loop", "iter", "solve"} => target' > last_time',
             pc' \in {"paused", "resume"} => last_time' < FinalTime /\ last_time' < temp',
             pc' = "solve" => temp' # target',
             pc' = "reached" => target' < temp'
      PROVE  ForwardInv'
  BY <1>1, <1>4 DEF ForwardInv, StepForward
<1>5. CASE NextTime
  <2>1. 1 \in 0 .. Len(breaks) /\ 1 \in Int
    BY <1>1, LenProperties DEF Table
  <2>2. Distinct(breaks')
    BY <1>1, <1>5, <2>1, ClrBreaksDistinct DEF NextTime, CKTclrBreak
  <2>3. /\ last_time' = target /\ temp' = temp /\ pc = "reached"
        /\ pc' \in {"done", "paused", "resume"}
        /\ pc' # "done" => target # FinalTime
    BY <1>5 DEF NextTime, Evt!EVTaccept_inst, CKTtime
  <2> QED BY <1>2, <1>3, <1>4, <2>2, <2>3
<1>6. CASE EventRound
  <2>1. /\ pc = "loop" /\ pc' = "iter" /\ target' = target /\ breaks' = breaks
        /\ last_time' = last_time
    BY <1>6 DEF EventRound, Evt!EVTdequeue_inst, Evt!queue
  <2> QED BY <1>1, <1>3, <1>4, <2>1
<1>7. CASE EndRound
  <2>1. /\ pc = "iter" /\ pc' = "loop" /\ breaks' = breaks /\ last_time' = last_time
        /\ target' = target \/ target' > CKTtime + MinBreak
    BY <1>7 DEF EndRound, queue
  <2>2. CKTtime = last_time
    BY <2>1 DEF CKTtime
  <2>3. last_time < target'
    BY <1>2, <1>3, <2>1, <2>2
  <2> QED BY <1>1, <1>2, <1>4, <2>1, <2>3
<1>8. CASE Solve
  <2>1. /\ pc = "loop" /\ pc' = "solve" /\ breaks' = breaks /\ target' = target
        /\ temp' = Infinity /\ last_time' = last_time
    BY <1>8 DEF Solve, queue
  <2> QED BY <1>1, <1>2, <1>3, <1>4, <2>1
<1>9. ASSUME NEW delta \in Int, delta < target - last_time \/ delta = 0,
             pc = "solve", RetryOrFail(delta)
      PROVE  ForwardInv'
  <2>1. /\ breaks' = breaks /\ last_time' = last_time
        /\ \/ /\ pc' = "solve" /\ temp' = Infinity
              /\ last_time < target' /\ target' < target
           \/ pc' = "failed"
    BY <1>1, <1>3, <1>9, RetryForward
  <2> QED BY <1>1, <1>2, <1>4, <2>1
<1>10. CASE PastBreakpoint
  <2>1. /\ temp - last_time \in Int /\ temp - last_time < target - last_time
        /\ pc = "solve" /\ RetryOrFail(temp - last_time)
    BY <1>2, <1>10 DEF PastBreakpoint
  <2> QED BY <1>9, <2>1
<1>11. ASSUME NEW delta \in 0 .. MaxStep, Reject(delta) PROVE ForwardInv'
  <2>1. delta \in Int
    BY Numbers, <1>1
  <2> QED BY <1>9, <1>11, <2>1 DEF Reject
<1>12. CASE Converged
  <2>1. /\ pc = "solve" /\ ~ temp < target /\ pc' = "reached"
        /\ UNCHANGED <<breaks, target, temp, last_time>>
    BY <1>12 DEF Converged, queue
  <2> QED BY <1>1, <1>2, <1>3, <1>4, <2>1
<1>13. ASSUME NEW delta \in 1 .. MaxStep, StartStep(delta) PROVE ForwardInv'
  <2>1. target' > last_time /\ last_time' = last_time /\ pc' = "loop"
    BY <1>13, StepLeadsForward DEF StartStep, queue
  <2>2. Distinct(breaks')
    <3>1. PICK k \in 0 .. Len(breaks) : breaks' = CKTclrBreaks(breaks, k)
      BY <1>1, <1>2, <1>13, ThrowOutTable, BreakAssumption DEF StartStep
    <3> QED BY <1>1, <3>1, ClrBreaksDistinct
  <2> QED BY <1>4, <2>1, <2>2
<1>14. ASSUME UNCHANGED <<breaks, target, temp, last_time, pc>> PROVE ForwardInv'
  BY <1>1, <1>3, <1>4, <1>14
<1>15. ASSUME NEW i \in Insts, EVTload(i) PROVE ForwardInv'
  BY <1>14, <1>15 DEF EVTload, Evt!EVTload, Evt!queue
<1>16. ASSUME NEW i \in Insts, NEW t \in Events, cm_event_queue(i, t) PROVE ForwardInv'
  BY <1>14, <1>16 DEF cm_event_queue, Evt!cm_event_queue, Evt!EVTqueue_inst
<1>17. CASE Resume
  <2>1. /\ pc = "paused" /\ pc' = "resume"
        /\ UNCHANGED <<breaks, target, temp, last_time>>
    BY <1>17 DEF Resume, queue
  <2> QED BY <1>1, <1>3, <1>4, <2>1
<1>18. ASSUME NEW t \in Requests, SetBreak(t),
              UNCHANGED <<target, temp, last_time, pc>>
       PROVE  ForwardInv'
  <2>1. Distinct(breaks')
    BY <1>1, <1>2, <1>18, SetBreakDistinct DEF SetBreak
  <2> QED BY <1>3, <1>4, <1>18, <2>1
<1>19. ASSUME NEW t \in Requests, DeviceBreak(t) \/ UserBreak(t) PROVE ForwardInv'
  BY <1>18, <1>19 DEF DeviceBreak, UserBreak, queue
<1>20. ASSUME NEW t \in Requests, ModelCalled, SetTemp(t),
              UNCHANGED <<breaks, target, last_time, pc>>
       PROVE  ForwardInv'
  <2>1. pc \in {"loop", "iter", "solve"}
    BY <1>20, DCtranAssumption DEF ModelCalled
  <2>2. pc = "solve" => temp' # target
    <3> SUFFICES ASSUME pc = "solve" PROVE temp' # target
      OBVIOUS
    <3>1. CKTtime = target
      BY DEF CKTtime
    <3>2. temp' = temp \/ (temp' = t /\ ~ Near(t, target))
      BY <1>20, <3>1 DEF SetTemp
    <3>3. ~ Near(t, target) => t # target
      BY <1>2 DEF Near
    <3> QED BY <1>3, <3>2, <3>3
  <2> QED BY <1>1, <1>3, <1>4, <1>20, <2>1, <2>2
<1>21. ASSUME NEW t \in Requests,
              cm_analog_set_temp_bkpt(t) \/ cm_analog_set_perm_bkpt(t)
       PROVE  ForwardInv'
  <2>1. /\ ModelCalled /\ UNCHANGED <<target, last_time, pc>>
        /\ (SetTemp(t) /\ breaks' = breaks) \/ (SetBreak(t) /\ temp' = temp)
    BY <1>21 DEF cm_analog_set_temp_bkpt, cm_analog_set_perm_bkpt, queue
  <2> QED BY <1>18, <1>20, <2>1
<1>22. CASE UNCHANGED vars
  BY <1>14, <1>22 DEF vars, queue
<1> QED
  BY <1>5, <1>6, <1>7, <1>8, <1>10, <1>11, <1>12, <1>13, <1>15, <1>16, <1>17, <1>19,
     <1>21, <1>22 DEF Next, Step, User

LEMMA ForwardInit == Init => ForwardInv
<1> SUFFICES ASSUME Init PROVE ForwardInv
  OBVIOUS
<1>1. /\ pc = "reached" /\ breaks = <<0, FinalTime>> /\ temp = Infinity /\ target = 0
      /\ StepInv /\ Infinity \in Int /\ 0 < Infinity
  BY StepInvInit, DCtranAssumption DEF Init, Evt!Init, Infinity, Evt!Infinity
<1>2. Distinct(breaks)
  <2>1. Len(breaks) = 2 /\ breaks[1] = 0 /\ breaks[2] = FinalTime /\ 0 < FinalTime
    BY <1>1, DCtranAssumption
  <2> QED BY <2>1 DEF Distinct
<1> QED BY <1>1, <1>2 DEF ForwardInv, StepForward

\* When breakpoints are requested at distances of more than CKTminBreak, every
\* step that DCtran prepares or tries leads past the last accepted timepoint.
THEOREM TimeGoesForward ==
  ASSUME Apart
  PROVE  Spec => []StepForward
<1>1. ForwardInv => StepForward
  BY DEF ForwardInv
<1> QED
  BY <1>1, ForwardInit, ForwardNext, PTL DEF Spec

-----------------------------------------------------------------------------
(* The loop keeps to the protocol of the event queue.                       *)

\* The theorems about the event queue on its own.
EvtP == INSTANCE EvtInstQueueProofs

\* They speak of the queue of this loop.
LEMMA SameQueue ==
  /\ Evt!Init <=> EvtP!Init
  /\ [Evt!Next]_(Evt!vars) <=> [EvtP!Next]_(EvtP!vars)
<1> USE DEF EvtP!Time, Evt!Time, EvtP!queue, Evt!queue, EvtP!Infinity, Evt!Infinity,
            EvtP!First, Evt!First, EvtP!Last, Evt!Last
<1>1. Evt!Init <=> EvtP!Init
  BY DEF Evt!Init, EvtP!Init, Evt!EmptyLists, EvtP!EmptyLists
<1>2. ASSUME NEW i, NEW t PROVE Evt!cm_event_queue(i, t) <=> EvtP!cm_event_queue(i, t)
  BY DEF Evt!cm_event_queue, EvtP!cm_event_queue, Evt!MayPost, EvtP!MayPost,
         Evt!EVTqueue_inst, EvtP!EVTqueue_inst
<1>3. ASSUME NEW i PROVE Evt!EVTload(i) <=> EvtP!EVTload(i)
  BY DEF Evt!EVTload, EvtP!EVTload
<1>4. ASSUME NEW is PROVE Evt!Compact(is) <=> EvtP!Compact(is)
  BY DEF Evt!Compact, EvtP!Compact, Evt!MinTime, EvtP!MinTime,
         Evt!NextTimes, EvtP!NextTimes
<1>5. ASSUME NEW t PROVE Evt!EventRound(t) <=> EvtP!EventRound(t)
  <2>1. Evt!Due(t) = EvtP!Due(t)
    BY DEF Evt!Due, EvtP!Due
  <2> QED
    BY <1>4, <2>1
    DEF Evt!EventRound, EvtP!EventRound, Evt!EVTdequeue_inst, EvtP!EVTdequeue_inst
<1>6. ASSUME NEW t PROVE Evt!EndRound(t) <=> EvtP!EndRound(t)
  BY DEF Evt!EndRound, EvtP!EndRound
<1>7. ASSUME NEW t PROVE Evt!StartStep(t) <=> EvtP!StartStep(t)
  BY DEF Evt!StartStep, EvtP!StartStep
<1>8. Evt!Solve <=> EvtP!Solve
  BY DEF Evt!Solve, EvtP!Solve
<1>9. Evt!Accept <=> EvtP!Accept
  BY DEF Evt!Accept, EvtP!Accept, Evt!EVTaccept_inst, EvtP!EVTaccept_inst
<1>10. ASSUME NEW t PROVE Evt!Backup(t) <=> EvtP!Backup(t)
  <2>1. \A i : Evt!StillModified(i) <=> EvtP!StillModified(i)
    BY DEF Evt!StillModified, EvtP!StillModified
  <2> QED
    BY <1>4, <2>1
    DEF Evt!Backup, EvtP!Backup, Evt!EVTbackup_inst_queue, EvtP!EVTbackup_inst_queue
<1>11. Evt!Next <=> EvtP!Next
  BY <1>2, <1>3, <1>5, <1>6, <1>7, <1>8, <1>9, <1>10 DEF Evt!Next, EvtP!Next
<1>12. UNCHANGED Evt!vars <=> UNCHANGED EvtP!vars
  BY DEF Evt!vars, EvtP!vars
<1> QED BY <1>1, <1>11, <1>12

\* The timestep loop and its event queue together.
LoopInv == ForwardInv /\ EvtP!IndInv

\* Every step of the loop is one of the steps the event queue allows, or does not
\* concern it.
LEMMA StepIsQueueStep ==
  ASSUME LoopInv, Apart, [Next]_vars
  PROVE  [EvtP!Next]_(EvtP!vars)
<1>1. /\ StepInv /\ StepInv' /\ ForwardInv /\ EvtP!IndInv
  BY StepInvNext DEF LoopInv, ForwardInv, Apart
<1>2. /\ last_time \in Int /\ target \in Int /\ CKTtime \in Int /\ FinalTime \in Int
      /\ MinBreak \in Nat /\ target' \in Int /\ target' <= FinalTime
      /\ target <= FinalTime /\ FinalTime <= MaxTime /\ MaxTime \in Int
      /\ EvtP!Time = 0 .. MaxTime
  BY <1>1, Numbers, DCtranAssumption, BreakAssumption DEF StepInv, EvtP!Time
<1>3. /\ last_time \in EvtP!Time /\ evt_step \in EvtP!Time
      /\ last_time <= evt_step /\ evt_step <= target
      /\ phase = "solve" => evt_step = target
      /\ \A i \in Insts : \A e \in todo[i] : e \in EvtP!Event /\ e.et > evt_step
      /\ pending # {} => \E i \in Insts : \E e \in todo[i] : e.et = next_time
  BY <1>1
  DEF EvtP!IndInv, EvtP!TypeOK, EvtP!StepOrder, EvtP!NoneBehind, EvtP!NextTimeExact
<1>4. last_time >= 0 /\ evt_step >= 0 /\ evt_step \in Int
  BY <1>2, <1>3
<1>5. pc \in {"loop", "iter", "solve"} => last_time < target
  BY <1>1 DEF ForwardInv, StepForward
<1> SUFFICES Evt!Next \/ UNCHANGED Evt!vars
  BY SameQueue
<1>6. CASE NextTime
  <2>1. Evt!Accept
    BY <1>6 DEF NextTime, Evt!Accept, phase, CKTtime
  <2> QED BY <2>1 DEF Evt!Next
<1>7. CASE EventRound
  <2>1. \E i \in Insts : \E e \in todo[i] : e.et = next_time
    BY <1>3, <1>7 DEF EventRound
  <2>2. next_time \in EvtP!Time /\ evt_step <= next_time
    BY <1>2, <1>3, <1>4, <2>1 DEF EvtP!Event
  <2>3. next_time <= next_time
    BY <1>2, <2>2
  <2>4. Evt!EventRound(next_time)
    BY <1>7, <2>2, <2>3 DEF EventRound, Evt!EventRound, phase
  <2> QED BY <2>2, <2>4 DEF Evt!Next, Evt!Time, EvtP!Time
<1>8. CASE EndRound
  <2>1. /\ pc = "iter" /\ pc' = "loop" /\ to_call = {}
        /\ UNCHANGED <<queue, to_call, evt_step>>
        /\ \/ target' = target
           \/ target' < target /\ target' > CKTtime + MinBreak /\ target' >= evt_step
    BY <1>8 DEF EndRound
  <2>2. CKTtime = last_time
    BY <2>1 DEF CKTtime
  <2>3. last_time < target' /\ evt_step <= target' /\ target' <= target
    BY <1>2, <1>3, <1>4, <1>5, <2>1, <2>2
  <2>4. target' \in Evt!Time
    BY <1>2, <1>4, <2>3 DEF Evt!Time
  <2>5. Evt!EndRound(target')
    BY <2>1, <2>3 DEF Evt!EndRound, phase, queue, Evt!queue
  <2> QED BY <2>4, <2>5 DEF Evt!Next
<1>9. CASE Solve
  <2>1. Evt!Solve
    BY <1>9 DEF Solve, Evt!Solve, phase, queue, Evt!queue
  <2> QED BY <2>1 DEF Evt!Next
<1>10. ASSUME NEW delta \in Int, delta < target - last_time \/ delta = 0,
              pc = "solve", RetryOrFail(delta)
       PROVE  Evt!Next \/ UNCHANGED Evt!vars
  <2>1. \/ /\ pc' = "solve"
           /\ target' \in Int /\ last_time < target' /\ target' < target
           /\ evt_step' = target' /\ to_call' = to_call
           /\ Evt!EVTbackup_inst_queue(target')
        \/ /\ pc' = "failed"
           /\ UNCHANGED <<queue, to_call, evt_step, target>>
    BY <1>1, <1>5, <1>10, RetryForward
  <2>2. phase = "solve" /\ phase' = phase
    BY <1>10, <2>1 DEF phase
  <2>3. CASE pc' = "solve" /\ Evt!EVTbackup_inst_queue(target')
             /\ last_time < target' /\ target' < target
             /\ evt_step' = target' /\ to_call' = to_call
    <3>1. Evt!Backup(target')
      BY <2>2, <2>3 DEF Evt!Backup
    <3>2. target' \in Evt!Time
      BY <1>2, <1>4, <2>3 DEF Evt!Time
    <3> QED BY <3>1, <3>2 DEF Evt!Next
  <2>4. CASE UNCHANGED <<queue, to_call, evt_step, target>>
    BY <2>2, <2>4 DEF Evt!vars, queue
  <2> QED BY <2>1, <2>3, <2>4
<1>11. CASE PastBreakpoint
  <2>1. /\ temp - last_time \in Int /\ temp - last_time < target - last_time
        /\ pc = "solve" /\ RetryOrFail(temp - last_time)
    BY <1>1, <1>2, <1>11 DEF PastBreakpoint, StepInv
  <2> QED BY <1>10, <2>1
<1>12. ASSUME NEW delta \in 0 .. MaxStep, Reject(delta)
       PROVE  Evt!Next \/ UNCHANGED Evt!vars
  <2>1. delta \in Int
    BY Numbers, <1>1
  <2> QED BY <1>10, <1>12, <2>1 DEF Reject
<1>13. ASSUME NEW delta \in 1 .. MaxStep, StartStep(delta)
       PROVE  Evt!Next \/ UNCHANGED Evt!vars
  <2>1. target' > last_time
    BY <1>1, <1>13, StepLeadsForward
  <2>2. Evt!StartStep(target')
    BY <1>13, <2>1 DEF StartStep, Evt!StartStep, phase, queue, Evt!queue
  <2>3. target' \in Evt!Time
    BY <1>2, <1>4, <2>1 DEF Evt!Time
  <2> QED BY <2>2, <2>3 DEF Evt!Next
<1>14. ASSUME NEW i \in Insts, EVTload(i) PROVE Evt!Next \/ UNCHANGED Evt!vars
  BY <1>14 DEF EVTload, Evt!Next
<1>15. ASSUME NEW i \in Insts, NEW t \in Events, cm_event_queue(i, t)
       PROVE  Evt!Next \/ UNCHANGED Evt!vars
  <2>1. t \in Evt!Time
    BY DCtranAssumption DEF Evt!Time
  <2> QED BY <1>15, <2>1 DEF cm_event_queue, Evt!Next
<1>16. ASSUME UNCHANGED <<queue, to_call, evt_step, target>>, phase' = phase
       PROVE  UNCHANGED Evt!vars
  BY <1>16 DEF Evt!vars, queue
<1>17. CASE Resume \/ Converged \/ UNCHANGED vars
  BY <1>16, <1>17 DEF Resume, Converged, vars, phase
<1>18. ASSUME NEW t \in Requests,
              \/ DeviceBreak(t) \/ UserBreak(t)
              \/ cm_analog_set_temp_bkpt(t) \/ cm_analog_set_perm_bkpt(t)
       PROVE  UNCHANGED Evt!vars
  BY <1>16, <1>18
  DEF DeviceBreak, UserBreak, cm_analog_set_temp_bkpt, cm_analog_set_perm_bkpt, phase
<1> QED
  BY <1>6, <1>7, <1>8, <1>9, <1>11, <1>12, <1>13, <1>14, <1>15, <1>17, <1>18
  DEF Next, Step, User

LEMMA LoopInit == Init => LoopInv
<1>1. Init => EvtP!Init
  BY SameQueue DEF Init
<1>2. MaxTime \in Nat
  BY DCtranAssumption
<1> QED BY <1>1, <1>2, ForwardInit, EvtP!InitInv DEF LoopInv

LEMMA LoopNext == ASSUME LoopInv, Apart, [Next]_vars PROVE LoopInv'
<1>1. MaxTime \in Nat
  BY DCtranAssumption
<1>2. EvtP!IndInv'
  BY <1>1, StepIsQueueStep, EvtP!StepInv DEF LoopInv
<1>3. ForwardInv'
  BY ForwardNext DEF LoopInv
<1> QED BY <1>2, <1>3 DEF LoopInv

\* The loop of DCtran keeps to the protocol that the promises of the event queue
\* rest on: what it calls, and when, is what EvtInstQueue allows its driver.
THEOREM LoopKeepsProtocol ==
  ASSUME Apart
  PROVE  Spec => KeepsQueueProtocol
<1>1. Init => Evt!Init
  BY DEF Init
<1>2. LoopInv /\ [Next]_vars => [Evt!Next]_(Evt!vars)
  BY StepIsQueueStep, SameQueue
<1> QED
  BY <1>1, <1>2, LoopInit, LoopNext, PTL DEF Spec, KeepsQueueProtocol, Evt!Spec

\* So DCtran never takes the analog solution past an event, and the cached
\* next_time that it aims at is exact, through all its retries and breakpoints.
THEOREM NoEventPassedInLoop ==
  ASSUME Apart
  PROVE  Spec => [](Evt!NoneBehind /\ Evt!NextTimeExact)
<1>1. LoopInv => Evt!NoneBehind /\ Evt!NextTimeExact
  BY DEF LoopInv, EvtP!IndInv, EvtP!NoneBehind, EvtP!NextTimeExact,
         Evt!NoneBehind, Evt!NextTimeExact
<1> QED
  BY <1>1, LoopInit, LoopNext, PTL DEF Spec

-----------------------------------------------------------------------------
(* No breakpoint is stepped over that the event loop asks for.              *)

\* CKTtime + CKTminBreak in the event loop: EndRound cuts the step to a breakpoint
\* after it, cm_analog_set_temp_bkpt accepts one that is not before it.
Margin == last_time + MinBreak

\* No instance asks for a breakpoint at that very time.
NoneAtMargin ==
  pc = "iter" /\ Margin < target =>
    temp # Margin /\ \A k \in 1 .. Len(breaks) : breaks[k] # Margin

\* No time before this one is asked for in the event loop, or there is no need to
\* cut the step to it.
Low == IF target < Margin THEN target ELSE Margin

\* The table holds nothing before the end of the step; during a round of the event
\* loop only what its end can cut the step to.
CutInv ==
  /\ LoopInv
  /\ pc \in {"loop", "solve", "reached"} => Table(breaks, target, FinalTime)
  /\ pc = "iter" => /\ evt_step <= target /\ evt_step <= temp /\ Low <= temp
                    /\ Table(breaks, evt_step, FinalTime)
                    /\ Table(breaks, Low, FinalTime)

\* The numbers of a round.
LEMMA CutNumbers ==
  ASSUME LoopInv, Apart
  PROVE  /\ StepInv /\ NoLateRequest
         /\ last_time \in Int /\ target \in Int /\ temp \in Int /\ evt_step \in Int
         /\ CKTtime \in Int /\ FinalTime \in Int /\ Infinity \in Int
         /\ target <= FinalTime /\ FinalTime < Infinity
         /\ last_time <= evt_step
         /\ MinBreak \in Int /\ MinBreak >= 1
         /\ Margin \in Int /\ Low \in Int /\ Low <= target /\ Low <= Margin
         /\ \A t \in Requests : t \in Int /\ t <= FinalTime
<1>1. StepInv /\ NoLateRequest
  BY DEF LoopInv, ForwardInv, Apart
<1>2. /\ last_time \in Int /\ target \in Int /\ temp \in Int
      /\ CKTtime \in Int /\ FinalTime \in Int /\ Infinity \in Int
      /\ target <= FinalTime /\ MinBreak \in Int /\ MinBreak >= 1
      /\ \A t \in Requests : t \in Int /\ t <= FinalTime
  BY <1>1, Numbers DEF StepInv, NoLateRequest, Apart
<1>3. evt_step \in EvtP!Time /\ last_time <= evt_step
  BY DEF LoopInv, EvtP!IndInv, EvtP!TypeOK, EvtP!StepOrder
<1>4. evt_step \in Int /\ FinalTime < Infinity
  BY <1>2, <1>3, DCtranAssumption DEF EvtP!Time, Infinity, Evt!Infinity
<1> QED BY <1>1, <1>2, <1>3, <1>4 DEF Margin, Low

\* An event round begins with no temporary breakpoint, and nothing in the table
\* before the end of the step.
LEMMA RoundBegins ==
  ASSUME CutInv, Apart, LoopInv', EventRound
  PROVE  CutInv'
<1>1. /\ pc = "loop" /\ pc' = "iter" /\ evt_step' = next_time /\ next_time <= target
      /\ temp' = Infinity
      /\ target' = target /\ breaks' = breaks /\ last_time' = last_time
  BY DEF EventRound, Evt!EVTdequeue_inst, Evt!queue
<1>2. Table(breaks, target, FinalTime) /\ LoopInv
  BY <1>1 DEF CutInv
<1>3. /\ target \in Int /\ Infinity \in Int /\ FinalTime \in Int
      /\ target <= FinalTime /\ FinalTime < Infinity
      /\ Low \in Int /\ Low <= target
  BY <1>2, CutNumbers
<1>4. evt_step' \in Int
  <2>1. evt_step' \in EvtP!Time
    BY DEF LoopInv, EvtP!IndInv, EvtP!TypeOK
  <2> QED BY <2>1, DCtranAssumption DEF EvtP!Time
<1>5. Low' = Low
  BY <1>1 DEF Low, Margin
<1>6. Table(breaks, evt_step', FinalTime) /\ Table(breaks, Low, FinalTime)
  BY <1>1, <1>2, <1>3, <1>4, LowerLow
<1>7. evt_step' <= target' /\ evt_step' <= temp' /\ Low' <= temp'
  BY <1>1, <1>3, <1>4, <1>5
<1> QED BY <1>1, <1>5, <1>6, <1>7 DEF CutInv

\* It ends with a step that is cut to the first breakpoint, whoever asked for it.
LEMMA RoundEnds ==
  ASSUME CutInv, Apart, NoneAtMargin, LoopInv', EndRound
  PROVE  CutInv'
<1>1. /\ pc = "iter" /\ pc' = "loop" /\ breaks' = breaks
      /\ temp' = IF breaks[1] < temp /\ breaks[1] > CKTtime + MinBreak
                 THEN breaks[1] ELSE temp
      /\ target' = IF /\ temp' < target
                      /\ temp' > CKTtime + MinBreak /\ temp' >= evt_step
                   THEN temp' ELSE target
  BY DEF EndRound
<1>2. /\ CKTtime + MinBreak = Margin
      /\ LoopInv /\ evt_step <= temp /\ Low <= temp
      /\ Table(breaks, evt_step, FinalTime) /\ Table(breaks, Low, FinalTime)
      /\ Margin < target =>
           temp # Margin /\ \A k \in 1 .. Len(breaks) : breaks[k] # Margin
  BY <1>1 DEF CutInv, CKTtime, Margin, NoneAtMargin
<1>3. /\ target \in Int /\ temp \in Int /\ evt_step \in Int /\ FinalTime \in Int
      /\ Margin \in Int /\ Low \in Int
  BY <1>2, CutNumbers
<1>4. breaks[1] \in Int /\ 1 \in 1 .. Len(breaks) /\ evt_step <= breaks[1]
      /\ Low <= breaks[1]
  BY <1>2, LenProperties, ElementOfSeq DEF Table
<1>5. Low = IF target < Margin THEN target ELSE Margin
  BY DEF Low
<1>6. target' \in Int /\ target' <= breaks[1]
  <2>1. CASE target <= breaks[1]
    BY <1>1, <1>2, <1>3, <1>4, <2>1
  <2>2. CASE breaks[1] < target
    <3>1. Margin < breaks[1]
      <4>1. Margin <= breaks[1] /\ Margin < target
        BY <1>3, <1>4, <1>5, <2>2
      <4>2. breaks[1] # Margin
        BY <1>2, <1>4, <4>1
      <4> QED BY <1>3, <1>4, <4>1, <4>2
    <3>2. CASE breaks[1] < temp
      <4>1. temp' = breaks[1]
        BY <1>1, <1>2, <3>1, <3>2
      <4>2. target' = breaks[1]
        BY <1>1, <1>2, <1>3, <1>4, <2>2, <3>1, <4>1
      <4> QED BY <1>4, <4>2
    <3>3. CASE temp <= breaks[1]
      <4>1. temp < target /\ Margin < target
        BY <1>3, <1>4, <2>2, <3>1, <3>3
      <4>2. Margin <= temp /\ temp # Margin
        BY <1>2, <1>3, <1>5, <4>1
      <4>3. temp' = temp
        BY <1>1, <1>3, <1>4, <3>3
      <4> QED BY <1>1, <1>2, <1>3, <1>4, <3>3, <4>1, <4>2, <4>3
    <3> QED BY <1>3, <1>4, <3>2, <3>3
  <2> QED BY <1>3, <1>4, <2>1, <2>2
<1>7. Table(breaks', target', FinalTime)
  BY <1>1, <1>2, <1>3, <1>6, RaiseLow
<1> QED BY <1>1, <1>7 DEF CutInv

\* What is asked for in the event loop is not before the event time, nor before
\* CKTminBreak after the last timepoint.
LEMMA RequestInRound ==
  ASSUME CutInv, Apart, LoopInv', pc = "iter", NEW t \in Requests,
         cm_analog_set_temp_bkpt(t) \/ cm_analog_set_perm_bkpt(t)
  PROVE  CutInv'
<1>1. /\ t >= evt_step /\ pc' = pc
      /\ UNCHANGED <<target, last_time, evt_step>>
      /\ \/ SetTemp(t) /\ breaks' = breaks
         \/ ~ (t < CKTtime + MinBreak) /\ SetBreak(t) /\ temp' = temp
  BY DEF cm_analog_set_temp_bkpt, cm_analog_set_perm_bkpt, queue
<1>2. CKTtime = last_time /\ CKTtime + MinBreak = Margin
  BY DEF CKTtime, Margin
<1>3. /\ LoopInv /\ evt_step <= target /\ evt_step <= temp /\ Low <= temp
      /\ Table(breaks, evt_step, FinalTime) /\ Table(breaks, Low, FinalTime)
  BY DEF CutInv
<1>4. /\ last_time \in Int /\ temp \in Int /\ evt_step \in Int /\ FinalTime \in Int
      /\ CKTtime \in Int /\ last_time <= evt_step
      /\ MinBreak \in Int /\ MinBreak >= 1
      /\ Margin \in Int /\ Low \in Int /\ Low <= Margin
      /\ t \in Int /\ t <= FinalTime
  BY <1>3, CutNumbers
<1>5. Low' = Low
  BY <1>1 DEF Low, Margin
<1>6. CASE SetTemp(t) /\ breaks' = breaks
  <2>1. temp' = temp \/ (temp' = t /\ ~ Near(t, CKTtime))
    BY <1>6 DEF SetTemp
  <2>2. ~ Near(t, last_time) => Margin <= t
    BY <1>1, <1>4 DEF Near, Margin
  <2>3. evt_step <= temp' /\ Low <= temp'
    BY <1>1, <1>2, <1>3, <1>4, <2>1, <2>2
  <2> QED BY <1>1, <1>3, <1>5, <1>6, <2>3 DEF CutInv
<1>7. CASE ~ (t < CKTtime + MinBreak) /\ SetBreak(t) /\ temp' = temp
  <2>1. evt_step <= t /\ Low <= t
    BY <1>1, <1>2, <1>4, <1>7
  <2>2. breaks' = CKTsetBreak(breaks, CKTtime, t)
    BY <1>7 DEF SetBreak
  <2>3. Table(breaks', evt_step, FinalTime) /\ Table(breaks', Low, FinalTime)
    BY <1>3, <1>4, <2>1, <2>2, SetBreakTable
  <2> QED BY <1>1, <1>3, <1>5, <1>7, <2>3 DEF CutInv
<1> QED BY <1>1, <1>6, <1>7

\* Every step keeps the invariant, when no instance asks for a breakpoint in the
\* call before the event loop.
LEMMA CutNext ==
  ASSUME CutInv, Apart, AskIn \subseteq {"iter", "solve"}, NoneAtMargin, [Next]_vars
  PROVE  CutInv'
<1> DEFINE under == pc \in {"loop", "solve", "reached"}
<1>1. LoopInv /\ LoopInv'
  BY LoopNext DEF CutInv
<1>2. /\ StepInv /\ NoLateRequest
      /\ target \in Int /\ FinalTime \in Int /\ target' \in Int
      /\ \A t \in Requests : t \in Int /\ t <= FinalTime
      /\ CKTtime \in Int /\ last_time \in Int /\ temp \in Int
      /\ MinBreak \in Int /\ MinBreak >= 1
  BY <1>1, CutNumbers DEF LoopInv, ForwardInv, StepInv
<1>3. ASSUME under', Table(breaks', target', FinalTime) PROVE CutInv'
  BY <1>1, <1>3 DEF CutInv
<1>4. ASSUME pc' \notin {"loop", "iter", "solve", "reached"} PROVE CutInv'
  BY <1>1, <1>4 DEF CutInv
<1>5. ASSUME under, pc' # "iter", breaks' = breaks, target' <= target
      PROVE  CutInv'
  <2>1. Table(breaks, target, FinalTime)
    BY <1>5 DEF CutInv
  <2>2. Table(breaks', target', FinalTime)
    BY <1>2, <1>5, <2>1, LowerLow
  <2> QED BY <1>3, <1>4, <1>5, <2>2
<1>6. ASSUME UNCHANGED <<breaks, target, temp, last_time, evt_step, pc>>
      PROVE  CutInv'
  <2>1. Low' = Low
    BY <1>6 DEF Low, Margin
  <2> QED BY <1>1, <1>6, <2>1 DEF CutInv
<1>7. ASSUME under, target' = target, pc' = pc,
             NEW t \in Requests, target <= t, SetBreak(t)
      PROVE  CutInv'
  <2>1. Table(breaks, target, FinalTime)
    BY <1>7 DEF CutInv
  <2>2. Table(breaks', target', FinalTime)
    BY <1>2, <1>7, <2>1, SetBreakTable DEF SetBreak
  <2> QED BY <1>3, <1>7, <2>2
<1>8. CASE NextTime
  BY <1>4, <1>8 DEF NextTime
<1>9. CASE EventRound
  BY <1>1, <1>9, RoundBegins
<1>10. CASE EndRound
  BY <1>1, <1>10, RoundEnds
<1>11. CASE Solve \/ Converged
  <2>1. under /\ pc' # "iter" /\ breaks' = breaks /\ target' = target
    BY <1>11 DEF Solve, Converged
  <2> QED BY <1>2, <1>5, <2>1
<1>12. ASSUME NEW delta \in Int, delta < target - last_time \/ delta = 0,
              pc = "solve", RetryOrFail(delta)
       PROVE  CutInv'
  <2>1. breaks' = breaks /\ target' <= target
    BY <1>2, <1>12, RetryTarget
  <2>2. pc' # "iter"
    BY <1>12 DEF RetryOrFail, Retry
  <2> QED BY <1>5, <1>12, <2>1, <2>2
<1>13. CASE PastBreakpoint
  <2>1. /\ temp - last_time \in Int /\ temp - last_time < target - last_time
        /\ pc = "solve" /\ RetryOrFail(temp - last_time)
    BY <1>2, <1>13 DEF PastBreakpoint
  <2> QED BY <1>12, <2>1
<1>14. ASSUME NEW delta \in 0 .. MaxStep, Reject(delta) PROVE CutInv'
  <2>1. delta \in Int
    BY DCtranAssumption
  <2> QED BY <1>12, <1>14, <2>1 DEF Reject
<1>15. ASSUME NEW delta \in 1 .. MaxStep, StartStep(delta) PROVE CutInv'
  <2>1. Table(breaks', 0, FinalTime) /\ target' <= breaks'[1]
    BY <1>2, <1>15, StepWithinBreak
  <2>2. Table(breaks', target', FinalTime)
    BY <1>2, <2>1, RaiseLow
  <2> QED BY <1>3, <1>15, <2>2 DEF StartStep
<1>16. ASSUME NEW i \in Insts, EVTload(i) PROVE CutInv'
  BY <1>6, <1>16 DEF EVTload, Evt!EVTload, Evt!queue
<1>17. ASSUME NEW i \in Insts, NEW t \in Events, cm_event_queue(i, t) PROVE CutInv'
  BY <1>6, <1>17 DEF cm_event_queue, Evt!cm_event_queue, Evt!EVTqueue_inst
<1>18. ASSUME NEW t \in Requests, DeviceBreak(t) PROVE CutInv'
  BY <1>7, <1>18 DEF DeviceBreak, CKTtime
<1>19. ASSUME NEW t \in Requests, UserBreak(t) PROVE CutInv'
  BY <1>4, <1>19 DEF UserBreak
<1>20. ASSUME NEW t \in Requests,
              cm_analog_set_temp_bkpt(t) \/ cm_analog_set_perm_bkpt(t)
       PROVE  CutInv'
  <2>1. pc = "iter" \/ pc = "solve"
    BY <1>20 DEF cm_analog_set_temp_bkpt, cm_analog_set_perm_bkpt, ModelCalled
  <2>2. CASE pc = "iter"
    BY <1>1, <1>20, <2>2, RequestInRound
  <2>3. CASE pc = "solve"
    <3>1. /\ CKTtime = target /\ under /\ pc' = pc /\ target' = target
          /\ breaks' = breaks \/ (~ (t < CKTtime + MinBreak) /\ SetBreak(t))
      BY <1>20, <2>3 DEF cm_analog_set_temp_bkpt, cm_analog_set_perm_bkpt, CKTtime
    <3>2. CASE breaks' = breaks
      BY <1>2, <1>5, <2>3, <3>1, <3>2
    <3>3. CASE ~ (t < CKTtime + MinBreak) /\ SetBreak(t)
      <4>1. target <= t
        BY <1>2, <3>1, <3>3
      <4> QED BY <1>7, <3>1, <3>3, <4>1
    <3> QED BY <3>1, <3>2, <3>3
  <2> QED BY <2>1, <2>2, <2>3
<1>21. CASE Resume
  BY <1>4, <1>21 DEF Resume
<1>22. CASE UNCHANGED vars
  BY <1>6, <1>22 DEF vars, queue
<1> QED
  BY <1>8, <1>9, <1>10, <1>11, <1>13, <1>14, <1>15, <1>16, <1>17, <1>18, <1>19, <1>20,
     <1>21, <1>22 DEF Next, Step, User

\* DCtran steps over no breakpoint that an instance asks for in the event loop
\* either, permanent or temporary, alone or one of many: the end of each round cuts
\* the step to the first one.  The exception is a request for the very time that is
\* CKTminBreak after the last timepoint, which cm.c accepts and dctran.c passes over.
THEOREM NoneSteppedOverInLoop ==
  ASSUME Apart, AskIn \subseteq {"iter", "solve"}
  PROVE  Spec /\ []NoneAtMargin => []NoBreakSteppedOver
<1>1. Init => CutInv
  <2> SUFFICES ASSUME Init PROVE CutInv
    OBVIOUS
  <2>1. LoopInv /\ StepInv /\ pc = "reached" /\ target = 0
    BY LoopInit, StepInvInit DEF Init, Evt!Init
  <2> QED BY <2>1 DEF CutInv, StepInv
<1>2. CutInv => NoBreakSteppedOver
  <2> SUFFICES ASSUME CutInv, pc = "reached", NEW k \in 1 .. Len(breaks)
               PROVE  ~ breaks[k] < target
    BY DEF NoBreakSteppedOver
  <2>1. target \in Int /\ Table(breaks, target, FinalTime)
    BY CutNumbers DEF CutInv
  <2>2. breaks[k] \in Int /\ target <= breaks[k]
    BY <2>1, ElementOfSeq DEF Table
  <2> QED BY <2>1, <2>2
<1>3. CutInv /\ NoneAtMargin /\ [Next]_vars => CutInv'
  BY CutNext
<1> QED
  BY <1>1, <1>2, <1>3, PTL DEF Spec
=============================================================================
