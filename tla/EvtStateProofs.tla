--------------------------- MODULE EvtStateProofs ---------------------------
(***************************************************************************)
(* Proofs about the states and messages of event-driven instances: blocks   *)
(* of state are in one place each, the modified list is exact, the messages *)
(* kept are the messages sent, and the states are the abstract record.      *)
(***************************************************************************)
EXTENDS EvtState, NatLemmas, SequenceTheorems

MayBe == {"loop", "iter", "solve", "accepted"}

-----------------------------------------------------------------------------
(* The lists.                                                               *)

LEMMA JustOne == ASSUME NEW n \in Nat, n >= 1, ~ (n > 1) PROVE n = 1
OBVIOUS

\* Cut finds the first entry from `first' on whose next is later.
LEMMA CutIsFirst ==
  ASSUME NEW s \in Seq(Time), NEW first \in 0 .. Len(s), NEW t \in Time
  PROVE  /\ Cut(s, first, t) \in first .. Len(s)
         /\ Cut(s, first, t) = Len(s) \/ s[Cut(s, first, t) + 1] > t
         /\ \A m \in first .. Cut(s, first, t) - 1 : s[m + 1] <= t
<1> DEFINE T == {n \in first .. Len(s) : n = Len(s) \/ s[n + 1] > t}
<1>1. /\ Len(s) \in Nat /\ \A k \in 1 .. Len(s) : s[k] \in Time
  BY LenProperties, ElementOfSeq
<1>2. t \in Nat /\ \A k \in 1 .. Len(s) : s[k] \in Nat
  BY <1>1, StateAssumption DEF Time
<1>3. T \subseteq Nat /\ Len(s) \in T
  BY <1>1
<1>4. PICK x \in T : \A y \in T : x <= y
  BY <1>3, LeastNumber
<1>5. \A m \in first .. x - 1 : s[m + 1] <= t
  <2> SUFFICES ASSUME NEW m \in first .. x - 1 PROVE s[m + 1] <= t
    OBVIOUS
  <2>1. x \in first .. Len(s) /\ x \in Nat
    BY <1>1
  <2>2. m \in first .. Len(s) /\ m + 1 \in 1 .. Len(s) /\ ~ (x <= m)
    <3> HIDE DEF T
    <3> QED BY <1>1, <2>1
  <2>3. ~ (s[m + 1] > t)
    <3>1. m \notin T
      <4> HIDE DEF T
      <4> QED BY <1>4, <2>2
    <3> QED BY <2>2, <3>1
  <2>4. s[m + 1] \in Nat /\ t \in Nat
    BY <1>2, <2>2
  <2> QED BY <2>3, <2>4
<1>6. \E n \in first .. Len(s) : /\ n = Len(s) \/ s[n + 1] > t
                                 /\ \A m \in first .. n - 1 : s[m + 1] <= t
  BY <1>4, <1>5
<1> HIDE DEF T
<1> QED BY <1>6 DEF Cut

\* The first states of an instance.
LEMMA StatePrefix ==
  ASSUME NEW s \in Seq(State), NEW n \in 1 .. Len(s)
  PROVE  /\ SubSeq(s, 1, n) \in Seq(State) /\ Len(SubSeq(s, 1, n)) = n
         /\ \A k \in 1 .. n : SubSeq(s, 1, n)[k] = s[k]
         /\ BlocksOf(SubSeq(s, 1, n)) = {s[k].block : k \in 1 .. n}
<1>1. Len(s) \in Nat
  BY LenProperties
<1>2. /\ SubSeq(s, 1, n) \in Seq(State) /\ Len(SubSeq(s, 1, n)) = n
      /\ \A k \in 1 .. n : SubSeq(s, 1, n)[k] = s[k]
  BY <1>1, SubSeqProperties
<1> QED BY <1>2 DEF BlocksOf

\* And the others.
LEMMA StateRest ==
  ASSUME NEW s \in Seq(State), NEW n \in 0 .. Len(s)
  PROVE  BlocksOf(SubSeq(s, n + 1, Len(s))) = {s[k].block : k \in n + 1 .. Len(s)}
<1>1. Len(s) \in Nat
  BY LenProperties
<1> DEFINE r == SubSeq(s, n + 1, Len(s))
<1>2. Len(r) = Len(s) - n /\ \A k \in 1 .. Len(s) - n : r[k] = s[n + k]
  BY <1>1
<1> HIDE DEF r
<1>3. ASSUME NEW k \in n + 1 .. Len(s) PROVE s[k].block \in BlocksOf(r)
  <2>1. k - n \in 1 .. Len(r) /\ r[k - n] = s[k]
    BY <1>1, <1>2
  <2> QED BY <2>1 DEF BlocksOf
<1>4. ASSUME NEW k \in 1 .. Len(r) PROVE r[k].block \in {s[j].block : j \in n + 1 .. Len(s)}
  <2>1. n + k \in n + 1 .. Len(s) /\ r[k] = s[n + k]
    BY <1>1, <1>2
  <2> QED BY <2>1
<1>5. BlocksOf(r) = {s[k].block : k \in n + 1 .. Len(s)}
  BY <1>3, <1>4 DEF BlocksOf
<1> QED BY <1>5 DEF r

LEMMA AppendState ==
  ASSUME NEW s \in Seq(State), NEW e \in State
  PROVE  /\ Append(s, e) \in Seq(State) /\ Len(Append(s, e)) = Len(s) + 1
         /\ \A k \in 1 .. Len(s) : Append(s, e)[k] = s[k]
         /\ Append(s, e)[Len(s) + 1] = e
         /\ BlocksOf(Append(s, e)) = BlocksOf(s) \cup {e.block}
<1>1. Len(s) \in Nat
  BY LenProperties
<1>2. /\ Append(s, e) \in Seq(State) /\ Len(Append(s, e)) = Len(s) + 1
      /\ \A k \in 1 .. Len(s) : Append(s, e)[k] = s[k]
      /\ Append(s, e)[Len(s) + 1] = e
  BY AppendProperties
<1>3. BlocksOf(Append(s, e)) = BlocksOf(s) \cup {e.block}
  <2>1. 1 .. Len(s) + 1 = (1 .. Len(s)) \cup {Len(s) + 1}
    BY <1>1
  <2> QED BY <1>2, <2>1 DEF BlocksOf
<1> QED BY <1>2, <1>3

-----------------------------------------------------------------------------
(* States.                                                                  *)

\* An instance holds each of its blocks once.
Once(s) == \A m, n \in 1 .. Len(s) : s[m].block = s[n].block => m = n

Owned(i) == BlocksOf(chain[i]) \cup free[i]

ChainType ==
  /\ chain \in [Insts -> Seq(State)] /\ free \in [Insts -> SUBSET Blocks]
  /\ modified \subseteq Insts
  /\ \A i \in Insts : Len(chain[i]) >= 1
  /\ evt_step \in Time /\ target \in Time /\ last_time \in Time /\ phase \in MayBe

BlockInv ==
  /\ \A i \in Insts : Once(chain[i]) /\ BlocksOf(chain[i]) \cap free[i] = {}
  /\ \A i, j \in Insts : i # j => Owned(i) \cap Owned(j) = {}

StateInv == ChainType /\ BlockInv /\ ModifiedExact

\* What a step may do to the blocks: an instance keeps to its own, or takes one
\* that nobody has.
LEMMA BlocksStay ==
  ASSUME BlockInv,
         \A i \in Insts : /\ Once(chain'[i]) /\ BlocksOf(chain'[i]) \cap free'[i] = {}
                          /\ BlocksOf(chain'[i]) \cup free'[i] \subseteq Owned(i)
  PROVE  BlockInv'
<1>1. \A i \in Insts : Owned(i)' \subseteq Owned(i)
  BY DEF Owned, BlocksOf
<1>2. \A i, j \in Insts : i # j => (Owned(i) \cap Owned(j) = {})'
  BY <1>1 DEF BlockInv
<1>3. \A i \in Insts : (Once(chain[i]) /\ BlocksOf(chain[i]) \cap free[i] = {})'
  BY DEF Once, BlocksOf
<1> QED BY <1>2, <1>3 DEF BlockInv

LEMMA OnceNoLiveFree == BlockInv => NoLiveFree
<1> SUFFICES ASSUME BlockInv, NEW i \in Insts, NEW j \in Insts
             PROVE  /\ BlocksOf(chain[i]) \cap free[j] = {}
                    /\ i # j => /\ BlocksOf(chain[i]) \cap BlocksOf(chain[j]) = {}
                                /\ free[i] \cap free[j] = {}
                    /\ Once(chain[i])
  BY DEF NoLiveFree, Once
<1>1. CASE i = j
  BY <1>1 DEF BlockInv
<1>2. CASE i # j
  BY <1>2 DEF BlockInv, Owned
<1> QED BY <1>1, <1>2

LEMMA InitStates == Init => StateInv
<1> SUFFICES ASSUME Init PROVE StateInv
  OBVIOUS
<1>1. ASSUME NEW i \in Insts
      PROVE  /\ chain[i] \in Seq(State) /\ Len(chain[i]) = 1
             /\ BlocksOf(chain[i]) = {chain[i][1].block}
             /\ chain[i][1].block \in Blocks
  <2>1. PICK e \in [block : Blocks, step : {0}, val : Values, prev : {Null}] :
          chain[i] = <<e>>
    BY DEF Init
  <2>2. e \in State
    BY StateAssumption DEF State, Time
  <2> QED BY <2>1, <2>2 DEF BlocksOf, State
<1>2. chain \in [Insts -> Seq(State)]
  <2>1. chain = [i \in Insts |-> chain[i]]
    BY DEF Init
  <2> QED BY <1>1, <2>1
<1>3. /\ free = [i \in Insts |-> {}] /\ modified = {}
      /\ evt_step = 0 /\ target = 0 /\ last_time = 0 /\ phase = "accepted"
      /\ \A i, j \in Insts : chain[i][1].block = chain[j][1].block => i = j
  BY DEF Init
<1>4. 0 \in Time
  BY StateAssumption DEF Time
<1>5. ChainType
  BY <1>1, <1>2, <1>3, <1>4 DEF ChainType, MayBe
<1>6. BlockInv
  <2>1. ASSUME NEW i \in Insts
        PROVE  Once(chain[i]) /\ free[i] = {} /\ Owned(i) = {chain[i][1].block}
    <3>1. Once(chain[i])
      <4>1. Len(chain[i]) = 1
        BY <1>1
      <4> QED BY <4>1 DEF Once
    <3> QED BY <1>1, <1>3, <3>1 DEF Owned
  <2>2. ASSUME NEW i \in Insts, NEW j \in Insts, i # j
        PROVE  Owned(i) \cap Owned(j) = {}
    <3>1. chain[i][1].block # chain[j][1].block
      BY <1>3, <2>2
    <3> QED BY <2>1, <3>1
  <2> QED BY <2>1, <2>2 DEF BlockInv
<1>7. ModifiedExact
  <2>1. ASSUME NEW i \in Insts PROVE i \notin modified /\ ~ (Len(chain[i]) > 1)
    <3>1. Len(chain[i]) = 1
      BY <1>1
    <3> QED BY <1>3, <3>1
  <2> QED BY <2>1 DEF ModifiedExact
<1> QED BY <1>5, <1>6, <1>7 DEF StateInv

LEMMA LoadStates ==
  ASSUME StateInv, NEW i \in Insts, EVTload(i) PROVE StateInv'
<1>1. PICK b \in Blocks, v \in Values : EVTcreate_state(i, b, v)
  BY DEF EVTload
<1> DEFINE e == NewState(i, b, v)
           s == Append(chain[i], e)
<1>2. /\ MayTake(i, b)
      /\ chain' = [chain EXCEPT ![i] = s] /\ free' = [free EXCEPT ![i] = @ \ {b}]
      /\ modified' = modified \cup {i}
      /\ UNCHANGED <<evt_step, target, last_time, phase>>
  BY <1>1 DEF EVTcreate_state, EVTload
<1>3. chain[i] \in Seq(State) /\ Len(chain[i]) \in Nat /\ Len(chain[i]) >= 1
      /\ chain[i][Len(chain[i])] \in State
  BY LenProperties, ElementOfSeq DEF StateInv, ChainType
<1>4. e \in State /\ e.block = b
  <2>1. Last(chain[i]).block \in Blocks
    BY <1>3 DEF Last, State
  <2> QED BY <2>1 DEF NewState, State, StateInv, ChainType
<1> HIDE DEF e
<1>5. /\ s \in Seq(State) /\ Len(s) = Len(chain[i]) + 1
      /\ \A k \in 1 .. Len(chain[i]) : s[k] = chain[i][k]
      /\ s[Len(chain[i]) + 1] = e
      /\ BlocksOf(s) = BlocksOf(chain[i]) \cup {b}
  BY <1>3, <1>4, AppendState
<1> HIDE DEF s
<1>6. b \notin BlocksOf(chain[i]) /\ \A j \in Insts : j # i => b \notin Owned(j)
  <2>1. CASE free[i] # {}
    <3>1. b \in free[i]
      BY <1>2, <2>1 DEF MayTake
    <3> QED BY <3>1 DEF StateInv, BlockInv, Owned
  <2>2. CASE free[i] = {}
    <3>1. b \notin Used
      BY <1>2, <2>2 DEF MayTake
    <3> QED BY <3>1 DEF Used, Owned
  <2> QED BY <2>1, <2>2
<1>7. ChainType'
  <2>1. chain' \in [Insts -> Seq(State)] /\ free' \in [Insts -> SUBSET Blocks]
    BY <1>2, <1>5 DEF StateInv, ChainType
  <2>2. \A j \in Insts : Len(chain'[j]) >= 1
    BY <1>2, <1>3, <1>5 DEF StateInv, ChainType
  <2> QED BY <1>2, <2>1, <2>2 DEF StateInv, ChainType
<1>8. \A j \in Insts : /\ j # i => chain'[j] = chain[j] /\ free'[j] = free[j]
                       /\ chain'[i] = s /\ free'[i] = free[i] \ {b}
  BY <1>2 DEF StateInv, ChainType
<1>9. Once(s)
  <2> SUFFICES ASSUME NEW m \in 1 .. Len(s), NEW n \in 1 .. Len(s),
                      s[m].block = s[n].block, m < n PROVE FALSE
    BY <1>3, <1>5 DEF Once
  <2>1. m \in 1 .. Len(chain[i]) /\ s[m].block = chain[i][m].block
    BY <1>3, <1>5
  <2>2. s[m].block \in BlocksOf(chain[i])
    BY <2>1 DEF BlocksOf
  <2>3. CASE n = Len(s)
    BY <1>3, <1>4, <1>5, <1>6, <2>2, <2>3
  <2>4. CASE n # Len(s)
    <3>1. n \in 1 .. Len(chain[i]) /\ s[n].block = chain[i][n].block
      BY <1>3, <1>5, <2>4
    <3>2. Once(chain[i])
      BY DEF StateInv, BlockInv
    <3>3. m = n
      BY <2>1, <3>1, <3>2 DEF Once
    <3> QED BY <3>1, <3>3
  <2> QED BY <2>3, <2>4
<1>10. BlockInv'
  <2>1. \A j \in Insts : (Once(chain[j]) /\ BlocksOf(chain[j]) \cap free[j] = {})'
    <3> SUFFICES ASSUME NEW j \in Insts
                 PROVE  Once(chain'[j]) /\ BlocksOf(chain'[j]) \cap free'[j] = {}
      BY DEF Once, BlocksOf
    <3>1. Once(chain[j]) /\ BlocksOf(chain[j]) \cap free[j] = {}
      BY DEF StateInv, BlockInv
    <3> QED BY <1>5, <1>6, <1>8, <1>9, <3>1
  <2>2. /\ Owned(i)' \subseteq Owned(i) \cup {b}
        /\ \A j \in Insts : j # i => Owned(j)' = Owned(j)
    <3>1. ASSUME NEW j \in Insts PROVE Owned(j)' = BlocksOf(chain'[j]) \cup free'[j]
      BY DEF Owned, BlocksOf
    <3>2. Owned(i)' = BlocksOf(s) \cup (free[i] \ {b})
      BY <1>8, <3>1
    <3>3. Owned(i)' \subseteq Owned(i) \cup {b}
      BY <1>5, <3>2 DEF Owned
    <3>4. ASSUME NEW j \in Insts, j # i PROVE Owned(j)' = Owned(j)
      BY <1>8, <3>1, <3>4 DEF Owned
    <3> QED BY <3>3, <3>4
  <2>3. \A j, k \in Insts : j # k => (Owned(j) \cap Owned(k) = {})'
    <3> SUFFICES ASSUME NEW j \in Insts, NEW k \in Insts, j # k
                 PROVE  Owned(j)' \cap Owned(k)' = {}
      OBVIOUS
    <3>1. Owned(j) \cap Owned(k) = {}
      BY DEF StateInv, BlockInv
    <3> QED BY <1>6, <2>2, <3>1
  <2> QED BY <2>1, <2>3 DEF BlockInv
<1>11. ModifiedExact'
  <2> SUFFICES ASSUME NEW j \in Insts PROVE j \in modified' <=> Len(chain'[j]) > 1
    BY DEF ModifiedExact
  <2>1. j \in modified <=> Len(chain[j]) > 1
    BY DEF StateInv, ModifiedExact
  <2> QED BY <1>2, <1>3, <1>5, <1>8, <2>1
<1> QED BY <1>7, <1>10, <1>11 DEF StateInv

\* An accepted timepoint leaves each instance its last state.
LEMMA AcceptStates ==
  ASSUME StateInv, EVTaccept PROVE StateInv'
<1>1. /\ free' = [i \in Insts |-> IF i \in modified THEN Freed(i) ELSE free[i]]
      /\ chain' = [i \in Insts |-> IF i \in modified THEN <<Last(chain[i])>> ELSE chain[i]]
      /\ modified' = {} /\ last_time' = target /\ phase' = "accepted"
      /\ UNCHANGED <<evt_step, target>>
  BY DEF EVTaccept
<1>2. ASSUME NEW i \in Insts
      PROVE  /\ chain'[i] \in Seq(State) /\ Len(chain'[i]) = 1
             /\ free'[i] \in SUBSET Blocks
             /\ Once(chain'[i]) /\ BlocksOf(chain'[i]) \cap free'[i] = {}
             /\ BlocksOf(chain'[i]) \cup free'[i] \subseteq Owned(i)
  <2>1. /\ chain[i] \in Seq(State) /\ Len(chain[i]) \in Nat /\ Len(chain[i]) >= 1
        /\ \A k \in 1 .. Len(chain[i]) : chain[i][k] \in State
        /\ free[i] \in SUBSET Blocks
    BY LenProperties, ElementOfSeq DEF StateInv, ChainType
  <2>2. Once(chain[i]) /\ BlocksOf(chain[i]) \cap free[i] = {}
    BY DEF StateInv, BlockInv
  <2>3. i \in modified <=> Len(chain[i]) > 1
    BY DEF StateInv, ModifiedExact
  <2>4. CASE i \notin modified
    <3>1. chain'[i] = chain[i] /\ free'[i] = free[i]
      BY <1>1, <2>4
    <3>2. Len(chain[i]) = 1
      <4>1. Len(chain[i]) \in Nat /\ Len(chain[i]) >= 1
        BY <2>1
      <4>2. ~ (Len(chain[i]) > 1)
        BY <2>3, <2>4
      <4> QED BY <4>1, <4>2, JustOne
    <3> QED BY <2>1, <2>2, <3>1, <3>2 DEF Owned
  <2>5. CASE i \in modified
    <3> DEFINE l == Len(chain[i])
               e == chain[i][l]
               older == {chain[i][k].block : k \in 1 .. l - 1}
    <3>1. chain'[i] = <<e>> /\ l > 1
      BY <1>1, <2>3, <2>5 DEF Last
    <3>2. e \in State /\ e.block \in BlocksOf(chain[i]) /\ e.block \in Blocks
      BY <2>1, <3>1 DEF BlocksOf, State
    <3>3. free'[i] \in {free[i], free[i] \cup older}
      <4>1. BlocksOf(SubSeq(chain[i], 1, l - 1)) = older
        BY <2>1, <3>1, StatePrefix
      <4>2. free'[i] = Freed(i)
        BY <1>1, <2>5
      <4> QED BY <3>1, <4>1, <4>2 DEF Freed
    <3>4. older \subseteq BlocksOf(chain[i]) /\ older \subseteq Blocks
      BY <2>1 DEF BlocksOf, State
    <3>5. e.block \notin older
      BY <2>1, <2>2, <3>1 DEF Once
    <3> HIDE DEF e, older
    <3>6. BlocksOf(chain'[i]) = {e.block} /\ Len(chain'[i]) = 1 /\ chain'[i] \in Seq(State)
      BY <3>1, <3>2 DEF BlocksOf
    <3>7. Once(chain'[i])
      BY <3>6 DEF Once
    <3> QED BY <2>1, <2>2, <3>2, <3>3, <3>4, <3>5, <3>6, <3>7 DEF Owned
  <2> QED BY <2>4, <2>5
<1>3. ChainType'
  <2>1. chain' = [i \in Insts |-> chain'[i]] /\ free' = [i \in Insts |-> free'[i]]
    BY <1>1
  <2>2. chain' \in [Insts -> Seq(State)] /\ free' \in [Insts -> SUBSET Blocks]
    BY <1>2, <2>1
  <2> QED BY <1>1, <1>2, <2>2 DEF StateInv, ChainType, MayBe
<1>4. BlockInv'
  BY <1>2, BlocksStay DEF StateInv
<1>5. ModifiedExact'
  <2>1. ASSUME NEW i \in Insts PROVE i \notin modified' /\ ~ (Len(chain'[i]) > 1)
    <3>1. Len(chain'[i]) = 1
      BY <1>2
    <3>2. ~ (Len(chain'[i]) > 1)
      BY <3>1
    <3> QED BY <1>1, <3>2
  <2> QED BY <2>1 DEF ModifiedExact
<1> QED BY <1>3, <1>4, <1>5 DEF StateInv

\* A backup moves blocks from the end of a list to the free list.
LEMMA BackupStates ==
  ASSUME StateInv, NEW t \in Time, Backup(t) PROVE StateInv'
<1>1. /\ chain' = [i \in Insts |-> IF i \in modified
                                   THEN SubSeq(chain[i], 1, StateCut(i, t))
                                   ELSE chain[i]]
      /\ free' = [i \in Insts |-> IF i \in modified THEN free[i] \cup CutOff(i, t)
                                  ELSE free[i]]
      /\ modified' = {i \in modified : Len(chain'[i]) > 1}
      /\ target' = t /\ evt_step' = t /\ UNCHANGED <<last_time, phase>>
  BY DEF Backup, EVTbackup_state_data
<1>2. ASSUME NEW i \in Insts
      PROVE  /\ chain'[i] \in Seq(State) /\ Len(chain'[i]) >= 1
             /\ free'[i] \in SUBSET Blocks
             /\ Once(chain'[i]) /\ BlocksOf(chain'[i]) \cap free'[i] = {}
             /\ BlocksOf(chain'[i]) \cup free'[i] \subseteq Owned(i)
  <2>1. /\ chain[i] \in Seq(State) /\ Len(chain[i]) \in Nat /\ Len(chain[i]) >= 1
        /\ \A k \in 1 .. Len(chain[i]) : chain[i][k] \in State
        /\ free[i] \in SUBSET Blocks
    BY LenProperties, ElementOfSeq DEF StateInv, ChainType
  <2>2. Once(chain[i]) /\ BlocksOf(chain[i]) \cap free[i] = {}
    BY DEF StateInv, BlockInv
  <2>3. CASE i \notin modified
    BY <1>1, <2>1, <2>2, <2>3 DEF Owned
  <2>4. CASE i \in modified
    <3> DEFINE n == StateCut(i, t)
               l == Len(chain[i])
               kept == {chain[i][k].block : k \in 1 .. n}
               off == {chain[i][k].block : k \in n + 1 .. l}
    <3>1. n \in 1 .. l
      <4> DEFINE s == StateTimes(i)
      <4>1. s \in [1 .. l -> Time]
        BY <2>1 DEF StateTimes, State
      <4>2. s \in Seq(Time) /\ Len(s) = l
        <5>1. s \in Seq(Time)
          BY <2>1, <4>1, SeqDef
        <5>2. Len(s) \in Nat /\ DOMAIN s = 1 .. Len(s)
          BY <5>1, LenProperties
        <5> QED BY <2>1, <4>1, <5>2
      <4> HIDE DEF s
      <4>3. Cut(s, 1, t) \in 1 .. Len(s)
        BY <2>1, <4>2, CutIsFirst
      <4> QED BY <4>2, <4>3 DEF StateCut, s
    <3> HIDE DEF n
    <3>2. chain'[i] = SubSeq(chain[i], 1, n) /\ free'[i] = free[i] \cup CutOff(i, t)
      BY <1>1, <2>4 DEF n
    <3>3. CutOff(i, t) = off
      <4>1. n \in 0 .. Len(chain[i])
        BY <3>1
      <4> QED BY <2>1, <4>1, StateRest DEF CutOff, n
    <3>4. /\ chain'[i] \in Seq(State) /\ Len(chain'[i]) = n
          /\ \A k \in 1 .. n : chain'[i][k] = chain[i][k]
          /\ BlocksOf(chain'[i]) = kept
      <4>1. n \in 1 .. Len(chain[i])
        BY <3>1
      <4> DEFINE r == SubSeq(chain[i], 1, n)
      <4>2. /\ r \in Seq(State) /\ Len(r) = n /\ \A k \in 1 .. n : r[k] = chain[i][k]
            /\ BlocksOf(r) = kept
        BY <2>1, <4>1, StatePrefix
      <4>3. chain'[i] = r
        BY <3>2
      <4> HIDE DEF r, kept
      <4> QED BY <4>2, <4>3
    <3>5. kept \cap off = {}
      BY <2>1, <2>2, <3>1 DEF Once
    <3>6. kept \subseteq BlocksOf(chain[i]) /\ off \subseteq BlocksOf(chain[i])
          /\ off \subseteq Blocks
      BY <2>1, <3>1 DEF BlocksOf, State
    <3>7. Once(chain'[i])
      <4> SUFFICES ASSUME NEW j \in 1 .. n, NEW k \in 1 .. n,
                          chain'[i][j].block = chain'[i][k].block PROVE j = k
        BY <3>4 DEF Once
      <4>1. j \in 1 .. l /\ k \in 1 .. l
        BY <2>1, <3>1
      <4>2. chain[i][j].block = chain[i][k].block
        BY <3>4
      <4> QED BY <2>2, <4>1, <4>2 DEF Once
    <3> HIDE DEF kept, off
    <3> QED BY <2>1, <2>2, <3>1, <3>2, <3>3, <3>4, <3>5, <3>6, <3>7 DEF Owned
  <2> QED BY <2>3, <2>4
<1>3. ChainType'
  <2>1. chain' = [i \in Insts |-> chain'[i]] /\ free' = [i \in Insts |-> free'[i]]
    BY <1>1
  <2>2. chain' \in [Insts -> Seq(State)] /\ free' \in [Insts -> SUBSET Blocks]
    BY <1>2, <2>1
  <2> QED BY <1>1, <1>2, <2>2 DEF StateInv, ChainType
<1>4. BlockInv'
  BY <1>2, BlocksStay DEF StateInv
<1>5. ModifiedExact'
  <2> SUFFICES ASSUME NEW i \in Insts PROVE i \in modified' <=> Len(chain'[i]) > 1
    BY DEF ModifiedExact
  <2>1. i \in modified <=> Len(chain[i]) > 1
    BY DEF StateInv, ModifiedExact
  <2>2. i \notin modified => chain'[i] = chain[i]
    BY <1>1
  <2> QED BY <1>1, <2>1, <2>2
<1> QED BY <1>3, <1>4, <1>5 DEF StateInv

LEMMA NextStates ==
  ASSUME StateInv, [Next]_vars PROVE StateInv'
<1>1. ASSUME UNCHANGED states, evt_step' \in Time, target' \in Time, last_time' \in Time,
             phase' \in MayBe
      PROVE  StateInv'
  <2>1. UNCHANGED <<chain, free, modified>>
    BY <1>1 DEF states
  <2>2. ChainType'
    BY <1>1, <2>1 DEF StateInv, ChainType
  <2>3. BlockInv' /\ ModifiedExact'
    <3>1. BlockInv'
      <4>1. BlockInv
        BY DEF StateInv
      <4>2. \A i \in Insts : Owned(i)' = Owned(i) /\ BlocksOf(chain[i])' = BlocksOf(chain[i])
        BY <2>1 DEF Owned, BlocksOf
      <4>3. \A i \in Insts : (Once(chain[i]) <=> Once(chain[i])')
        BY <2>1 DEF Once
      <4> QED BY <2>1, <4>1, <4>2, <4>3 DEF BlockInv
    <3>2. ModifiedExact'
      BY <2>1 DEF StateInv, ModifiedExact
    <3> QED BY <3>1, <3>2
  <2> QED BY <2>2, <2>3 DEF StateInv
<1>2. evt_step \in Time /\ target \in Time /\ last_time \in Time /\ phase \in MayBe
  BY DEF StateInv, ChainType
<1>3. CASE \E t \in Time : StartStep(t) \/ EventRound(t) \/ EndRound(t)
  BY <1>1, <1>2, <1>3 DEF StartStep, EventRound, EndRound, MayBe
<1>4. CASE Solve
  BY <1>1, <1>2, <1>4 DEF Solve, MayBe
<1>5. CASE UNCHANGED vars
  BY <1>1, <1>2, <1>5 DEF vars, states
<1> QED BY <1>3, <1>4, <1>5, LoadStates, AcceptStates, BackupStates DEF Next

\* The inductive invariant of the states: every instance has its blocks to itself.
THEOREM StateInvHolds == Spec => []StateInv
BY InitStates, NextStates, PTL DEF Spec

\* No state of an instance is on a free list or shares its block (NoLiveFree),
\* through all calls, accepted timepoints and backups.
THEOREM StateNoLiveFree == Spec => []NoLiveFree
<1>1. StateInv => NoLiveFree
  BY OnceNoLiveFree DEF StateInv
<1> QED BY <1>1, StateInvHolds, PTL

\* The modified list has exactly the instances with a state after `last_step'
\* (ModifiedExact).
THEOREM StateModifiedExact == Spec => []ModifiedExact
<1>1. StateInv => ModifiedExact
  BY DEF StateInv
<1> QED BY <1>1, StateInvHolds, PTL
-----------------------------------------------------------------------------
(* The messages.                                                            *)

\* A port whose list is s: the links of the list are where they belong, no
\* message is later than now, and those up to `last_step', or all of them where
\* the port is not modified, were there at the accepted time lt.  The first
\* message is left out: nothing is known of it.
PortOK(s, ls, tl, i, mod, now, lt) ==
  /\ s \in Seq(Time) /\ now \in Time /\ lt \in Time
  /\ s = <<>> => ls = 1 /\ tl = 1 /\ i \notin mod
  /\ s # <<>> => ls \in 1 .. Len(s) /\ tl = Len(s)
  /\ \A k \in 1 .. Len(s) : s[k] <= now
  /\ \A k \in 2 .. Len(s) : k <= ls \/ i \notin mod => s[k] <= lt

LEMMA PortAdd ==
  ASSUME NEW s, NEW ls, NEW tl, NEW i, NEW mod, NEW now, NEW lt,
         PortOK(s, ls, tl, i, mod, now, lt)
  PROVE  PortOK(Append(s, now), ls, IF tl <= Len(s) THEN tl + 1 ELSE tl,
                i, mod \cup {i}, now, lt)
<1>1. s \in Seq(Time) /\ now \in Time /\ lt \in Time /\ Len(s) \in Nat /\ now \in Nat
  BY LenProperties, StateAssumption DEF PortOK, Time
<1>2. /\ Append(s, now) \in Seq(Time) /\ Len(Append(s, now)) = Len(s) + 1
      /\ Append(s, now)[Len(s) + 1] = now
      /\ \A k \in 1 .. Len(s) : Append(s, now)[k] = s[k]
  BY <1>1, AppendProperties
<1>3. Append(s, now) # <<>>
  BY <1>1, <1>2
<1>4. s = <<>> <=> Len(s) = 0
  BY <1>1, EmptySeq
<1>5. ls \in 1 .. Len(s) + 1 /\ (IF tl <= Len(s) THEN tl + 1 ELSE tl) = Len(s) + 1
  BY <1>1, <1>4 DEF PortOK
<1>6. \A k \in 1 .. Len(s) + 1 : Append(s, now)[k] <= now
  <2>1. \A k \in 1 .. Len(s) : s[k] <= now
    BY DEF PortOK
  <2> QED BY <1>1, <1>2, <2>1
<1>7. \A k \in 2 .. Len(s) + 1 : k <= ls => Append(s, now)[k] <= lt
  <2> SUFFICES ASSUME NEW k \in 2 .. Len(s) + 1, k <= ls PROVE Append(s, now)[k] <= lt
    OBVIOUS
  <2>1. s # <<>> /\ ls \in 1 .. Len(s)
    BY <1>1, <1>5 DEF PortOK
  <2>2. k \in 2 .. Len(s) /\ k \in 1 .. Len(s)
    BY <1>1, <2>1
  <2>3. s[k] <= lt
    BY <2>2 DEF PortOK
  <2> QED BY <1>2, <2>2, <2>3
<1> QED BY <1>1, <1>2, <1>3, <1>5, <1>6, <1>7 DEF PortOK

LEMMA PortAccept ==
  ASSUME NEW s, NEW ls, NEW tl, NEW i, NEW mod, NEW now, NEW lt,
         PortOK(s, ls, tl, i, mod, now, lt)
  PROVE  PortOK(s, IF i \in mod THEN tl ELSE ls, tl, i, {}, now, now)
<1>1. s \in Seq(Time) /\ Len(s) \in Nat
  BY LenProperties DEF PortOK
<1>2. s # <<>> => Len(s) >= 1
  BY <1>1, EmptySeq
<1> QED BY <1>1, <1>2 DEF PortOK

LEMMA PortLater ==
  ASSUME NEW s, NEW ls, NEW tl, NEW i, NEW mod, NEW now, NEW lt, NEW later \in Time,
         PortOK(s, ls, tl, i, mod, now, lt), now <= later
  PROVE  PortOK(s, ls, tl, i, mod, later, lt)
<1>1. now \in Nat /\ later \in Nat /\ \A k \in 1 .. Len(s) : s[k] \in Nat
  BY ElementOfSeq, StateAssumption DEF PortOK, Time
<1>2. \A k \in 1 .. Len(s) : s[k] <= later
  BY <1>1 DEF PortOK
<1> QED BY <1>2 DEF PortOK

\* Where the entries up to `first' stay, it does not matter where Cut starts.
LEMMA CutTwice ==
  ASSUME NEW s \in Seq(Time), NEW first \in 0 .. Len(s), NEW t \in Time,
         \A k \in 1 .. first : s[k] <= t
  PROVE  Cut(s, 0, t) = Cut(s, first, t)
<1> DEFINE a == Cut(s, 0, t)
           b == Cut(s, first, t)
<1>1. Len(s) \in Nat /\ t \in Nat /\ \A k \in 1 .. Len(s) : s[k] \in Nat
  BY LenProperties, ElementOfSeq, StateAssumption DEF Time
<1>2. /\ a \in 0 .. Len(s) /\ (a = Len(s) \/ s[a + 1] > t)
      /\ \A m \in 0 .. a - 1 : s[m + 1] <= t
  BY <1>1, CutIsFirst
<1>3. /\ b \in first .. Len(s) /\ (b = Len(s) \/ s[b + 1] > t)
      /\ \A m \in first .. b - 1 : s[m + 1] <= t
  BY CutIsFirst
<1> HIDE DEF a, b
<1>4. a \in Nat /\ b \in Nat
  BY <1>1, <1>2, <1>3
<1>5. ~ (a < first)
  <2> SUFFICES ASSUME a < first PROVE FALSE
    OBVIOUS
  <2>1. a + 1 \in 1 .. first /\ a + 1 \in 1 .. Len(s) /\ a # Len(s)
    BY <1>1, <1>4
  <2> QED BY <1>1, <1>2, <2>1
<1>6. ~ (a < b)
  <2> SUFFICES ASSUME a < b PROVE FALSE
    OBVIOUS
  <2>1. a \in first .. b - 1 /\ a + 1 \in 1 .. Len(s) /\ a # Len(s)
    BY <1>1, <1>3, <1>4, <1>5
  <2> QED BY <1>1, <1>2, <1>3, <2>1
<1>7. ~ (b < a)
  <2> SUFFICES ASSUME b < a PROVE FALSE
    OBVIOUS
  <2>1. b \in 0 .. a - 1 /\ b + 1 \in 1 .. Len(s) /\ b # Len(s)
    BY <1>1, <1>2, <1>4
  <2> QED BY <1>1, <1>2, <1>3, <2>1
<1>8. a = b
  BY <1>4, <1>6, <1>7
<1> QED BY <1>8 DEF a, b

\* What a backup to t leaves of a port: of the messages sent, of the list, of
\* its `tail' and of the modified list.
SentBack(s, t) == SubSeq(s, 1, Cut(s, 0, t))

TailBack(s, ls, tl, i, mod, t) == IF i \in mod THEN Cut(s, ls, t) ELSE tl

ListBack(s, ls, i, mod, t) == IF i \in mod THEN SubSeq(s, 1, Cut(s, ls, t)) ELSE s

ModBack(s, ls, i, mod, t) == IF Len(ListBack(s, ls, i, mod, t)) > ls THEN mod ELSE {}

LEMMA PortBackup ==
  ASSUME NEW s, NEW ls, NEW tl, NEW i, NEW mod, NEW now, NEW lt, NEW t \in Time,
         PortOK(s, ls, tl, i, mod, now, lt), lt < t,
         ~ (SentBack(s, t) = <<>> /\ ListBack(s, ls, i, mod, t) # <<>>)
  PROVE  /\ ListBack(s, ls, i, mod, t) = SentBack(s, t)
         /\ PortOK(SentBack(s, t), ls, TailBack(s, ls, tl, i, mod, t), i,
                   ModBack(s, ls, i, mod, t), t, lt)
<1> DEFINE tail2 == TailBack(s, ls, tl, i, mod, t)
           list == ListBack(s, ls, i, mod, t)
           kept == SentBack(s, t)
           mod2 == ModBack(s, ls, i, mod, t)
<1>0. /\ tail2 = IF i \in mod THEN Cut(s, ls, t) ELSE tl
      /\ list = IF i \in mod THEN SubSeq(s, 1, tail2) ELSE s
      /\ kept = SubSeq(s, 1, Cut(s, 0, t))
      /\ i \in mod2 <=> i \in mod /\ Len(list) > ls
      /\ ~ (kept = <<>> /\ list # <<>>)
  BY DEF TailBack, ListBack, SentBack, ModBack
<1> SUFFICES list = kept /\ PortOK(kept, ls, tail2, i, mod2, t, lt)
  OBVIOUS
<1> HIDE DEF tail2, list, kept, mod2
<1>1. /\ s \in Seq(Time) /\ Len(s) \in Nat /\ t \in Nat /\ lt \in Nat /\ lt \in Time
      /\ \A k \in 1 .. Len(s) : s[k] \in Nat
  BY LenProperties, ElementOfSeq, StateAssumption DEF PortOK, Time
<1>2. s = <<>> <=> Len(s) = 0
  BY <1>1, EmptySeq
<1>3. CASE s = <<>>
  <2>1. i \notin mod /\ ls = 1 /\ tail2 = 1 /\ list = <<>> /\ i \notin mod2
    BY <1>0, <1>3 DEF PortOK
  <2>2. Cut(s, 0, t) \in 0 .. 0
    <3>1. 0 \in 0 .. Len(s)
      BY <1>1
    <3>2. Cut(s, 0, t) \in 0 .. Len(s)
      BY <1>1, <3>1, CutIsFirst
    <3> QED BY <1>2, <1>3, <3>2
  <2>3. Len(kept) = 0 /\ kept \in Seq(Time)
    <3>1. SubSeq(s, 1, 0) = <<>>
      BY <1>1
    <3>2. kept = <<>>
      BY <1>0, <2>2, <3>1
    <3> QED BY <3>2
  <2>4. kept = <<>>
    BY <2>3, EmptySeq
  <2> QED BY <1>1, <2>1, <2>3, <2>4 DEF PortOK
<1>4. CASE s # <<>>
  <2> DEFINE a == Cut(s, 0, t)
             c == IF i \in mod THEN tail2 ELSE Len(s)
             first == IF i \in mod THEN ls ELSE Len(s)
  <2>1. ls \in 1 .. Len(s) /\ tl = Len(s) /\ Len(s) >= 1
    BY <1>1, <1>2, <1>4 DEF PortOK
  <2>2. first \in 1 .. Len(s) /\ first \in 0 .. Len(s)
    BY <1>1, <2>1
  <2>3. /\ a \in 0 .. Len(s) /\ (a = Len(s) \/ s[a + 1] > t)
        /\ \A m \in 0 .. a - 1 : s[m + 1] <= t
    BY <1>1, CutIsFirst
  <2>4. a # 0
    <3> SUFFICES ASSUME a = 0 PROVE FALSE
      OBVIOUS
    <3>1. kept = <<>>
      <4>1. SubSeq(s, 1, 0) = <<>>
        BY <1>1
      <4> QED BY <1>0, <4>1 DEF a
    <3>2. list # <<>>
      <4>1. CASE i \in mod
        <5>1. tail2 \in ls .. Len(s)
          BY <1>0, <1>1, <2>2, <4>1, CutIsFirst
        <5>2. tail2 \in 1 .. Len(s)
          BY <1>1, <2>1, <5>1
        <5>3. Len(SubSeq(s, 1, tail2)) = tail2
          BY <1>1, <5>2, SubSeqProperties
        <5>4. Len(list) # 0
          BY <1>0, <1>1, <4>1, <5>2, <5>3
        <5> QED BY <5>4
      <4>2. CASE i \notin mod
        BY <1>0, <1>4, <4>2
      <4> QED BY <4>1, <4>2
    <3> QED BY <1>0, <3>1, <3>2
  <2>5. \A k \in 1 .. first : s[k] <= t
    <3> SUFFICES ASSUME NEW k \in 1 .. first PROVE s[k] <= t
      OBVIOUS
    <3>1. CASE k = 1
      <4>1. 0 \in 0 .. a - 1
        BY <1>1, <2>3, <2>4
      <4>2. s[0 + 1] <= t
        BY <2>3, <4>1
      <4> QED BY <3>1, <4>2
    <3>2. CASE k # 1
      <4>1. k \in 2 .. Len(s) /\ k \in 1 .. Len(s) /\ (k <= ls \/ i \notin mod)
        BY <1>1, <2>1, <2>2, <3>2
      <4>2. s[k] <= lt /\ s[k] \in Nat
        BY <1>1, <4>1 DEF PortOK
      <4> QED BY <1>1, <4>2
    <3> QED BY <3>1, <3>2
  <2>6. a = Cut(s, first, t)
    BY <1>1, <2>2, <2>5, CutTwice
  <2>7. Cut(s, first, t) \in first .. Len(s)
    BY <1>1, <2>2, CutIsFirst
  <2> HIDE DEF a
  <2>8. list = SubSeq(s, 1, a) /\ tail2 = a /\ a \in ls .. Len(s)
    <3>1. CASE i \in mod
      BY <1>0, <2>6, <2>7, <3>1
    <3>2. CASE i \notin mod
      <4>1. a = Len(s)
        BY <1>1, <2>6, <2>7, <3>2
      <4>2. SubSeq(s, 1, Len(s)) = s
        BY <1>1
      <4> QED BY <1>0, <1>1, <2>1, <3>2, <4>1, <4>2
    <3> QED BY <3>1, <3>2
  <2>9. kept = list
    BY <1>0, <2>8 DEF a
  <2>10. /\ kept \in Seq(Time) /\ Len(kept) = a /\ a \in 1 .. Len(s) /\ a \in Nat
         /\ \A k \in 1 .. a : kept[k] = s[k]
    <3>1. a \in 1 .. Len(s)
      BY <1>1, <2>1, <2>8
    <3>2. /\ SubSeq(s, 1, a) \in Seq(Time) /\ Len(SubSeq(s, 1, a)) = a
          /\ \A k \in 1 .. a : SubSeq(s, 1, a)[k] = s[k]
      BY <1>1, <3>1, SubSeqProperties
    <3>3. a \in Nat
      BY <1>1, <3>1
    <3> QED BY <2>8, <2>9, <3>1, <3>2, <3>3
  <2>11. \A k \in 1 .. a : kept[k] <= t
    <3> SUFFICES ASSUME NEW k \in 1 .. a PROVE kept[k] <= t
      OBVIOUS
    <3>1. k - 1 \in 0 .. a - 1 /\ k - 1 + 1 = k
      BY <2>10
    <3>2. s[k - 1 + 1] <= t
      BY <2>3, <3>1
    <3> QED BY <2>10, <3>1, <3>2
  <2>12. ASSUME NEW k \in 2 .. a, k <= ls \/ i \notin mod2 PROVE kept[k] <= lt
    <3>1. k \in 2 .. Len(s) /\ k \in 1 .. a
      BY <1>1, <2>10
    <3>2. k <= ls \/ i \notin mod
      <4>1. CASE i \notin mod2 /\ i \in mod
        <5>1. ~ (Len(list) > ls)
          BY <1>0, <4>1
        <5>2. ~ (a > ls)
          BY <2>9, <2>10, <5>1
        <5> QED BY <1>1, <2>1, <2>10, <5>2
      <4> QED BY <2>12, <4>1
    <3>3. s[k] <= lt
      BY <3>1, <3>2 DEF PortOK
    <3> QED BY <2>10, <3>1, <3>3
  <2>13. kept # <<>> /\ ls \in 1 .. Len(kept) /\ tail2 = Len(kept)
    <3>1. Len(kept) # 0
      BY <2>10
    <3>2. ls \in 1 .. a
      BY <1>1, <2>1, <2>8
    <3> QED BY <2>8, <2>10, <3>1, <3>2
  <2> QED BY <1>1, <2>9, <2>10, <2>11, <2>12, <2>13 DEF PortOK
<1> QED BY <1>3, <1>4

\* The messages of an instance are what was sent, and its list is in order.
PortInv(i) ==
  i \notin stuck =>
    /\ msgs[i] = sent[i]
    /\ PortOK(sent[i], last_step[i], tail[i], i, msg_modified, evt_step, last_time)

MsgInv ==
  /\ msgs = [i \in Insts |-> msgs[i]] /\ sent = [i \in Insts |-> sent[i]]
  /\ tail = [i \in Insts |-> tail[i]] /\ last_step = [i \in Insts |-> last_step[i]]
  /\ \A i \in Insts : PortInv(i)

ClockInv ==
  /\ evt_step \in Time /\ target \in Time /\ last_time \in Time
  /\ evt_step <= target /\ last_time <= target
  /\ phase = "solve" => evt_step = target
  /\ phase = "accepted" => evt_step = last_time

LEMMA InitMessages == Init => MsgInv /\ ClockInv
<1> SUFFICES ASSUME Init PROVE MsgInv /\ ClockInv
  OBVIOUS
<1>1. 0 \in Time /\ 0 <= 0
  BY StateAssumption DEF Time
<1>2. ClockInv
  BY <1>1 DEF Init, ClockInv
<1>3. ASSUME NEW i \in Insts PROVE PortInv(i)
  <2>1. msgs[i] \in {<<>>, <<0>>} /\ sent[i] = msgs[i]
        /\ tail[i] = 1 /\ last_step[i] = 1 /\ msg_modified = {} /\ evt_step = 0
        /\ last_time = 0
    BY DEF Init
  <2>2. <<>> \in Seq(Time) /\ Len(<<>>) = 0 /\ <<0>> \in Seq(Time) /\ Len(<<0>>) = 1
        /\ <<0>>[1] = 0 /\ <<0>> # <<>>
    BY <1>1
  <2>3. PortOK(sent[i], 1, 1, i, {}, 0, 0)
    <3>1. CASE sent[i] = <<>>
      BY <1>1, <2>1, <2>2, <3>1 DEF PortOK
    <3>2. CASE sent[i] = <<0>>
      BY <1>1, <2>1, <2>2, <3>2 DEF PortOK
    <3> QED BY <2>1, <3>1, <3>2
  <2> QED BY <2>1, <2>3 DEF PortInv
<1>4. msgs = [i \in Insts |-> msgs[i]] /\ sent = [i \in Insts |-> sent[i]]
  BY DEF Init
<1>5. tail = [i \in Insts |-> tail[i]] /\ last_step = [i \in Insts |-> last_step[i]]
  BY DEF Init
<1> QED BY <1>2, <1>3, <1>4, <1>5 DEF MsgInv

LEMMA LoadMessages ==
  ASSUME MsgInv, ClockInv, NEW i \in Insts, EVTload(i) PROVE MsgInv' /\ ClockInv'
<1>1. UNCHANGED <<evt_step, target, last_time, phase, stuck>>
  BY DEF EVTload
<1>2. CASE UNCHANGED <<messages, sent>>
  BY <1>1, <1>2 DEF MsgInv, PortInv, ClockInv, messages
<1>3. CASE EVTadd_msg(i)
  <2>1. /\ tail' = [tail EXCEPT ![i] = IF @ <= Len(msgs[i]) THEN @ + 1 ELSE @]
        /\ msgs' = [msgs EXCEPT ![i] = Append(@, evt_step)]
        /\ msg_modified' = msg_modified \cup {i}
        /\ sent' = [sent EXCEPT ![i] = Append(@, evt_step)]
        /\ UNCHANGED last_step
    BY <1>3 DEF EVTadd_msg
  <2>2. msgs' = [j \in Insts |-> msgs'[j]] /\ sent' = [j \in Insts |-> sent'[j]]
        /\ tail' = [j \in Insts |-> tail'[j]]
    BY <2>1 DEF MsgInv
  <2>3. ASSUME NEW j \in Insts, j # i PROVE PortInv(j)'
    <3>1. /\ tail'[j] = tail[j] /\ msgs'[j] = msgs[j] /\ sent'[j] = sent[j]
          /\ j \in msg_modified' <=> j \in msg_modified
      BY <2>1, <2>3 DEF MsgInv
    <3> QED BY <1>1, <2>1, <3>1 DEF MsgInv, PortInv, PortOK
  <2>4. PortInv(i)'
    <3> SUFFICES ASSUME i \notin stuck
                 PROVE  /\ msgs'[i] = sent'[i]
                        /\ PortOK(sent'[i], last_step[i], tail'[i], i, msg_modified',
                                  evt_step, last_time)
      BY <1>1, <2>1 DEF PortInv
    <3>1. /\ msgs[i] = sent[i]
          /\ PortOK(sent[i], last_step[i], tail[i], i, msg_modified, evt_step, last_time)
      BY DEF MsgInv, PortInv
    <3>2. /\ msgs'[i] = Append(msgs[i], evt_step) /\ sent'[i] = Append(sent[i], evt_step)
          /\ tail'[i] = IF tail[i] <= Len(msgs[i]) THEN tail[i] + 1 ELSE tail[i]
      BY <2>1 DEF MsgInv
    <3>3. PortOK(Append(sent[i], evt_step), last_step[i],
                 IF tail[i] <= Len(sent[i]) THEN tail[i] + 1 ELSE tail[i], i,
                 msg_modified \cup {i}, evt_step, last_time)
      BY <3>1, PortAdd
    <3> QED BY <2>1, <3>1, <3>2, <3>3
  <2> QED BY <1>1, <2>1, <2>2, <2>3, <2>4 DEF MsgInv, ClockInv
<1> QED BY <1>2, <1>3 DEF EVTload

LEMMA AcceptMessages ==
  ASSUME MsgInv, ClockInv, EVTaccept PROVE MsgInv' /\ ClockInv'
<1>1. /\ last_step' = [i \in Insts |-> IF i \in msg_modified THEN tail[i] ELSE last_step[i]]
      /\ msg_modified' = {} /\ last_time' = target /\ phase' = "accepted"
      /\ UNCHANGED <<msgs, tail, evt_step, target, sent, stuck>> /\ evt_step = target
  BY DEF EVTaccept, history, ClockInv
<1>2. ClockInv'
  <2>1. target \in Nat
    BY StateAssumption DEF ClockInv, Time
  <2> QED BY <1>1, <2>1 DEF ClockInv
<1>3. ASSUME NEW i \in Insts PROVE PortInv(i)'
  <2> SUFFICES ASSUME i \notin stuck
               PROVE  /\ msgs[i] = sent[i]
                      /\ PortOK(sent[i], last_step'[i], tail[i], i, {}, evt_step, evt_step)
    BY <1>1 DEF PortInv
  <2>1. /\ msgs[i] = sent[i]
        /\ PortOK(sent[i], last_step[i], tail[i], i, msg_modified, evt_step, last_time)
    BY DEF MsgInv, PortInv
  <2> QED BY <1>1, <2>1, PortAccept
<1>4. last_step' = [i \in Insts |-> last_step'[i]]
  BY <1>1
<1> QED BY <1>1, <1>2, <1>3, <1>4 DEF MsgInv

LEMMA BackupMessages ==
  ASSUME MsgInv, ClockInv, NEW t \in Time, Backup(t) PROVE MsgInv' /\ ClockInv'
<1>1. /\ tail' = [i \in Insts |-> IF i \in msg_modified
                                  THEN Cut(msgs[i], last_step[i], t) ELSE tail[i]]
      /\ msgs' = [i \in Insts |-> IF i \in msg_modified
                                  THEN SubSeq(msgs[i], 1, tail'[i]) ELSE msgs[i]]
      /\ msg_modified' = {i \in msg_modified : Len(msgs'[i]) > last_step[i]}
      /\ sent' = [i \in Insts |-> SubSeq(sent[i], 1, Cut(sent[i], 0, t))]
      /\ stuck' = stuck \cup {i \in Insts : sent'[i] = <<>> /\ msgs'[i] # <<>>}
      /\ UNCHANGED <<last_step, last_time, phase>>
      /\ target' = t /\ evt_step' = t /\ last_time < t /\ phase = "solve"
  BY DEF Backup, EVTbackup_msg_data
<1>2. ClockInv'
  <2>1. t \in Nat /\ last_time \in Nat
    BY StateAssumption DEF ClockInv, Time
  <2> QED BY <1>1, <2>1 DEF ClockInv
<1>3. /\ msgs' = [i \in Insts |-> msgs'[i]] /\ sent' = [i \in Insts |-> sent'[i]]
      /\ tail' = [i \in Insts |-> tail'[i]]
  BY <1>1
<1>4. ASSUME NEW i \in Insts PROVE PortInv(i)'
  <2> SUFFICES ASSUME i \notin stuck'
               PROVE  /\ msgs'[i] = sent'[i]
                      /\ PortOK(sent'[i], last_step[i], tail'[i], i, msg_modified', t, last_time)
    BY <1>1 DEF PortInv
  <2>1. i \notin stuck /\ ~ (sent'[i] = <<>> /\ msgs'[i] # <<>>)
    BY <1>1
  <2>2. /\ msgs[i] = sent[i]
        /\ PortOK(sent[i], last_step[i], tail[i], i, msg_modified, evt_step, last_time)
    BY <2>1 DEF MsgInv, PortInv
  <2>3. /\ tail'[i] = IF i \in msg_modified THEN Cut(sent[i], last_step[i], t) ELSE tail[i]
        /\ msgs'[i] = IF i \in msg_modified THEN SubSeq(sent[i], 1, tail'[i]) ELSE sent[i]
        /\ sent'[i] = SubSeq(sent[i], 1, Cut(sent[i], 0, t))
        /\ i \in msg_modified' <=> i \in msg_modified /\ Len(msgs'[i]) > last_step[i]
    BY <1>1, <2>2
  <2> DEFINE now == SentBack(sent[i], t)
             list == ListBack(sent[i], last_step[i], i, msg_modified, t)
             mod2 == ModBack(sent[i], last_step[i], i, msg_modified, t)
  <2>4. /\ tail'[i] = TailBack(sent[i], last_step[i], tail[i], i, msg_modified, t)
        /\ msgs'[i] = list /\ sent'[i] = now
        /\ i \in msg_modified' <=> i \in mod2
    BY <2>3 DEF TailBack, ListBack, SentBack, ModBack
  <2>5. list = now /\ PortOK(now, last_step[i], tail'[i], i, mod2, t, last_time)
    <3>1. ~ (now = <<>> /\ list # <<>>)
      BY <2>1, <2>4
    <3> HIDE DEF now, list, mod2
    <3>2. /\ list = now
          /\ PortOK(now, last_step[i],
                    TailBack(sent[i], last_step[i], tail[i], i, msg_modified, t), i,
                    mod2, t, last_time)
      <4> USE DEF now, list, mod2
      <4> QED BY <1>1, <2>2, <3>1, PortBackup
    <3> QED BY <2>4, <3>2
  <2> HIDE DEF now, list, mod2
  <2>6. PortOK(now, last_step[i], tail'[i], i, msg_modified', t, last_time)
    BY <2>4, <2>5 DEF PortOK
  <2> QED BY <2>4, <2>5, <2>6
<1> QED BY <1>1, <1>2, <1>3, <1>4 DEF MsgInv

LEMMA NextMessages ==
  ASSUME MsgInv, ClockInv, [Next]_vars PROVE MsgInv' /\ ClockInv'
<1>1. ASSUME UNCHANGED <<messages, last_time, sent, stuck>>, evt_step' \in Time,
             evt_step <= evt_step', ClockInv'
      PROVE  MsgInv' /\ ClockInv'
  <2>1. UNCHANGED <<msgs, tail, last_step, msg_modified, last_time, sent, stuck>>
    BY <1>1 DEF messages
  <2>2. ASSUME NEW i \in Insts PROVE PortInv(i)'
    <3> SUFFICES ASSUME i \notin stuck
                 PROVE  /\ msgs[i] = sent[i]
                        /\ PortOK(sent[i], last_step[i], tail[i], i, msg_modified,
                                  evt_step', last_time)
      BY <2>1 DEF PortInv
    <3>1. /\ msgs[i] = sent[i]
          /\ PortOK(sent[i], last_step[i], tail[i], i, msg_modified, evt_step, last_time)
      BY DEF MsgInv, PortInv
    <3> QED BY <1>1, <3>1, PortLater
  <2> QED BY <1>1, <2>1, <2>2 DEF MsgInv
<1>2. evt_step \in Nat /\ target \in Nat /\ last_time \in Nat /\ \A t \in Time : t \in Nat
  BY StateAssumption DEF ClockInv, Time
<1>3. ASSUME NEW t \in Time, StartStep(t) PROVE MsgInv' /\ ClockInv'
  <2>1. /\ last_time < t /\ target' = t /\ phase' = "loop"
        /\ UNCHANGED <<messages, evt_step, last_time, sent, stuck>>
    BY <1>3 DEF StartStep, history
  <2>2. evt_step <= t
    BY <1>2, <1>3, <2>1 DEF StartStep, ClockInv
  <2> QED BY <1>1, <1>2, <2>1, <2>2 DEF ClockInv
<1>4. ASSUME NEW t \in Time, EventRound(t) PROVE MsgInv' /\ ClockInv'
  BY <1>1, <1>2, <1>4 DEF EventRound, ClockInv, history
<1>5. ASSUME NEW t \in Time, EndRound(t) PROVE MsgInv' /\ ClockInv'
  BY <1>1, <1>2, <1>5 DEF EndRound, ClockInv, history
<1>6. CASE Solve
  BY <1>1, <1>2, <1>6 DEF Solve, ClockInv, history
<1>7. CASE UNCHANGED vars
  BY <1>7 DEF vars, MsgInv, PortInv, ClockInv
<1> QED BY <1>3, <1>4, <1>5, <1>6, <1>7, LoadMessages, AcceptMessages, BackupMessages DEF Next

\* The messages of a port are those sent and not taken back (MessagesAsSent):
\* EVTbackup, which searches from `last_step', cuts where a search through the
\* whole list would.
THEOREM StateMessagesAsSent == Spec => []MessagesAsSent
<1>1. MsgInv => MessagesAsSent
  BY DEF MsgInv, PortInv, MessagesAsSent
<1> QED BY <1>1, InitMessages, NextMessages, PTL DEF Spec
-----------------------------------------------------------------------------
(* The states of an instance are the abstract record of them.               *)

\* A state as an entry of the record.
Seen(e) == [step |-> e.step, val |-> e.val]

Shown(s) == [n \in 1 .. Len(s) |-> Seen(s[n])]

Rising(s) == \A m, n \in 1 .. Len(s) : m < n => s[m].step <= s[n].step

\* States are in order of time, none later than now; the oldest was there at the
\* last accepted timepoint lt.
Recorded(s, now, lt) ==
  /\ s \in Seq(State) /\ Len(s) >= 1
  /\ Rising(s) /\ s[Len(s)].step <= now /\ s[1].step <= lt

LEMMA StatesAre ==
  ASSUME NEW s, NEW now, NEW lt, Recorded(s, now, lt)
  PROVE  /\ Len(s) \in Nat /\ Len(s) >= 1 /\ 1 \in 1 .. Len(s) /\ Len(s) \in 1 .. Len(s)
         /\ s \in Seq(State)
         /\ \A n \in 1 .. Len(s) : s[n] \in State /\ s[n].step \in Nat
<1>1. s \in Seq(State) /\ Len(s) >= 1
  BY DEF Recorded
<1>2. Len(s) \in Nat /\ \A n \in 1 .. Len(s) : s[n] \in State
  BY <1>1, LenProperties, ElementOfSeq
<1>3. \A n \in 1 .. Len(s) : s[n].step \in Nat
  BY <1>2, StateAssumption DEF State, Time
<1> QED BY <1>1, <1>2, <1>3

LEMMA ShownIs ==
  ASSUME NEW s \in Seq(State)
  PROVE  /\ Shown(s) \in Seq(Record!Entry) /\ Len(Shown(s)) = Len(s)
         /\ \A n \in 1 .. Len(s) : Shown(s)[n] = Seen(s[n])
<1>1. Len(s) \in Nat /\ \A n \in 1 .. Len(s) : s[n] \in State
  BY LenProperties, ElementOfSeq
<1>2. \A n \in 1 .. Len(s) : Seen(s[n]) \in Record!Entry
  BY <1>1 DEF Seen, State, Record!Entry, Record!Time, Time
<1>3. Shown(s) \in [1 .. Len(s) -> Record!Entry]
  BY <1>2 DEF Shown
<1>4. Shown(s) \in Seq(Record!Entry)
  BY <1>1, <1>3, SeqDef
<1>5. Len(Shown(s)) \in Nat /\ DOMAIN Shown(s) = 1 .. Len(Shown(s))
  BY <1>4, LenProperties
<1> QED BY <1>1, <1>3, <1>4, <1>5 DEF Shown

LEMMA ShownAppend ==
  ASSUME NEW s \in Seq(State), NEW e \in State
  PROVE  Shown(Append(s, e)) = Append(Shown(s), Seen(e))
<1> DEFINE r == Append(s, e)
           a == Shown(r)
           b == Append(Shown(s), Seen(e))
<1>1. /\ r \in Seq(State) /\ Len(r) = Len(s) + 1 /\ Len(s) \in Nat
      /\ \A k \in 1 .. Len(s) : r[k] = s[k]
      /\ r[Len(s) + 1] = e
  BY AppendState, LenProperties
<1> HIDE DEF r
<1>2. /\ a \in Seq(Record!Entry) /\ Len(a) = Len(s) + 1
      /\ \A k \in 1 .. Len(s) + 1 : a[k] = Seen(r[k])
  BY <1>1, ShownIs
<1>3. /\ Shown(s) \in Seq(Record!Entry) /\ Len(Shown(s)) = Len(s)
      /\ \A k \in 1 .. Len(s) : Shown(s)[k] = Seen(s[k])
  BY ShownIs
<1>4. Seen(e) \in Record!Entry
  BY DEF Seen, State, Record!Entry, Record!Time, Time
<1>5. /\ b \in Seq(Record!Entry) /\ Len(b) = Len(s) + 1
      /\ \A k \in 1 .. Len(s) : b[k] = Shown(s)[k]
      /\ b[Len(s) + 1] = Seen(e)
  BY <1>3, <1>4, AppendProperties
<1> HIDE DEF a, b
<1>6. ASSUME NEW k \in 1 .. Len(s) + 1 PROVE a[k] = b[k]
  <2>1. k \in 1 .. Len(s) \/ k = Len(s) + 1
    BY <1>1
  <2> QED BY <1>1, <1>2, <1>3, <1>5, <2>1
<1>7. a = b
  BY <1>2, <1>5, <1>6, SeqEqual
<1> QED BY <1>7 DEF a, b, r

LEMMA ShownPrefix ==
  ASSUME NEW s \in Seq(State), NEW c \in 1 .. Len(s)
  PROVE  Shown(SubSeq(s, 1, c)) = SubSeq(Shown(s), 1, c)
<1> DEFINE r == SubSeq(s, 1, c)
           a == Shown(r)
           b == SubSeq(Shown(s), 1, c)
<1>1. r \in Seq(State) /\ Len(r) = c /\ \A k \in 1 .. c : r[k] = s[k]
  BY StatePrefix
<1> HIDE DEF r
<1>2. a \in Seq(Record!Entry) /\ Len(a) = c /\ \A k \in 1 .. c : a[k] = Seen(r[k])
  BY <1>1, ShownIs
<1>3. /\ Shown(s) \in Seq(Record!Entry) /\ Len(Shown(s)) = Len(s) /\ Len(s) \in Nat
      /\ \A k \in 1 .. Len(s) : Shown(s)[k] = Seen(s[k])
      /\ \A k \in 1 .. Len(s) : Shown(s)[k] \in Record!Entry
  BY ShownIs, LenProperties, ElementOfSeq
<1>4. c \in Nat /\ c >= 1 /\ \A k \in 1 .. c : k \in 1 .. Len(s)
  BY <1>3
<1>5. b \in Seq(Record!Entry) /\ Len(b) = c /\ \A k \in 1 .. c : b[k] = Shown(s)[k]
  BY <1>3, <1>4, SubSeqProperties
<1> HIDE DEF a, b
<1>6. ASSUME NEW k \in 1 .. c PROVE a[k] = b[k]
  BY <1>1, <1>2, <1>3, <1>4, <1>5
<1>7. a = b
  BY <1>2, <1>5, <1>6, SeqEqual
<1> QED BY <1>7 DEF a, b, r

LEMMA ShownOne == ASSUME NEW e \in State PROVE Shown(<<e>>) = <<Seen(e)>>
<1> DEFINE r == <<e>>
<1>1. r \in Seq(State) /\ Len(r) = 1 /\ r[1] = e
  OBVIOUS
<1> HIDE DEF r
<1>2. /\ Shown(r) \in Seq(Record!Entry) /\ Len(Shown(r)) = 1
      /\ Shown(r)[1] = Seen(e)
  BY <1>1, ShownIs
<1>3. Seen(e) \in Record!Entry
  BY DEF Seen, State, Record!Entry, Record!Time, Time
<1>4. Shown(r) = <<Seen(e)>>
  <2> DEFINE a == Shown(r)
             b == <<Seen(e)>>
  <2>1. b \in Seq(Record!Entry) /\ Len(b) = 1 /\ b[1] = Seen(e)
    BY <1>3
  <2> HIDE DEF a, b
  <2>2. a \in Seq(Record!Entry) /\ Len(a) = 1 /\ a[1] = Seen(e)
    BY <1>2 DEF a
  <2>3. \A k \in 1 .. Len(a) : a[k] = b[k]
    BY <2>1, <2>2
  <2>4. a = b
    BY <2>1, <2>2, <2>3, SeqEqual
  <2> QED BY <2>4 DEF a, b
<1> QED BY <1>4 DEF r
LEMMA AppendRecorded ==
  ASSUME NEW s, NEW now, NEW lt, Recorded(s, now, lt), NEW e \in State, e.step = now
  PROVE  Recorded(Append(s, e), now, lt)
<1> DEFINE r == Append(s, e)
<1>1. /\ Len(s) \in Nat /\ Len(s) >= 1 /\ 1 \in 1 .. Len(s) /\ Len(s) \in 1 .. Len(s)
      /\ s \in Seq(State) /\ \A k \in 1 .. Len(s) : s[k].step \in Nat
      /\ now \in Nat
  <2>1. now \in Nat
    BY StateAssumption DEF State, Time
  <2> QED BY <2>1, StatesAre
<1>2. /\ r \in Seq(State) /\ Len(r) = Len(s) + 1
      /\ \A k \in 1 .. Len(s) : r[k] = s[k]
      /\ r[Len(s) + 1] = e
  BY <1>1, AppendState
<1>3. Rising(s) /\ s[Len(s)].step <= now /\ s[1].step <= lt
  BY DEF Recorded
<1> HIDE DEF r
<1>4. ASSUME NEW k \in 1 .. Len(s) PROVE s[k].step <= now
  <2>1. k = Len(s) \/ k < Len(s)
    BY <1>1
  <2>2. s[k].step <= s[Len(s)].step
    BY <1>1, <1>3, <2>1 DEF Rising
  <2>3. s[k].step \in Nat /\ s[Len(s)].step \in Nat
    BY <1>1
  <2> QED BY <1>1, <1>3, <2>2, <2>3
<1>5. ASSUME NEW m \in 1 .. Len(r), NEW n \in 1 .. Len(r), m < n
      PROVE  r[m].step <= r[n].step
  <2>1. CASE n = Len(s) + 1
    <3>1. m \in 1 .. Len(s)
      BY <1>1, <1>2, <1>5, <2>1
    <3> QED BY <1>2, <1>4, <2>1, <3>1
  <2>2. CASE n # Len(s) + 1
    <3>1. m \in 1 .. Len(s) /\ n \in 1 .. Len(s)
      BY <1>1, <1>2, <1>5, <2>2
    <3> QED BY <1>2, <1>3, <1>5, <3>1 DEF Rising
  <2> QED BY <2>1, <2>2
<1>6. Len(r) >= 1 /\ r[Len(r)].step <= now /\ r[1].step <= lt
  BY <1>1, <1>2, <1>3
<1> QED BY <1>2, <1>5, <1>6 DEF Recorded, Rising, r

\* An accepted timepoint: the last state, or the only one.
LEMMA OneRecorded ==
  ASSUME NEW s, NEW now, NEW lt, Recorded(s, now, lt), NEW r,
         r = <<s[Len(s)]>> \/ (r = s /\ Len(s) = 1)
  PROVE  Recorded(r, now, now)
<1>1. CASE r = s /\ Len(s) = 1
  BY <1>1 DEF Recorded
<1>2. CASE r = <<s[Len(s)]>>
  <2> DEFINE e == s[Len(s)]
  <2>1. e \in State /\ e.step <= now /\ r = <<e>>
    BY <1>2, StatesAre DEF Recorded
  <2> HIDE DEF e
  <2>2. r \in Seq(State) /\ Len(r) = 1 /\ r[1] = e
    BY <2>1
  <2> QED BY <2>1, <2>2 DEF Recorded, Rising
<1> QED BY <1>1, <1>2

LEMMA LaterRecorded ==
  ASSUME NEW s, NEW now \in Nat, NEW lt, Recorded(s, now, lt),
         NEW later \in Nat, now <= later
  PROVE  Recorded(s, later, lt)
<1>1. s[Len(s)].step \in Nat /\ s[Len(s)].step <= now
  BY StatesAre DEF Recorded
<1>2. s[Len(s)].step <= later
  BY <1>1
<1> QED BY <1>2 DEF Recorded

\* A backup to t keeps the states up to t, as the record does.
Times(s) == [n \in 1 .. Len(s) |-> s[n].step]

LEMMA CutRecorded ==
  ASSUME NEW s, NEW now, NEW lt \in Time, Recorded(s, now, lt), NEW t \in Time, lt < t
  PROVE  LET c == Cut(Times(s), 1, t) IN
         /\ c \in 1 .. Len(s) /\ Recorded(SubSeq(s, 1, c), t, lt)
         /\ Record!Upto(Shown(s), t) = Shown(SubSeq(s, 1, c))
<1> DEFINE T == Times(s)
           c == Cut(T, 1, t)
<1>1. /\ Len(s) \in Nat /\ Len(s) >= 1 /\ 1 \in 1 .. Len(s) /\ Len(s) \in 1 .. Len(s)
      /\ s \in Seq(State) /\ \A k \in 1 .. Len(s) : s[k] \in State /\ s[k].step \in Nat
      /\ lt \in Nat /\ t \in Nat
  BY StatesAre, StateAssumption DEF Time
<1>2. T \in Seq(Time) /\ Len(T) = Len(s) /\ \A k \in 1 .. Len(s) : T[k] = s[k].step
  <2>1. T \in [1 .. Len(s) -> Time]
    BY <1>1 DEF Times, State
  <2>2. T \in Seq(Time)
    BY <1>1, <2>1, SeqDef
  <2>3. Len(T) \in Nat /\ DOMAIN T = 1 .. Len(T)
    BY <2>2, LenProperties
  <2> QED BY <1>1, <2>1, <2>2, <2>3 DEF Times
<1> HIDE DEF T
<1>3. /\ c \in 1 .. Len(s)
      /\ c = Len(s) \/ T[c + 1] > t
      /\ \A m \in 1 .. c - 1 : T[m + 1] <= t
  <2>1. 1 \in 0 .. Len(T)
    BY <1>1, <1>2
  <2> QED BY <1>2, <2>1, CutIsFirst
<1> HIDE DEF c
<1>4. Rising(s) /\ s[1].step <= lt /\ s[1].step <= t
  <2>1. Rising(s) /\ s[1].step <= lt
    BY DEF Recorded
  <2> QED BY <1>1, <2>1
<1>5. s[c].step <= t
  <2>1. CASE c = 1
    BY <1>4, <2>1
  <2>2. CASE c # 1
    <3>1. c - 1 \in 1 .. c - 1 /\ (c - 1) + 1 = c
      BY <1>1, <1>3, <2>2
    <3> QED BY <1>2, <1>3, <3>1
  <2> QED BY <2>1, <2>2
<1>6. c = Len(s) \/ s[c + 1].step > t
  BY <1>1, <1>2, <1>3
<1>7. ASSUME NEW i \in 1 .. Len(s), NEW j \in 1 .. Len(s), i < j,
             i = Len(s) \/ s[i + 1].step > t, s[j].step <= t
      PROVE  FALSE
  <2>1. i + 1 \in 1 .. Len(s) /\ (i + 1 = j \/ i + 1 < j) /\ i # Len(s)
    BY <1>1, <1>7
  <2>2. s[i + 1].step <= s[j].step
    BY <1>1, <1>4, <2>1 DEF Rising
  <2>3. s[i + 1].step \in Nat /\ s[j].step \in Nat
    BY <1>1, <2>1
  <2> QED BY <1>1, <1>7, <2>1, <2>2, <2>3
<1>8. ASSUME NEW i \in 1 .. Len(s), s[i].step <= t, i = Len(s) \/ s[i + 1].step > t
      PROVE  i = c
  <2>1. i < c \/ c < i \/ i = c
    BY <1>1, <1>3
  <2> QED BY <1>3, <1>5, <1>6, <1>7, <1>8, <2>1
<1>9. Record!CountBy(Shown(s), t) = c
  <2> DEFINE h == Shown(s)
  <2>1. /\ Len(h) = Len(s) /\ \A k \in 1 .. Len(s) : h[k].step = s[k].step
    <3>1. Len(h) = Len(s) /\ \A k \in 1 .. Len(s) : h[k] = Seen(s[k])
      BY <1>1, ShownIs
    <3>2. \A k \in 1 .. Len(s) : Seen(s[k]).step = s[k].step
      BY DEF Seen
    <3> HIDE DEF h
    <3> QED BY <3>1, <3>2
  <2> HIDE DEF h
  <2>2. \A n \in 1 .. Len(h) : (h[n].step <= t <=> s[n].step <= t)
          /\ (n = Len(h) \/ h[n + 1].step > t <=> n = Len(s) \/ s[n + 1].step > t)
    BY <1>1, <2>1
  <2>3. /\ c \in 1 .. Len(h) /\ h[c].step <= t
        /\ c = Len(h) \/ h[c + 1].step > t
    BY <1>3, <1>5, <1>6, <2>1, <2>2
  <2>4. ASSUME NEW n \in 1 .. Len(h), h[n].step <= t, n = Len(h) \/ h[n + 1].step > t
        PROVE  n = c
    BY <1>8, <2>1, <2>2, <2>4
  <2>5. Record!CountBy(h, t) = c
    BY <2>3, <2>4 DEF Record!CountBy
  <2> QED BY <2>5 DEF h
<1>10. Record!Upto(Shown(s), t) = Shown(SubSeq(s, 1, c))
  BY <1>1, <1>3, <1>9, ShownPrefix DEF Record!Upto
<1>11. Recorded(SubSeq(s, 1, c), t, lt)
  <2> DEFINE r == SubSeq(s, 1, c)
  <2>1. r \in Seq(State) /\ Len(r) = c /\ \A k \in 1 .. c : r[k] = s[k]
    BY <1>1, <1>3, StatePrefix
  <2> HIDE DEF r
  <2>2. c \in Nat /\ c >= 1 /\ \A k \in 1 .. c : k \in 1 .. Len(s)
    BY <1>1, <1>3
  <2>3. Rising(r)
    BY <1>4, <2>1, <2>2 DEF Rising
  <2>4. r[Len(r)].step <= t /\ r[1].step <= lt
    BY <1>4, <1>5, <2>1, <2>2
  <2> QED BY <2>1, <2>2, <2>3, <2>4 DEF Recorded, r
<1> QED BY <1>3, <1>10, <1>11 DEF c, T
RecordInv ==
  /\ StateInv /\ MsgInv /\ ClockInv
  /\ \A i \in Insts : Recorded(chain[i], evt_step, last_time)

\* What `record' of EvtRecord stands for.
RecordIs == [i \in Insts |-> [n \in 1 .. Len(chain[i]) |->
               [step |-> chain[i][n].step, val |-> chain[i][n].val]]]

LEMMA RecordShown ==
  /\ RecordIs = [i \in Insts |-> Shown(chain[i])]
  /\ RecordIs' = [i \in Insts |-> Shown(chain'[i])]
BY DEF RecordIs, Shown, Seen

LEMMA LoadRecord ==
  ASSUME RecordInv, NEW i \in Insts, EVTload(i)
  PROVE  /\ \A j \in Insts : Recorded(chain'[j], evt_step', last_time')
         /\ \E ks \in SUBSET Insts : \E new \in [ks -> Values] : Record!Write(new)
<1>1. PICK b \in Blocks, v \in Values : EVTcreate_state(i, b, v)
  BY DEF EVTload
<1> DEFINE e == NewState(i, b, v)
<1>2. /\ chain' = [chain EXCEPT ![i] = Append(chain[i], e)]
      /\ UNCHANGED <<evt_step, last_time>>
      /\ chain \in [Insts -> Seq(State)] /\ evt_step \in Time
  BY <1>1 DEF EVTcreate_state, EVTload, RecordInv, StateInv, ChainType
<1>3. e \in State /\ e.step = evt_step /\ Seen(e) = [step |-> evt_step, val |-> v]
  <2>1. Last(chain[i]) \in State
    BY StatesAre DEF Last, RecordInv
  <2> QED BY <1>2, <2>1 DEF NewState, State, Seen
<1> HIDE DEF e
<1>4. ASSUME NEW j \in Insts PROVE chain'[j] = IF j = i THEN Append(chain[j], e) ELSE chain[j]
  BY <1>2
<1>5. ASSUME NEW j \in Insts PROVE Recorded(chain'[j], evt_step', last_time')
  <2>1. Recorded(chain[j], evt_step, last_time)
    BY DEF RecordInv
  <2>2. Recorded(Append(chain[j], e), evt_step, last_time)
    BY <1>3, <2>1, AppendRecorded
  <2> QED BY <1>2, <1>4, <2>1, <2>2
<1> DEFINE new == [k \in {i} |-> v]
<1>6. new \in [{i} -> Values] /\ DOMAIN new = {i} /\ new[i] = v
  OBVIOUS
<1> HIDE DEF new
<1>7. RecordIs' = [k \in Insts |-> IF k \in DOMAIN new
                                   THEN Append(RecordIs[k], [step |-> evt_step, val |-> new[k]])
                                   ELSE RecordIs[k]]
  <2>1. ASSUME NEW k \in Insts
        PROVE  Shown(chain'[k]) = IF k = i THEN Append(Shown(chain[k]), Seen(e))
                                  ELSE Shown(chain[k])
    BY <1>2, <1>3, <1>4, ShownAppend
  <2> QED BY <1>3, <1>6, <2>1, RecordShown
<1>8. Record!Write(new)
  BY <1>2, <1>7 DEF Record!Write, RecordIs
<1> QED BY <1>5, <1>6, <1>8

LEMMA AcceptRecord ==
  ASSUME RecordInv, EVTaccept
  PROVE  /\ \A i \in Insts : Recorded(chain'[i], evt_step', last_time')
         /\ \E ks \in SUBSET Insts : Record!Accept(ks)
<1>1. /\ chain' = [i \in Insts |-> IF i \in modified THEN <<Last(chain[i])>> ELSE chain[i]]
      /\ last_time' = target /\ evt_step' = evt_step /\ evt_step = target
  BY DEF EVTaccept, RecordInv, ClockInv
<1>2. ASSUME NEW i \in Insts
      PROVE  /\ Recorded(chain[i], evt_step, last_time)
             /\ i \in modified <=> Len(chain[i]) > 1
  BY DEF RecordInv, StateInv, ModifiedExact
<1>3. ASSUME NEW i \in Insts PROVE Recorded(chain'[i], evt_step', last_time')
  <2>1. chain'[i] = <<chain[i][Len(chain[i])]>>
        \/ (chain'[i] = chain[i] /\ Len(chain[i]) = 1)
    <3>1. CASE i \in modified
      BY <1>1, <3>1 DEF Last
    <3>2. CASE i \notin modified
      <4>1. Len(chain[i]) \in Nat /\ Len(chain[i]) >= 1
        BY <1>2, StatesAre
      <4>2. ~ (Len(chain[i]) > 1)
        BY <1>2, <3>2
      <4>3. Len(chain[i]) = 1
        BY <4>1, <4>2, JustOne
      <4> QED BY <1>1, <3>2, <4>3
    <3> QED BY <3>1, <3>2
  <2> QED BY <1>1, <1>2, <2>1, OneRecorded
<1>4. RecordIs' = [i \in Insts |-> IF i \in modified
                                   THEN <<RecordIs[i][Len(RecordIs[i])]>> ELSE RecordIs[i]]
  <2>1. ASSUME NEW i \in Insts
        PROVE  Shown(chain'[i]) = IF i \in modified
                                  THEN <<Shown(chain[i])[Len(Shown(chain[i]))]>>
                                  ELSE Shown(chain[i])
    <3> DEFINE e == chain[i][Len(chain[i])]
    <3>1. /\ chain[i] \in Seq(State) /\ e \in State /\ Len(chain[i]) \in 1 .. Len(chain[i])
      BY <1>2, StatesAre
    <3>2. Shown(chain[i])[Len(Shown(chain[i]))] = Seen(e)
      BY <3>1, ShownIs
    <3>3. i \in modified => chain'[i] = <<e>>
      BY <1>1 DEF Last
    <3>4. i \notin modified => chain'[i] = chain[i]
      BY <1>1
    <3> HIDE DEF e
    <3>5. Shown(<<e>>) = <<Seen(e)>>
      BY <3>1, ShownOne
    <3> QED BY <3>2, <3>3, <3>4, <3>5
  <2> QED BY <2>1, RecordShown
<1>5. PICK ks \in SUBSET Insts : ks = modified
  BY DEF RecordInv, StateInv, ChainType
<1>6. Record!Accept(ks)
  BY <1>1, <1>4, <1>5 DEF Record!Accept, RecordIs
<1> QED BY <1>3, <1>6

LEMMA BackupRecord ==
  ASSUME RecordInv, NEW t \in Time, Backup(t)
  PROVE  /\ \A i \in Insts : Recorded(chain'[i], evt_step', last_time')
         /\ Record!Retract(t)
<1>1. /\ chain' = [i \in Insts |-> IF i \in modified
                                   THEN SubSeq(chain[i], 1, StateCut(i, t))
                                   ELSE chain[i]]
      /\ evt_step' = t /\ last_time' = last_time
      /\ last_time < t /\ t < target /\ evt_step = target /\ last_time \in Time
  BY DEF Backup, EVTbackup_state_data, RecordInv, ClockInv
<1>2. ASSUME NEW i \in Insts
      PROVE  /\ Recorded(chain'[i], t, last_time)
             /\ Shown(chain'[i]) = Record!Upto(Shown(chain[i]), t)
  <2> DEFINE s == chain[i]
             c == Cut(Times(s), 1, t)
  <2>1. Recorded(s, evt_step, last_time) /\ (i \in modified <=> Len(s) > 1)
    BY DEF RecordInv, StateInv, ModifiedExact
  <2>2. /\ c \in 1 .. Len(s) /\ Recorded(SubSeq(s, 1, c), t, last_time)
        /\ Record!Upto(Shown(s), t) = Shown(SubSeq(s, 1, c))
    <3> HIDE DEF s
    <3> QED BY <1>1, <2>1, CutRecorded
  <2>3. c = StateCut(i, t)
    BY DEF StateCut, StateTimes, Times
  <2>4. Len(s) \in Nat /\ Len(s) >= 1 /\ s \in Seq(State)
    BY <2>1, StatesAre
  <2>5. chain'[i] = SubSeq(s, 1, c)
    <3>1. CASE i \in modified
      BY <1>1, <2>3, <3>1
    <3>2. CASE i \notin modified
      <4>1. Len(s) = 1
        <5> HIDE DEF s
        <5>1. ~ (Len(s) > 1)
          BY <2>1, <3>2
        <5> QED BY <2>4, <5>1, JustOne
      <4>2. c = Len(s)
        <5> HIDE DEF s, c
        <5> QED BY <2>2, <4>1
      <4>3. SubSeq(s, 1, Len(s)) = s
        <5> HIDE DEF s
        <5> QED BY <2>4
      <4>4. chain'[i] = s
        BY <1>1, <3>2
      <4> HIDE DEF s, c
      <4> QED BY <4>2, <4>3, <4>4
    <3> QED BY <3>1, <3>2
  <2> HIDE DEF c
  <2> QED BY <2>2, <2>5
<1>3. RecordIs' = [i \in Insts |-> Record!Upto(RecordIs[i], t)]
  BY <1>2, RecordShown
<1>4. Record!Retract(t)
  BY <1>1, <1>3 DEF Record!Retract, RecordIs
<1> QED BY <1>1, <1>2, <1>4

LEMMA RecordStep ==
  ASSUME RecordInv, [Next]_vars
  PROVE  RecordInv' /\ [Record!Next]_<<RecordIs, evt_step, last_time>>
<1>1. StateInv' /\ MsgInv' /\ ClockInv' /\ evt_step \in Nat /\ target \in Nat /\ last_time \in Nat
      /\ evt_step <= target /\ target \in Time
  BY NextStates, NextMessages, StateAssumption DEF RecordInv, ClockInv, Time
<1>2. ASSUME UNCHANGED <<chain, last_time>>, NEW later \in Time,
             evt_step' = later, evt_step <= later
      PROVE  /\ \A i \in Insts : Recorded(chain'[i], evt_step', last_time')
             /\ Record!Advance(later)
  <2>1. later \in Nat
    BY StateAssumption DEF Time
  <2>2. \A i \in Insts : Recorded(chain'[i], evt_step', last_time')
    BY <1>1, <1>2, <2>1, LaterRecorded DEF RecordInv
  <2> QED BY <1>2, <2>2 DEF Record!Advance
<1>3. ASSUME UNCHANGED <<chain, evt_step, last_time>>
      PROVE  /\ \A i \in Insts : Recorded(chain'[i], evt_step', last_time')
             /\ UNCHANGED <<RecordIs, evt_step, last_time>>
  BY <1>3 DEF RecordInv, RecordIs
<1>4. ASSUME NEW t \in Time, EventRound(t)
      PROVE  UNCHANGED <<chain, last_time>> /\ evt_step' = t /\ evt_step <= t
  BY <1>4 DEF EventRound, states
<1>5. ASSUME NEW t \in Time, StartStep(t) \/ EndRound(t)
      PROVE  UNCHANGED <<chain, evt_step, last_time>>
  BY <1>5 DEF StartStep, EndRound, states
<1>6. ASSUME Solve PROVE UNCHANGED <<chain, last_time>> /\ evt_step' = target
  BY <1>6 DEF Solve, states
<1>7. ASSUME UNCHANGED vars PROVE UNCHANGED <<chain, evt_step, last_time>>
  BY <1>7 DEF vars
<1>8. /\ \A i \in Insts : Recorded(chain'[i], evt_step', last_time')
      /\ [Record!Next]_<<RecordIs, evt_step, last_time>>
  <2>1. CASE \E t \in Time : EventRound(t)
    BY <1>2, <1>4, <2>1 DEF Record!Next, Record!Time, Time
  <2>2. CASE (\E t \in Time : StartStep(t) \/ EndRound(t)) \/ UNCHANGED vars
    BY <1>3, <1>5, <1>7, <2>2
  <2>3. CASE Solve
    BY <1>1, <1>2, <1>6, <2>3 DEF Record!Next, Record!Time, Time
  <2>4. CASE \E i \in Insts : EVTload(i)
    BY <2>4, LoadRecord DEF Record!Next
  <2>5. CASE \E t \in Time : Backup(t)
    BY <2>5, BackupRecord DEF Record!Next, Record!Time, Time
  <2>6. CASE EVTaccept
    BY <2>6, AcceptRecord DEF Record!Next
  <2> QED BY <2>1, <2>2, <2>3, <2>4, <2>5, <2>6 DEF Next
<1> QED BY <1>1, <1>8 DEF RecordInv
LEMMA RecordStart == Init => RecordInv /\ Record!Init
<1> SUFFICES ASSUME Init PROVE RecordInv /\ Record!Init
  OBVIOUS
<1>1. StateInv /\ MsgInv /\ ClockInv /\ evt_step = 0 /\ last_time = 0
  BY InitStates, InitMessages DEF Init
<1>2. ASSUME NEW i \in Insts
      PROVE  /\ Recorded(chain[i], 0, 0)
             /\ Shown(chain[i]) \in {<<e>> : e \in [step : {0}, val : Values]}
  <2>1. PICK e \in [block : Blocks, step : {0}, val : Values, prev : {Null}] :
          chain[i] = <<e>>
    BY DEF Init
  <2>2. e \in State /\ e.step = 0 /\ Seen(e) \in [step : {0}, val : Values]
    BY <2>1, StateAssumption DEF State, Time, Seen
  <2>3. chain[i] \in Seq(State) /\ Len(chain[i]) = 1 /\ chain[i][1] = e
    BY <2>1, <2>2
  <2>4. Recorded(chain[i], 0, 0)
    BY <2>2, <2>3 DEF Recorded, Rising
  <2>5. Shown(chain[i]) = <<Seen(e)>>
    BY <2>1, <2>2, ShownOne
  <2> QED BY <2>2, <2>4, <2>5
<1>3. RecordIs \in [Insts -> {<<e>> : e \in [step : {0}, val : Values]}]
  BY <1>2, RecordShown
<1>4. Record!Init
  BY <1>1, <1>3 DEF Record!Init, RecordIs
<1> QED BY <1>1, <1>2, <1>4 DEF RecordInv

\* The states of the instances are the abstract record (RecordSpec): a call adds a
\* value, a backup takes away exactly the values of the time it goes back over,
\* although it looks only at instances of the modified list, and an accepted
\* timepoint forgets none that holds.
THEOREM StateRefinement == Spec => RecordSpec
<1>1. RecordInv /\ [Next]_vars => [Record!Next]_(Record!vars)
  BY RecordStep DEF RecordIs, Record!vars
<1>2. RecordInv /\ [Next]_vars => RecordInv'
  BY RecordStep
<1> QED BY <1>1, <1>2, RecordStart, PTL DEF Spec, RecordSpec, Record!Spec
=============================================================================
