------------------------- MODULE EvtInstQueueProofs -------------------------
(***************************************************************************)
(* The instance event queue keeps its invariant and implements the timeline *)
(* of EvtTimeline, for every set of instances and every time bound.         *)
(***************************************************************************)
EXTENDS EvtInstQueue, WellFoundedInduction, TLAPS

-----------------------------------------------------------------------------
(* Minima: what MinTime, First and Compact compute.                         *)

\* A nonempty set of naturals has a least element.
LEMMA LeastNat ==
  ASSUME NEW T \in SUBSET Nat, T # {}
  PROVE  \E x \in T : \A y \in T : x <= y
<1>1. IsWellFoundedOn(OpToRel(<, Nat), Nat)
  BY NatLessThanWellFounded
<1>2. PICK x \in T : \A y \in T : ~ (<<y, x>> \in OpToRel(<, Nat))
  BY <1>1, WFMin, Zenon
<1>3. \A y \in T : x <= y
  <2> TAKE y \in T
  <2>1. x \in Nat /\ y \in Nat
    OBVIOUS
  <2>2. ~ (y < x)
    BY <1>2, <2>1 DEF OpToRel
  <2> QED BY <2>1, <2>2
<1> QED BY <1>3

\* MinTime of a nonempty set of times is its least element.
LEMMA MinTimeLeast ==
  ASSUME NEW T \in SUBSET Time, T # {}
  PROVE  MinTime(T) \in T /\ \A u \in T : MinTime(T) <= u
<1>1. T \in SUBSET Nat
  BY MaxTimeAssumption DEF Time
<1>2. \E x \in T : \A y \in T : x <= y
  BY <1>1, LeastNat
<1> QED BY <1>2, Zenon DEF MinTime

\* A nonempty list has a first element.
LEMMA FirstExists ==
  ASSUME NEW S \in SUBSET Event, S # {}
  PROVE  \E e \in S : e \in First(S)
<1> DEFINE T == {e.et : e \in S}
<1>1. T \in SUBSET Nat /\ T # {}
  BY MaxTimeAssumption DEF Event, Time
<1>2. PICK x \in T : \A y \in T : x <= y
  BY <1>1, LeastNat, Zenon
<1>3. PICK e \in S : x = e.et
  BY <1>2
<1>4. \A f \in S : e.et <= f.et
  BY <1>2, <1>3
<1> QED BY <1>3, <1>4 DEF First

\* next_time recomputed over a set of instances that covers the nonempty lists
\* is the time of the earliest event.
LEMMA CompactNextTime ==
  ASSUME NEW L \in [Insts -> SUBSET Event], NEW is \in SUBSET Insts,
         \A i \in Insts \ is : L[i] = {},
         NEW m, m = MinTime(NextTimes(L, is))
  PROVE  /\ m \in Time \cup {Infinity}
         /\ (\E i \in Insts : L[i] # {}) =>
              /\ \E i \in Insts : \E e \in L[i] : e.et = m
              /\ \A i \in Insts : \A e \in L[i] : m <= e.et
<1> DEFINE T == NextTimes(L, is)
<1>1. T \in SUBSET Time
  BY DEF NextTimes, First, Event
<1>2. CASE T = {}
  <2>1. m = Infinity
    BY <1>2, Zenon DEF MinTime
  <2>2. ASSUME NEW i \in Insts, L[i] # {} PROVE FALSE
    <3>1. PICK e \in L[i] : e \in First(L[i])
      BY <2>2, FirstExists
    <3>2. e.et \in T
      BY <2>2, <3>1 DEF NextTimes
    <3> QED BY <1>2, <3>2
  <2> QED BY <2>1, <2>2
<1>3. CASE T # {}
  <2>1. m \in T /\ \A u \in T : m <= u
    BY <1>1, <1>3, MinTimeLeast
  <2>2. \E i \in Insts : \E e \in L[i] : e.et = m
    BY <2>1 DEF NextTimes, First
  <2>3. ASSUME NEW i \in Insts, NEW e \in L[i] PROVE m <= e.et
    <3>1. PICK f \in L[i] : f \in First(L[i])
      BY FirstExists
    <3>2. f.et \in T /\ f.et <= e.et
      BY <3>1 DEF NextTimes, First
    <3>3. m <= f.et /\ m \in Nat /\ f.et \in Nat /\ e.et \in Nat
      BY <1>1, <2>1, <3>2, MaxTimeAssumption DEF Event, Time
    <3> QED BY <3>2, <3>3
  <2> QED BY <1>1, <2>1, <2>2, <2>3
<1> QED BY <1>2, <1>3

-----------------------------------------------------------------------------
(* Type correctness of one step.                                            *)

USE DEF Time, Event

LEMMA InitInv == Init => IndInv
<1> SUFFICES ASSUME Init PROVE IndInv
  OBVIOUS
<1> USE MaxTimeAssumption DEF Init, EmptyLists
<1>1. TypeOK
  BY DEF TypeOK
<1>2. NextTimeExact /\ UnmodifiedIsClean /\ NoneBehind /\ OneEventPerTime
  BY DEF NextTimeExact, UnmodifiedIsClean, NoneBehind, OneEventPerTime
<1>3. PostedEarlier /\ DoneInStep /\ StepOrder
  BY DEF PostedEarlier, DoneInStep, StepOrder
<1> QED BY <1>1, <1>2, <1>3 DEF IndInv

\* Queueing an event keeps the invariant.
LEMMA QueueInv ==
  ASSUME IndInv, NEW i \in Insts, NEW t \in Time, cm_event_queue(i, t)
  PROVE  IndInv'
<1> USE MaxTimeAssumption
<1> DEFINE new == [et |-> t, pt |-> evt_step]
<1>1. /\ TypeOK /\ NextTimeExact /\ UnmodifiedIsClean /\ NoneBehind
      /\ OneEventPerTime /\ PostedEarlier /\ DoneInStep /\ StepOrder
  BY DEF IndInv
<1>2. /\ t > evt_step
      /\ EVTqueue_inst(i, t)
      /\ UNCHANGED <<kept, done, last_time, to_call, evt_step, target, phase>>
  BY DEF cm_event_queue, EVTqueue_inst
<1>3. new \in Event /\ evt_step \in Nat /\ t \in Nat /\ last_time \in Nat
  BY <1>1 DEF TypeOK
<1>4. next_time' = IF pending = {} \/ t < next_time THEN t ELSE next_time
  BY <1>2 DEF EVTqueue_inst
<1>5. CASE \E e \in todo[i] : e.et = t
  <2>1. UNCHANGED <<todo, modified, pending>>
    BY <1>2, <1>5 DEF EVTqueue_inst
  <2>2. next_time' = next_time
    BY <1>1, <1>4, <1>5 DEF NextTimeExact, TypeOK
  <2> QED BY <1>1, <1>2, <2>1, <2>2
    DEF IndInv, TypeOK, NextTimeExact, UnmodifiedIsClean, NoneBehind,
        OneEventPerTime, PostedEarlier, DoneInStep, StepOrder
<1>6. CASE ~ \E e \in todo[i] : e.et = t
  <2>1. /\ todo' = [todo EXCEPT ![i] = @ \cup {new}]
        /\ modified' = modified \cup {i}
        /\ pending' = pending \cup {i}
    BY <1>2, <1>6 DEF EVTqueue_inst
  <2>2. TypeOK'
    BY <1>1, <1>2, <1>3, <1>4, <2>1 DEF TypeOK
  <2>3. /\ \A j \in Insts : todo[j] \subseteq todo'[j]
        /\ \A j \in Insts : \A e \in todo'[j] : e \in todo[j] \/ (j = i /\ e = new)
        /\ new \in todo'[i]
    BY <1>1, <2>1 DEF TypeOK
  <2>4. NextTimeExact'
    <3>1. \A j \in Insts : j \in pending' <=> todo'[j] # {}
      BY <1>1, <2>1, <2>3 DEF NextTimeExact, TypeOK
    <3>2. CASE pending = {}
      <4>1. next_time' = t /\ \A j \in Insts : todo[j] = {}
        BY <1>1, <1>4, <3>2 DEF NextTimeExact
      <4> QED BY <1>3, <2>3, <3>1, <4>1 DEF NextTimeExact
    <3>3. CASE pending # {}
      <4>1. next_time \in Nat /\ \A j \in Insts : \A e \in todo[j] : e.et \in Nat
        BY <1>1 DEF TypeOK, Infinity
      <4>2. /\ \E j \in Insts : \E e \in todo[j] : e.et = next_time
            /\ \A j \in Insts : \A e \in todo[j] : next_time <= e.et
        BY <1>1, <3>3 DEF NextTimeExact
      <4>3. next_time' <= next_time /\ next_time' <= t /\ next_time' \in {t, next_time}
        BY <1>3, <1>4, <3>3, <4>1
      <4>4. \E j \in Insts : \E e \in todo'[j] : e.et = next_time'
        BY <2>3, <4>2, <4>3
      <4>5. \A j \in Insts : \A e \in todo'[j] : next_time' <= e.et
        BY <1>3, <2>3, <4>1, <4>2, <4>3
      <4> QED BY <3>1, <4>4, <4>5 DEF NextTimeExact
    <3> QED BY <3>2, <3>3
  <2>5. UnmodifiedIsClean'
    BY <1>1, <1>2, <2>1, <2>3 DEF UnmodifiedIsClean
  <2>6. NoneBehind'
    BY <1>1, <1>2, <2>3 DEF NoneBehind
  <2>7. OneEventPerTime'
    <3>1. \A e \in done[i] : e.et # t
      BY <1>1, <1>2, <1>3 DEF DoneInStep, TypeOK
    <3> QED BY <1>1, <1>2, <1>6, <2>3, <3>1 DEF OneEventPerTime
  <2>8. PostedEarlier'
    BY <1>1, <1>2, <1>3, <2>3 DEF PostedEarlier
  <2>9. DoneInStep' /\ StepOrder'
    BY <1>1, <1>2 DEF DoneInStep, StepOrder
  <2> QED BY <2>2, <2>4, <2>5, <2>6, <2>7, <2>8, <2>9 DEF IndInv
<1> QED BY <1>5, <1>6

\* The control steps, which leave the queue alone, keep the invariant.
LEMMA ControlInv ==
  ASSUME IndInv, NEW t \in Time,
         \/ \E i \in Insts : EVTload(i)
         \/ EndRound(t) \/ StartStep(t) \/ Solve
  PROVE  IndInv'
<1> USE MaxTimeAssumption
<1>1. /\ TypeOK /\ NextTimeExact /\ UnmodifiedIsClean /\ NoneBehind
      /\ OneEventPerTime /\ PostedEarlier /\ DoneInStep /\ StepOrder
  BY DEF IndInv
<1>2. UNCHANGED queue
  BY DEF EVTload, EndRound, StartStep, Solve
<1>3. NextTimeExact' /\ UnmodifiedIsClean' /\ OneEventPerTime'
  BY <1>1, <1>2 DEF queue, NextTimeExact, UnmodifiedIsClean, OneEventPerTime
<1>4. CASE (\E i \in Insts : EVTload(i)) \/ EndRound(t) \/ StartStep(t)
  <2>1. UNCHANGED evt_step /\ TypeOK'
    BY <1>1, <1>2, <1>4 DEF TypeOK, queue, EVTload, EndRound, StartStep
  <2>2. StepOrder'
    BY <1>1, <1>2, <1>4 DEF StepOrder, TypeOK, queue, EVTload, EndRound, StartStep
  <2>3. NoneBehind' /\ PostedEarlier' /\ DoneInStep'
    BY <1>1, <1>2, <2>1 DEF queue, NoneBehind, PostedEarlier, DoneInStep
  <2> QED BY <1>3, <2>1, <2>2, <2>3 DEF IndInv
<1>5. CASE Solve
  <2>1. /\ phase = "loop" /\ phase' = "solve" /\ evt_step' = target
        /\ UNCHANGED <<to_call, target>>
        /\ pending = {} \/ next_time > target
    BY <1>5 DEF Solve
  <2>2. TypeOK' /\ StepOrder'
    BY <1>1, <1>2, <2>1 DEF TypeOK, StepOrder, queue
  <2>3. \A i \in Insts : \A e \in todo[i] : e.et > target
    <3> SUFFICES ASSUME NEW i \in Insts, NEW e \in todo[i] PROVE e.et > target
      OBVIOUS
    <3>1. pending # {} /\ next_time <= e.et
      BY <1>1 DEF NextTimeExact
    <3>2. next_time \in Nat /\ e.et \in Nat /\ target \in Nat
      BY <1>1 DEF TypeOK, Infinity
    <3> QED BY <2>1, <3>1, <3>2
  <2>4. NoneBehind'
    BY <1>2, <2>1, <2>3 DEF NoneBehind, queue
  <2>5. evt_step <= target /\ evt_step \in Nat /\ target \in Nat
    BY <1>1 DEF StepOrder, TypeOK
  <2>6. PostedEarlier' /\ DoneInStep'
    BY <1>1, <1>2, <2>1, <2>5 DEF PostedEarlier, DoneInStep, queue, TypeOK
  <2> QED BY <1>3, <2>2, <2>4, <2>6 DEF IndInv
<1> QED BY <1>4, <1>5

\* What EVTdequeue_inst does when it does not return early: the due instances'
\* first events, all of them at `time', move from todo to done.
LEMMA DequeueMoves ==
  ASSUME IndInv, NEW time \in Time, EVTdequeue_inst(time),
         pending # {}, next_time = time
  PROVE  /\ \A i \in Insts : todo'[i] \subseteq todo[i] /\ done[i] \subseteq done'[i]
         /\ \A i \in Insts : \A e \in todo[i] :
              IF e.et = time THEN e \in done'[i] /\ e \notin todo'[i]
                             ELSE e \in todo'[i]
         /\ \A i \in Insts : \A e \in done'[i] : e \in done[i] \/ (e \in todo[i] /\ e.et = time)
         /\ \A i \in Insts : todo'[i] # todo[i] \/ done'[i] # done[i] => i \in Due(time)
         /\ todo' \in [Insts -> SUBSET Event] /\ done' \in [Insts -> SUBSET Event]
         /\ \A i \in Insts : i \in Due(time) <=> \E e \in todo[i] : e.et = time
<1> USE MaxTimeAssumption
<1>1. TypeOK /\ NextTimeExact /\ OneEventPerTime
  BY DEF IndInv
<1>2. /\ todo' = [i \in Insts |-> IF i \in Due(time) THEN todo[i] \ First(todo[i])
                                                    ELSE todo[i]]
      /\ done' = [i \in Insts |-> IF i \in Due(time) THEN done[i] \cup First(todo[i])
                                                    ELSE done[i]]
  BY DEF EVTdequeue_inst
<1>3. \A i \in Insts : \A e \in todo[i] : time <= e.et /\ e.et \in Nat /\ time \in Nat
  BY <1>1 DEF NextTimeExact, TypeOK
<1>4. \A i \in Insts : \A e \in todo[i] : e.et = time => e \in First(todo[i])
  BY <1>3 DEF First
<1>5. \A i \in Insts : i \in Due(time) <=> \E e \in todo[i] : e.et = time
  BY <1>1, <1>4 DEF Due, First, NextTimeExact
<1>6. \A i \in Insts : i \in Due(time) => \A e \in First(todo[i]) : e.et = time
  <2> SUFFICES ASSUME NEW i \in Insts, i \in Due(time), NEW e \in First(todo[i])
               PROVE  e.et = time
    OBVIOUS
  <2>1. PICK f \in todo[i] : f.et = time
    BY <1>5
  <2>2. e \in todo[i] /\ e.et <= time
    BY <2>1 DEF First
  <2> QED BY <1>3, <2>2
<1>7. \A i \in Insts : First(todo[i]) \subseteq todo[i]
  BY DEF First
<1>8. todo' \in [Insts -> SUBSET Event] /\ done' \in [Insts -> SUBSET Event]
  BY <1>1, <1>2, <1>7 DEF TypeOK
<1>9. \A i \in Insts : \A e \in todo[i] :
        IF e.et = time THEN e \in done'[i] /\ e \notin todo'[i] ELSE e \in todo'[i]
  BY <1>2, <1>4, <1>5, <1>6
<1> QED BY <1>2, <1>5, <1>6, <1>7, <1>8, <1>9

\* The early return of EVTdequeue_inst: no event is due.
LEMMA DequeueNothing ==
  ASSUME IndInv, NEW time \in Time, pending # {} => time <= next_time,
         pending = {} \/ next_time # time
  PROVE  \A i \in Insts : \A e \in todo[i] : e.et > time
<1> USE MaxTimeAssumption
<1> SUFFICES ASSUME NEW i \in Insts, NEW e \in todo[i] PROVE e.et > time
  OBVIOUS
<1>1. TypeOK /\ NextTimeExact
  BY DEF IndInv
<1>2. pending # {} /\ next_time <= e.et
  BY <1>1 DEF NextTimeExact
<1>3. next_time \in Nat /\ e.et \in Nat /\ time \in Nat
  BY <1>1 DEF TypeOK, Infinity
<1> QED BY <1>2, <1>3

\* A round of the event loop keeps the invariant.
LEMMA RoundInv ==
  ASSUME IndInv, NEW time \in Time, EventRound(time)
  PROVE  IndInv'
<1> USE MaxTimeAssumption
<1>1. /\ TypeOK /\ NextTimeExact /\ UnmodifiedIsClean /\ NoneBehind
      /\ OneEventPerTime /\ PostedEarlier /\ DoneInStep /\ StepOrder
  BY DEF IndInv
<1>2. /\ phase = "loop" /\ phase' = "iter" /\ evt_step <= time /\ time <= target
      /\ evt_step' = time /\ target' = target
      /\ pending # {} => time <= next_time
      /\ EVTdequeue_inst(time)
  BY DEF EventRound
<1>3. /\ evt_step \in Nat /\ time \in Nat /\ last_time \in Nat /\ target \in Nat
      /\ last_time <= evt_step /\ last_time < target
  BY <1>1, <1>2 DEF TypeOK, StepOrder
<1>4. CASE pending = {} \/ next_time # time
  <2>1. UNCHANGED <<queue, to_call>>
    BY <1>2, <1>4 DEF EVTdequeue_inst
  <2>2. \A i \in Insts : \A e \in todo[i] : e.et > time
    BY <1>2, <1>4, DequeueNothing
  <2>3. TypeOK' /\ NextTimeExact' /\ UnmodifiedIsClean' /\ OneEventPerTime'
    BY <1>1, <1>2, <2>1
      DEF queue, TypeOK, NextTimeExact, UnmodifiedIsClean, OneEventPerTime
  <2>4. NoneBehind' /\ StepOrder'
    BY <1>1, <1>2, <1>3, <2>1, <2>2 DEF queue, NoneBehind, StepOrder
  <2>5. PostedEarlier' /\ DoneInStep'
    BY <1>1, <1>2, <1>3, <2>1 DEF queue, PostedEarlier, DoneInStep, TypeOK
  <2> QED BY <2>3, <2>4, <2>5 DEF IndInv
<1>5. CASE pending # {} /\ next_time = time
  <2>1. /\ \A i \in Insts : todo'[i] \subseteq todo[i] /\ done[i] \subseteq done'[i]
        /\ \A i \in Insts : \A e \in todo[i] :
              IF e.et = time THEN e \in done'[i] /\ e \notin todo'[i]
                             ELSE e \in todo'[i]
        /\ \A i \in Insts : \A e \in done'[i] :
              e \in done[i] \/ (e \in todo[i] /\ e.et = time)
        /\ \A i \in Insts : todo'[i] # todo[i] \/ done'[i] # done[i] => i \in Due(time)
        /\ todo' \in [Insts -> SUBSET Event] /\ done' \in [Insts -> SUBSET Event]
    BY <1>2, <1>5, DequeueMoves
  <2>2. /\ to_call' = to_call \cup Due(time)
        /\ modified' = modified \cup Due(time)
        /\ pending' = {i \in pending : todo'[i] # {}}
        /\ next_time' = MinTime(NextTimes(todo', pending))
        /\ UNCHANGED <<kept, last_time>>
    BY <1>2, <1>5 DEF EVTdequeue_inst, Compact
  <2>3. Due(time) \subseteq Insts
    BY <1>1 DEF Due, TypeOK
  <2>4. \A i \in Insts \ pending : todo'[i] = {}
    BY <1>1, <2>1 DEF NextTimeExact
  <2>5. /\ next_time' \in Time \cup {Infinity}
        /\ (\E i \in Insts : todo'[i] # {}) =>
              /\ \E i \in Insts : \E e \in todo'[i] : e.et = next_time'
              /\ \A i \in Insts : \A e \in todo'[i] : next_time' <= e.et
    BY <1>1, <2>1, <2>2, <2>4, CompactNextTime DEF TypeOK
  <2>6. TypeOK'
    BY <1>1, <1>2, <2>1, <2>2, <2>3, <2>5 DEF TypeOK
  <2>7. NextTimeExact'
    BY <1>1, <2>2, <2>4, <2>5 DEF NextTimeExact, TypeOK
  <2>8. UnmodifiedIsClean'
    BY <1>1, <2>1, <2>2 DEF UnmodifiedIsClean
  <2>9. \A i \in Insts : \A e \in todo[i] : time <= e.et /\ e.et \in Nat
    BY <1>1, <1>5 DEF NextTimeExact, TypeOK
  <2>10. NoneBehind'
    BY <1>2, <1>3, <2>1, <2>9 DEF NoneBehind
  <2>11. \A i \in Insts : \A e \in done'[i] \cup todo'[i] : e \in done[i] \cup todo[i]
    BY <2>1
  <2>12. OneEventPerTime'
    BY <1>1, <2>11 DEF OneEventPerTime
  <2>13. PostedEarlier'
    BY <1>1, <1>2, <1>3, <2>11 DEF PostedEarlier, TypeOK
  <2>14. DoneInStep'
    <3>1. \A i \in Insts : \A e \in done[i] : last_time < e.et /\ e.et <= time
      BY <1>1, <1>2, <1>3 DEF DoneInStep, TypeOK
    <3>2. \A i \in Insts : \A e \in todo[i] : e.et > last_time
      BY <1>1, <1>3 DEF NoneBehind, TypeOK
    <3> QED BY <1>2, <1>3, <2>1, <2>2, <3>1, <3>2 DEF DoneInStep
  <2>15. StepOrder'
    BY <1>1, <1>2, <1>3, <2>2 DEF StepOrder
  <2> QED BY <2>6, <2>7, <2>8, <2>10, <2>12, <2>13, <2>14, <2>15 DEF IndInv
<1> QED BY <1>4, <1>5

\* Accepting a timepoint frees no event that is still to come.
LEMMA AcceptKeepsTodo ==
  ASSUME IndInv, Accept
  PROVE  todo' = todo /\ done' = EmptyLists
<1> USE MaxTimeAssumption
<1>1. TypeOK /\ UnmodifiedIsClean /\ NoneBehind /\ StepOrder /\ phase = "solve"
  BY DEF IndInv, Accept
<1>2. \A i \in Insts : {e \in todo[i] : e.et >= target} = todo[i]
  <2> TAKE i \in Insts
  <2>1. \A e \in todo[i] : e.et >= target
    BY <1>1 DEF NoneBehind, StepOrder, TypeOK
  <2> QED BY <2>1
<1>3. todo' = todo
  <2>1. /\ todo \in [Insts -> SUBSET Event]
        /\ todo' \in [Insts -> SUBSET Event]
        /\ \A i \in Insts : todo'[i] = todo[i]
    BY <1>1, <1>2 DEF TypeOK, Accept, EVTaccept_inst
  <2> QED BY <2>1
<1>4. done' = EmptyLists
  BY <1>1 DEF Accept, EVTaccept_inst, EmptyLists, UnmodifiedIsClean
<1> QED BY <1>3, <1>4

LEMMA AcceptInv == ASSUME IndInv, Accept PROVE IndInv'
<1> USE MaxTimeAssumption
<1>1. /\ TypeOK /\ NextTimeExact /\ UnmodifiedIsClean /\ NoneBehind
      /\ OneEventPerTime /\ PostedEarlier /\ DoneInStep /\ StepOrder
  BY DEF IndInv
<1>2. todo' = todo /\ done' = EmptyLists
  BY AcceptKeepsTodo
<1>3. /\ modified' = {} /\ last_time' = target /\ phase = "solve" /\ phase' = "accepted"
      /\ UNCHANGED <<pending, next_time, to_call, evt_step, target>>
  BY DEF Accept, EVTaccept_inst
<1>4. evt_step = target /\ evt_step \in Nat
  BY <1>1, <1>3 DEF StepOrder, TypeOK
<1>5. TypeOK'
  <2>1. kept' \in [Insts -> SUBSET Event]
    BY <1>1 DEF Accept, EVTaccept_inst, TypeOK, Last
  <2>2. done' \in [Insts -> SUBSET Event]
    BY <1>2 DEF EmptyLists
  <2> QED BY <1>1, <1>2, <1>3, <2>1, <2>2 DEF TypeOK
<1>6. NextTimeExact' /\ NoneBehind' /\ StepOrder'
  BY <1>1, <1>2, <1>3, <1>4 DEF NextTimeExact, NoneBehind, StepOrder
<1>7. \A i \in Insts : done'[i] = {}
  BY <1>2 DEF EmptyLists
<1>8. UnmodifiedIsClean' /\ OneEventPerTime' /\ PostedEarlier' /\ DoneInStep'
  BY <1>1, <1>2, <1>3, <1>4, <1>7
    DEF UnmodifiedIsClean, OneEventPerTime, PostedEarlier, DoneInStep
<1> QED BY <1>5, <1>6, <1>8 DEF IndInv

\* What a backup to t leaves: of every instance, modified or not, exactly the
\* events posted by t, delivered if their time has come by t.
LEMMA BackupExact ==
  ASSUME IndInv, NEW t \in Time, Backup(t)
  PROVE  /\ done' \in [Insts -> SUBSET Event] /\ todo' \in [Insts -> SUBSET Event]
         /\ \A i \in Insts : \A e \in Event :
              /\ e \in done'[i] <=>
                   e \in done[i] \cup todo[i] /\ e.pt <= t /\ e.et <= t
              /\ e \in todo'[i] <=>
                   e \in done[i] \cup todo[i] /\ e.pt <= t /\ e.et > t
<1> USE MaxTimeAssumption
<1>1. TypeOK /\ UnmodifiedIsClean /\ NoneBehind /\ StepOrder
  BY DEF IndInv
<1>2. /\ last_time < t /\ t < target /\ phase = "solve"
      /\ EVTbackup_inst_queue(t)
  BY DEF Backup
<1>3. /\ done' = [i \in Insts |->
                    IF i \in modified
                    THEN {e \in {f \in done[i] \cup todo[i] : f.pt <= t} : e.et <= t}
                    ELSE done[i]]
      /\ todo' = [i \in Insts |->
                    IF i \in modified
                    THEN {e \in {f \in done[i] \cup todo[i] : f.pt <= t} : e.et > t}
                    ELSE todo[i]]
  BY <1>2, Zenon DEF EVTbackup_inst_queue
<1>4. done' \in [Insts -> SUBSET Event] /\ todo' \in [Insts -> SUBSET Event]
  BY <1>1, <1>3 DEF TypeOK
<1>5. ASSUME NEW i \in Insts, NEW e \in Event
      PROVE  /\ e \in done'[i] <=> e \in done[i] \cup todo[i] /\ e.pt <= t /\ e.et <= t
             /\ e \in todo'[i] <=> e \in done[i] \cup todo[i] /\ e.pt <= t /\ e.et > t
  <2>1. CASE i \in modified
    BY <1>3, <2>1
  <2>2. CASE i \notin modified
    <3>1. done[i] = {} /\ done'[i] = {} /\ todo'[i] = todo[i]
      BY <1>1, <1>3, <2>2 DEF UnmodifiedIsClean
    <3>2. \A f \in todo[i] : f.pt <= last_time /\ f.et > evt_step
      BY <1>1, <2>2 DEF UnmodifiedIsClean, NoneBehind
    <3>3. evt_step = target
      BY <1>1, <1>2 DEF StepOrder
    <3>4. \A f \in todo[i] : f.pt <= t /\ f.et > t
      BY <1>1, <1>2, <3>2, <3>3 DEF TypeOK
    <3>5. t \in Nat /\ e.et \in Nat
      OBVIOUS
    <3> QED BY <3>1, <3>4, <3>5
  <2> QED BY <2>1, <2>2
<1> QED BY <1>4, <1>5

LEMMA BackupInv ==
  ASSUME IndInv, NEW t \in Time, Backup(t)
  PROVE  IndInv'
<1> USE MaxTimeAssumption
<1>1. /\ TypeOK /\ NextTimeExact /\ UnmodifiedIsClean /\ NoneBehind
      /\ OneEventPerTime /\ PostedEarlier /\ DoneInStep /\ StepOrder
  BY DEF IndInv
<1>2. /\ last_time < t /\ t < target /\ phase = "solve"
      /\ target' = t /\ evt_step' = t /\ UNCHANGED <<kept, last_time, to_call, phase>>
      /\ pending' = {i \in pending \cup modified : todo'[i] # {}}
      /\ next_time' = MinTime(NextTimes(todo', pending \cup modified))
      /\ modified' = {i \in modified : StillModified(i)}
  BY DEF Backup, EVTbackup_inst_queue, Compact
<1>3. /\ done' \in [Insts -> SUBSET Event] /\ todo' \in [Insts -> SUBSET Event]
      /\ \A i \in Insts : \A e \in Event :
           /\ e \in done'[i] <=> e \in done[i] \cup todo[i] /\ e.pt <= t /\ e.et <= t
           /\ e \in todo'[i] <=> e \in done[i] \cup todo[i] /\ e.pt <= t /\ e.et > t
  BY BackupExact
<1>4. /\ \A i \in Insts : \A e \in done'[i] :
           e \in done[i] \cup todo[i] /\ e.pt <= t /\ e.et <= t
      /\ \A i \in Insts : \A e \in todo'[i] :
           e \in done[i] \cup todo[i] /\ e.pt <= t /\ e.et > t
  BY <1>3
<1>5. \A i \in Insts \ modified : done'[i] = {} /\ todo'[i] = todo[i]
  BY <1>1 DEF Backup, EVTbackup_inst_queue, UnmodifiedIsClean
<1>6. \A i \in Insts \ (pending \cup modified) : todo'[i] = {}
  BY <1>1, <1>5 DEF NextTimeExact
<1>7. pending \cup modified \in SUBSET Insts
  BY <1>1 DEF TypeOK
<1>8. /\ next_time' \in Time \cup {Infinity}
      /\ (\E i \in Insts : todo'[i] # {}) =>
            /\ \E i \in Insts : \E e \in todo'[i] : e.et = next_time'
            /\ \A i \in Insts : \A e \in todo'[i] : next_time' <= e.et
  BY <1>2, <1>3, <1>6, <1>7, CompactNextTime
<1>9. TypeOK'
  BY <1>1, <1>2, <1>3, <1>7, <1>8 DEF TypeOK
<1>10. NextTimeExact'
  BY <1>2, <1>6, <1>7, <1>8 DEF NextTimeExact
<1>11. UnmodifiedIsClean'
  <2> SUFFICES ASSUME NEW i \in Insts, i \notin modified'
               PROVE  done'[i] = {} /\ \A e \in todo'[i] : e.pt <= last_time
    BY <1>2 DEF UnmodifiedIsClean
  <2>1. CASE i \in modified
    <3>1. ~ StillModified(i)
      BY <1>2, <2>1
    <3>2. done'[i] = {} /\ \A e \in todo'[i] : ~ (e.pt > last_time)
      BY <3>1, <1>2 DEF StillModified
    <3>3. \A e \in todo'[i] : e.pt \in Nat /\ last_time \in Nat
      BY <1>1, <1>3 DEF TypeOK
    <3> QED BY <3>2, <3>3
  <2>2. CASE i \notin modified
    BY <1>1, <1>5, <2>2 DEF UnmodifiedIsClean
  <2> QED BY <2>1, <2>2
<1>12. NoneBehind' /\ OneEventPerTime'
  BY <1>1, <1>2, <1>4 DEF NoneBehind, OneEventPerTime
<1>13. PostedEarlier'
  BY <1>1, <1>2, <1>4 DEF PostedEarlier
<1>14. DoneInStep'
  <2>1. \A i \in Insts : \A e \in done[i] \cup todo[i] : last_time < e.et
    BY <1>1 DEF DoneInStep, NoneBehind, StepOrder, TypeOK
  <2> QED BY <1>2, <1>4, <2>1 DEF DoneInStep
<1>15. StepOrder'
  BY <1>1, <1>2 DEF StepOrder, TypeOK
<1> QED BY <1>9, <1>10, <1>11, <1>12, <1>13, <1>14, <1>15 DEF IndInv

-----------------------------------------------------------------------------
(* The invariant.                                                           *)

LEMMA StepInv == IndInv /\ [Next]_vars => IndInv'
<1> SUFFICES ASSUME IndInv, [Next]_vars PROVE IndInv'
  OBVIOUS
<1>1. CASE \E i \in Insts, t \in Time : cm_event_queue(i, t)
  BY <1>1, QueueInv
<1>2. CASE \E i \in Insts : EVTload(i)
  <2>1. 0 \in Time
    BY MaxTimeAssumption
  <2> QED BY <1>2, <2>1, ControlInv
<1>3. CASE \E t \in Time : EventRound(t)
  BY <1>3, RoundInv
<1>4. CASE \E t \in Time : EndRound(t) \/ StartStep(t)
  BY <1>4, ControlInv
<1>5. CASE \E t \in Time : Backup(t)
  BY <1>5, BackupInv
<1>6. CASE Solve
  <2>1. 0 \in Time
    BY MaxTimeAssumption
  <2> QED BY <1>6, <2>1, ControlInv
<1>7. CASE Accept
  BY <1>7, AcceptInv
<1>8. CASE UNCHANGED vars
  BY <1>8 DEF vars, IndInv, TypeOK, NextTimeExact, UnmodifiedIsClean, NoneBehind,
              OneEventPerTime, PostedEarlier, DoneInStep, StepOrder
<1> QED BY <1>1, <1>2, <1>3, <1>4, <1>5, <1>6, <1>7, <1>8 DEF Next

\* The inductive invariant holds throughout: the queue's cached next_time and
\* pending list are exact, unmodified instances need no backup, and no event is
\* left behind the analog time.
THEOREM Invariance == Spec => []IndInv
<1>1. Init => IndInv
  BY InitInv
<1>2. IndInv /\ [Next]_vars => IndInv'
  BY StepInv
<1> QED BY <1>1, <1>2, PTL DEF Spec

\* The lists, flags and times keep their types.
THEOREM TypeCorrect == Spec => []TypeOK
<1>1. IndInv => TypeOK
  BY DEF IndInv
<1> QED BY <1>1, Invariance, PTL

\* EVTnext_time never reads a stale next_time.
THEOREM NextTimeIsExact == Spec => []NextTimeExact
<1>1. IndInv => NextTimeExact
  BY DEF IndInv
<1> QED BY <1>1, Invariance, PTL

\* EVTbackup and Accept may skip the instances that are not modified.
THEOREM UnmodifiedNeedsNoBackup == Spec => []UnmodifiedIsClean
<1>1. IndInv => UnmodifiedIsClean
  BY DEF IndInv
<1> QED BY <1>1, Invariance, PTL

\* The analog time never passes an event that is still to come.
THEOREM NoEventPassed == Spec => []NoneBehind
<1>1. IndInv => NoneBehind
  BY DEF IndInv
<1> QED BY <1>1, Invariance, PTL

\* No instance holds two events for the same time.
THEOREM NoDuplicateEvent == Spec => []OneEventPerTime
<1>1. IndInv => OneEventPerTime
  BY DEF IndInv
<1> QED BY <1>1, Invariance, PTL

-----------------------------------------------------------------------------
(* The refinement: every step of the queue is a step of the timeline.       *)

Item(i, e) == [inst |-> i, et |-> e.et, pt |-> e.pt]

\* The log holds the items of done and todo.
LEMMA LogItems ==
  \A x : x \in Log <=> \E i \in Insts : \E e \in done[i] \cup todo[i] : x = Item(i, e)
BY DEF Log, Item

LEMMA LogItemsNext ==
  \A x : x \in Log' <=> \E i \in Insts : \E e \in done'[i] \cup todo'[i] : x = Item(i, e)
BY DEF Log, Item

\* An item determines its instance and its event.
LEMMA ItemInjective ==
  ASSUME NEW i \in Insts, NEW j \in Insts, NEW e \in Event, NEW f \in Event,
         Item(i, e) = Item(j, f)
  PROVE  i = j /\ e = f
<1>1. /\ Item(i, e).inst = i /\ Item(i, e).et = e.et /\ Item(i, e).pt = e.pt
      /\ Item(j, f).inst = j /\ Item(j, f).et = f.et /\ Item(j, f).pt = f.pt
  BY DEF Item
<1>2. i = j /\ e.et = f.et /\ e.pt = f.pt
  BY <1>1
<1>3. e = [et |-> e.et, pt |-> e.pt] /\ f = [et |-> f.et, pt |-> f.pt]
  OBVIOUS
<1> QED BY <1>2, <1>3

\* What is still to come in the log is what todo holds.
LEMMA ToComeIsTodo ==
  ASSUME IndInv
  PROVE  \A x : x \in Timeline!ToCome
                  <=> \E i \in Insts : \E e \in todo[i] : x = Item(i, e)
<1> USE MaxTimeAssumption
<1>1. TypeOK /\ NoneBehind /\ DoneInStep
  BY DEF IndInv
<1>2. \A i \in Insts : \A e \in done[i] : ~ (e.et > evt_step)
  BY <1>1 DEF DoneInStep, TypeOK
<1>3. \A i \in Insts : \A e \in todo[i] : e.et > evt_step
  BY <1>1 DEF NoneBehind
<1>4. \A i \in Insts : \A e \in Event : Item(i, e).et = e.et
  BY DEF Item
<1>5. \A i \in Insts : done[i] \subseteq Event /\ todo[i] \subseteq Event
  BY <1>1 DEF TypeOK
<1>6. \A x : x \in Timeline!ToCome <=> x \in Log /\ x.et > evt_step
  BY DEF Timeline!ToCome
<1> QED BY <1>2, <1>3, <1>4, <1>5, <1>6, LogItems

LEMMA InitMaps == Init => Timeline!Init
<1> SUFFICES ASSUME Init PROVE Timeline!Init
  OBVIOUS
<1>1. Log = {}
  BY DEF Init, EmptyLists, Log
<1> QED BY <1>1 DEF Init, Timeline!Init

\* Queueing posts to the log, or finds the event there.
LEMMA PostMaps ==
  ASSUME IndInv, NEW i \in Insts, NEW t \in Time, cm_event_queue(i, t)
  PROVE  Timeline!Post(i, t)
<1> USE MaxTimeAssumption
<1> DEFINE new == [et |-> t, pt |-> evt_step]
<1>1. TypeOK /\ DoneInStep
  BY DEF IndInv
<1>2. t > evt_step /\ EVTqueue_inst(i, t) /\ UNCHANGED <<done, last_time, to_call, evt_step>>
  BY DEF cm_event_queue, EVTqueue_inst
<1>3. new \in Event
  BY <1>1 DEF TypeOK
<1>4. \A j \in Insts : done[j] \subseteq Event /\ todo[j] \subseteq Event
  BY <1>1 DEF TypeOK
<1>5. \A e \in done[i] : e.et # t
  BY <1>1, <1>2 DEF DoneInStep, TypeOK
<1>6. (\E x \in Log : x.inst = i /\ x.et = t) <=> (\E e \in todo[i] : e.et = t)
  <2>1. ASSUME NEW x \in Log, x.inst = i, x.et = t PROVE \E e \in todo[i] : e.et = t
    <3>1. PICK j \in Insts : \E e \in done[j] \cup todo[j] : x = Item(j, e)
      BY LogItems
    <3>2. PICK e \in done[j] \cup todo[j] : x = Item(j, e)
      BY <3>1
    <3>3. j = i /\ e.et = t
      BY <2>1, <3>2 DEF Item
    <3> QED BY <1>5, <3>2, <3>3
  <2>2. ASSUME NEW e \in todo[i], e.et = t PROVE \E x \in Log : x.inst = i /\ x.et = t
    <3>1. Item(i, e) \in Log
      BY LogItems
    <3>2. Item(i, e).inst = i /\ Item(i, e).et = t
      BY <2>2 DEF Item
    <3> QED BY <3>1, <3>2
  <2> QED BY <2>1, <2>2
<1>7. CASE \E e \in todo[i] : e.et = t
  <2>1. todo' = todo
    BY <1>2, <1>7 DEF EVTqueue_inst
  <2>2. Log' = Log
    BY <1>2, <2>1 DEF Log
  <2> QED BY <1>2, <1>6, <1>7, <2>2 DEF Timeline!Post
<1>8. CASE ~ \E e \in todo[i] : e.et = t
  <2>1. todo' = [todo EXCEPT ![i] = @ \cup {new}]
    BY <1>2, <1>8 DEF EVTqueue_inst
  <2>2. /\ \A j \in Insts : \A e : e \in done'[j] \cup todo'[j] <=>
                              e \in done[j] \cup todo[j] \/ (j = i /\ e = new)
    BY <1>1, <1>2, <2>1 DEF TypeOK
  <2>3. Item(i, new) = [inst |-> i, et |-> t, pt |-> evt_step]
    BY DEF Item
  <2>4. \A x : x \in Log' <=> x \in Log \/ x = Item(i, new)
    BY <2>2, LogItems, LogItemsNext, Zenon
  <2>5. Log' = Log \cup {Item(i, new)}
    BY <2>4
  <2> QED BY <1>2, <1>6, <1>8, <2>3, <2>5 DEF Timeline!Post
<1> QED BY <1>7, <1>8

\* A round of the event loop delivers everything due, and nothing else.
LEMMA RoundMaps ==
  ASSUME IndInv, NEW t \in Time, EventRound(t)
  PROVE  Timeline!Deliver(t)
<1> USE MaxTimeAssumption
<1>1. TypeOK /\ NextTimeExact /\ NoneBehind
  BY DEF IndInv
<1>2. /\ evt_step <= t /\ evt_step' = t /\ (pending # {} => t <= next_time)
      /\ EVTdequeue_inst(t)
  BY DEF EventRound
<1>3. t >= evt_step
  BY <1>1, <1>2 DEF TypeOK
<1>4. \A i \in Insts : done[i] \subseteq Event /\ todo[i] \subseteq Event
  BY <1>1 DEF TypeOK
<1> DEFINE now == {x.inst : x \in {y \in Timeline!ToCome : y.et = t}}
<1>5. \A i : i \in now <=> i \in Insts /\ \E e \in todo[i] : e.et = t
  <2>1. ASSUME NEW i \in now PROVE i \in Insts /\ \E e \in todo[i] : e.et = t
    <3>1. PICK x \in Timeline!ToCome : x.et = t /\ x.inst = i
      OBVIOUS
    <3>2. PICK j \in Insts : \E e \in todo[j] : x = Item(j, e)
      BY <3>1, ToComeIsTodo
    <3>3. PICK e \in todo[j] : x = Item(j, e)
      BY <3>2
    <3> QED BY <3>1, <3>3 DEF Item
  <2>2. ASSUME NEW i \in Insts, NEW e \in todo[i], e.et = t PROVE i \in now
    <3>1. Item(i, e) \in Timeline!ToCome
      BY ToComeIsTodo
    <3>2. Item(i, e).inst = i /\ Item(i, e).et = t
      BY <2>2 DEF Item
    <3> QED BY <3>1, <3>2
  <2> QED BY <2>1, <2>2
<1>6. \A x \in Timeline!ToCome : x.et >= t
  <2> TAKE x \in Timeline!ToCome
  <2>1. PICK i \in Insts : \E e \in todo[i] : x = Item(i, e)
    BY ToComeIsTodo
  <2>2. PICK e \in todo[i] : x = Item(i, e)
    BY <2>1
  <2>3. pending # {} /\ next_time <= e.et
    BY <1>1 DEF NextTimeExact
  <2>4. next_time \in Nat /\ e.et \in Nat /\ t \in Nat
    BY <1>1, <1>4 DEF TypeOK, Infinity
  <2>5. e.et >= t
    BY <1>2, <2>3, <2>4
  <2> QED BY <2>2, <2>5 DEF Item
<1>7. CASE pending = {} \/ next_time # t
  <2>1. UNCHANGED <<queue, to_call>>
    BY <1>2, <1>7 DEF EVTdequeue_inst
  <2>2. \A i \in Insts : \A e \in todo[i] : e.et > t
    BY <1>2, <1>7, DequeueNothing
  <2>3. \A i \in Insts : \A e \in todo[i] : e.et # t
    BY <1>1, <2>2 DEF TypeOK
  <2>4. now = {}
    BY <1>5, <2>3
  <2>5. Log' = Log /\ last_time' = last_time /\ to_call' = to_call
    BY <2>1 DEF Log, queue
  <2> QED BY <1>2, <1>3, <1>6, <2>4, <2>5 DEF Timeline!Deliver
<1>8. CASE pending # {} /\ next_time = t
  <2>1. /\ \A i \in Insts : todo'[i] \subseteq todo[i] /\ done[i] \subseteq done'[i]
        /\ \A i \in Insts : \A e \in todo[i] :
             IF e.et = t THEN e \in done'[i] /\ e \notin todo'[i] ELSE e \in todo'[i]
        /\ \A i \in Insts : \A e \in done'[i] : e \in done[i] \/ (e \in todo[i] /\ e.et = t)
        /\ \A i \in Insts : i \in Due(t) <=> \E e \in todo[i] : e.et = t
    BY <1>2, <1>8, DequeueMoves
  <2>2. to_call' = to_call \cup Due(t) /\ last_time' = last_time
    BY <1>2, <1>8 DEF EVTdequeue_inst
  <2>3. \A i \in Insts : done'[i] \cup todo'[i] = done[i] \cup todo[i]
    <3> TAKE i \in Insts
    <3>1. \A e \in todo[i] : e \in done'[i] \cup todo'[i]
      BY <2>1
    <3>2. \A e \in done'[i] \cup todo'[i] : e \in done[i] \cup todo[i]
      BY <2>1
    <3> QED BY <2>1, <3>1, <3>2
  <2>4. Log' = Log
    BY <2>3 DEF Log
  <2>5. now = Due(t)
    <3>1. Due(t) \subseteq Insts
      BY <1>1 DEF Due, TypeOK
    <3>2. \A i : i \in Due(t) <=> i \in Insts /\ \E e \in todo[i] : e.et = t
      BY <2>1, <3>1
    <3> HIDE DEF now
    <3>3. \A i : i \in now <=> i \in Due(t)
      BY <1>5, <3>2, Zenon
    <3> QED BY <3>3
  <2> QED BY <1>2, <1>3, <1>6, <2>2, <2>4, <2>5 DEF Timeline!Deliver
<1> QED BY <1>7, <1>8

\* The analog solution is reached before everything still to come.
LEMMA SolveMaps == ASSUME IndInv, Solve PROVE Timeline!Solve(target)
<1> USE MaxTimeAssumption
<1>1. TypeOK /\ NextTimeExact /\ StepOrder
  BY DEF IndInv
<1>2. /\ pending = {} \/ next_time > target
      /\ evt_step' = target /\ UNCHANGED <<queue, to_call>>
  BY DEF Solve
<1>3. target >= evt_step
  BY <1>1 DEF StepOrder, TypeOK
<1>4. \A x \in Timeline!ToCome : x.et > target
  <2> TAKE x \in Timeline!ToCome
  <2>1. PICK i \in Insts : \E e \in todo[i] : x = Item(i, e)
    BY ToComeIsTodo
  <2>2. PICK e \in todo[i] : x = Item(i, e)
    BY <2>1
  <2>3. pending # {} /\ next_time <= e.et
    BY <1>1 DEF NextTimeExact
  <2>4. next_time \in Nat /\ e.et \in Nat /\ target \in Nat
    BY <1>1 DEF TypeOK, Infinity
  <2>5. e.et > target
    BY <1>2, <2>3, <2>4
  <2> QED BY <2>2, <2>5 DEF Item
<1>5. Log' = Log /\ last_time' = last_time
  BY <1>2 DEF Log, queue
<1> QED BY <1>2, <1>3, <1>4, <1>5 DEF Timeline!Solve

\* Accepting forgets what was delivered and keeps what is still to come.
LEMMA AcceptMaps == ASSUME IndInv, Accept PROVE Timeline!Accept
<1>1. todo' = todo /\ done' = EmptyLists
  BY AcceptKeepsTodo
<1>2. \A i \in Insts : done'[i] \cup todo'[i] = todo[i]
  BY <1>1 DEF EmptyLists
<1>3. \A x : x \in Log' <=> \E i \in Insts : \E e \in todo[i] : x = Item(i, e)
  BY <1>2, LogItemsNext
<1>4. \A x : x \in Log' <=> x \in Timeline!ToCome
  BY <1>3, ToComeIsTodo, Zenon
<1>5. Log' = Timeline!ToCome
  BY <1>4
<1>6. last_time' = evt_step
  BY DEF Accept, EVTaccept_inst, IndInv, StepOrder
<1>7. UNCHANGED <<evt_step, to_call>>
  BY DEF Accept, EVTaccept_inst
<1> QED BY <1>5, <1>6, <1>7 DEF Timeline!Accept

\* A rejected step goes back to exactly the log of the new time.
LEMMA BackupMaps ==
  ASSUME IndInv, NEW t \in Time, Backup(t)
  PROVE  Timeline!Retract(t)
<1> USE MaxTimeAssumption
<1>1. TypeOK /\ StepOrder
  BY DEF IndInv
<1>2. /\ last_time < t /\ t < target /\ phase = "solve" /\ evt_step' = t
      /\ UNCHANGED <<last_time, to_call>>
  BY DEF Backup, EVTbackup_inst_queue
<1>3. t < evt_step
  BY <1>1, <1>2 DEF StepOrder
<1>4. \A i \in Insts : \A e \in Event : e \in done'[i] \cup todo'[i]
                                           <=> e \in done[i] \cup todo[i] /\ e.pt <= t
  <2> SUFFICES ASSUME NEW i \in Insts, NEW e \in Event
               PROVE  e \in done'[i] \cup todo'[i]
                        <=> e \in done[i] \cup todo[i] /\ e.pt <= t
    OBVIOUS
  <2>1. t \in Nat /\ e.et \in Nat
    OBVIOUS
  <2>2. e.et <= t \/ e.et > t
    BY <2>1
  <2> QED BY <2>2, BackupExact
<1>5. /\ \A i \in Insts : done[i] \cup todo[i] \subseteq Event
      /\ \A i \in Insts : done'[i] \cup todo'[i] \subseteq Event
  BY <1>1, BackupExact DEF TypeOK
<1>6. \A i \in Insts : \A e \in Event : Item(i, e).pt = e.pt
  BY DEF Item
<1>7. \A x : x \in Log' <=> x \in Log /\ x.pt <= t
  <2>1. ASSUME NEW x \in Log' PROVE x \in Log /\ x.pt <= t
    <3>1. PICK i \in Insts : \E e \in done'[i] \cup todo'[i] : x = Item(i, e)
      BY LogItemsNext
    <3>2. PICK e \in done'[i] \cup todo'[i] : x = Item(i, e)
      BY <3>1
    <3>3. e \in Event /\ e \in done[i] \cup todo[i] /\ e.pt <= t
      BY <1>4, <1>5
    <3> QED BY <1>6, <3>2, <3>3, LogItems
  <2>2. ASSUME NEW x \in Log, x.pt <= t PROVE x \in Log'
    <3>1. PICK i \in Insts : \E e \in done[i] \cup todo[i] : x = Item(i, e)
      BY LogItems
    <3>2. PICK e \in done[i] \cup todo[i] : x = Item(i, e)
      BY <3>1
    <3>3. e \in Event /\ e.pt <= t
      BY <1>5, <1>6, <2>2, <3>2
    <3>4. e \in done'[i] \cup todo'[i]
      BY <1>4, <3>2, <3>3
    <3> QED BY <3>2, <3>4, LogItemsNext
  <2> QED BY <2>1, <2>2
<1>8. Log' = {x \in Log : x.pt <= t}
  BY <1>7
<1> QED BY <1>2, <1>3, <1>8 DEF Timeline!Retract

LEMMA StepMaps == IndInv /\ [Next]_vars => [Timeline!Next]_(Timeline!vars)
<1> SUFFICES ASSUME IndInv, [Next]_vars
             PROVE  Timeline!Next \/ UNCHANGED Timeline!vars
  OBVIOUS
<1> USE DEF Timeline!Time
<1>1. CASE \E i \in Insts, t \in Time : cm_event_queue(i, t)
  BY <1>1, PostMaps DEF Timeline!Next
<1>2. CASE \E i \in Insts : EVTload(i)
  <2>1. PICK i \in Insts : EVTload(i)
    BY <1>2
  <2>2. Log' = Log /\ last_time' = last_time /\ evt_step' = evt_step
    BY <2>1 DEF EVTload, queue, Log
  <2>3. Timeline!Call(i)
    BY <2>1, <2>2 DEF EVTload, Timeline!Call
  <2> QED BY <2>3 DEF Timeline!Next
<1>3. CASE \E t \in Time : EventRound(t)
  BY <1>3, RoundMaps DEF Timeline!Next
<1>4. CASE (\E t \in Time : EndRound(t) \/ StartStep(t)) \/ UNCHANGED vars
  <2>1. UNCHANGED <<done, todo, last_time, to_call, evt_step>>
    BY <1>4 DEF EndRound, StartStep, vars, queue
  <2> QED BY <2>1 DEF Timeline!vars, Log
<1>5. CASE \E t \in Time : Backup(t)
  BY <1>5, BackupMaps DEF Timeline!Next
<1>6. CASE Solve
  <2>1. target \in Time
    BY DEF IndInv, TypeOK
  <2> QED BY <1>6, <2>1, SolveMaps DEF Timeline!Next
<1>7. CASE Accept
  BY <1>7, AcceptMaps DEF Timeline!Next
<1> QED BY <1>1, <1>2, <1>3, <1>4, <1>5, <1>6, <1>7 DEF Next

\* The instance queue implements the timeline: events come at their time and
\* once, and a rejected analog step leaves exactly what was posted by the time
\* it goes back to.
THEOREM Refinement == Spec => TimelineSpec
<1>1. Init => Timeline!Init
  BY InitMaps
<1>2. IndInv /\ [Next]_vars => [Timeline!Next]_(Timeline!vars)
  BY StepMaps
<1> QED BY <1>1, <1>2, Invariance, PTL DEF Spec, TimelineSpec, Timeline!Spec
=============================================================================
