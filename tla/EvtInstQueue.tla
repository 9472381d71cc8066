---------------------------- MODULE EvtInstQueue ----------------------------
(***************************************************************************)
(* The XSPICE instance event queue: cm_event_queue/EVTqueue_inst (evtqueue.c,*)
(* cmevt.c), EVTdequeue_inst (evtdeque.c), the inst-queue part of EVTaccept *)
(* and EVTbackup_inst_queue (evtbackup.c), driven by the timestep loop of   *)
(* DCtran (dctran.c).                                                       *)
(*                                                                          *)
(* An instance's linked list is kept sorted by event_time, and no two of    *)
(* its events have the same time, so the list is the union of three sets:   *)
(*    kept[i]  from `head' up to the link `last_step',                      *)
(*    done[i]  from `last_step' up to the link `current' (events delivered  *)
(*             since the last accepted timepoint),                          *)
(*    todo[i]  from `current' to the end.                                   *)
(* The free list only recycles memory and is left out.                      *)
(***************************************************************************)
EXTENDS Integers

CONSTANTS Insts,    \* event-driven instances
          MaxTime   \* bound: no event or target later than this

ASSUME MaxTimeAssumption == MaxTime \in Nat

VARIABLES kept, done, todo,
          modified,   \* instances touched since the last accepted timepoint
          pending,    \* instances with something at `current'
          next_time,  \* earliest pending event time
          last_time,  \* last accepted timepoint
          to_call,    \* instances EVTiter has to call
          evt_step,   \* g_mif_info.circuit.evt_step
          target,     \* CKTtime + CKTdelta: the analog time aimed at
          phase       \* where DCtran is: "loop", "iter", "solve" or "accepted"

queue == <<kept, done, todo, modified, pending, next_time, last_time>>
vars == <<kept, done, todo, modified, pending, next_time, last_time,
          to_call, evt_step, target, phase>>

Time == 0 .. MaxTime

Infinity == MaxTime + 1   \* the code's 1e30

Event == [et : Time, pt : Time]

EmptyLists == [i \in Insts |-> {}]

\* The first element of a sorted list, as a set with at most one element.
First(S) == {e \in S : \A f \in S : e.et <= f.et}

\* The owner of the link after a sorted list, as a set.
Last(S) == {e \in S : \A f \in S : f.et <= e.et}

\* The value the compaction loops compute into next_time.
MinTime(ts) == IF ts = {} THEN Infinity ELSE CHOOSE t \in ts : \A u \in ts : t <= u

NextTimes(lists, is) == {e.et : e \in UNION {First(lists[i]) : i \in is}}

\* A mutant: next_time recomputed over the instances that were pending before.
CompactOldPending(is) ==
  /\ pending' = {i \in is : todo'[i] # {}}
  /\ next_time' = MinTime(NextTimes(todo', pending))

\* The pending list is compacted and next_time recomputed from `current'.
Compact(is) ==
  /\ pending' = {i \in is : todo'[i] # {}}
  /\ next_time' = MinTime(NextTimes(todo', is))

Init ==
  /\ kept = EmptyLists /\ done = EmptyLists /\ todo = EmptyLists
  /\ modified = {} /\ pending = {} /\ to_call = {}
  /\ next_time = 0 /\ last_time = 0 /\ evt_step = 0 /\ target = 0
  /\ phase = "solve"   \* the operating point, at which instances may post

-----------------------------------------------------------------------------
(* EVTqueue_inst: an event of instance i at time t, posted at evt_step.     *)

\* A mutant: an event with the same time is queued again.
QueueDuplicate(i, t) ==
  /\ next_time' = IF pending = {} \/ t < next_time THEN t ELSE next_time
  /\ todo' = [todo EXCEPT ![i] = @ \cup {[et |-> t, pt |-> evt_step]}]
  /\ modified' = modified \cup {i}
  /\ pending' = pending \cup {i}
  /\ UNCHANGED <<kept, done, last_time>>

EVTqueue_inst(i, t) ==
  /\ next_time' = IF pending = {} \/ t < next_time THEN t ELSE next_time
  /\ IF \E e \in todo[i] : e.et = t
     THEN UNCHANGED <<todo, modified, pending>>
     ELSE /\ todo' = [todo EXCEPT ![i] = @ \cup {[et |-> t, pt |-> evt_step]}]
          /\ modified' = modified \cup {i}
          /\ pending' = pending \cup {i}
  /\ UNCHANGED <<kept, done, last_time>>

\* A code model may post while EVTiter calls it, at time zero before the first
\* event, or when EVTcall_hybrids calls it after the analog solution.
MayPost == phase \in {"iter", "solve"} \/ (phase = "loop" /\ evt_step = 0)

cm_event_queue(i, t) ==
  /\ MayPost
  /\ t > evt_step
  /\ EVTqueue_inst(i, t)
  /\ UNCHANGED <<to_call, evt_step, target, phase>>

-----------------------------------------------------------------------------
(* EVTdequeue_inst: the instances whose next event is at the given time.    *)

Due(time) == {i \in pending : \E e \in First(todo[i]) : e.et = time}

EVTdequeue_inst(time) ==
  IF pending = {} \/ next_time # time
  THEN UNCHANGED <<queue, to_call>>
  ELSE /\ to_call' = to_call \cup Due(time)
       /\ todo' = [i \in Insts |-> IF i \in Due(time) THEN todo[i] \ First(todo[i])
                                                      ELSE todo[i]]
       /\ done' = [i \in Insts |-> IF i \in Due(time) THEN done[i] \cup First(todo[i])
                                                      ELSE done[i]]
       /\ modified' = modified \cup Due(time)
       /\ Compact(pending)
       /\ UNCHANGED <<kept, last_time>>

\* One round of DCtran's event loop: time is EVTnext_time, the earlier of this
\* queue's next_time and the output queue's, which may be any time.
EventRound(time) ==
  /\ phase = "loop"
  /\ evt_step <= time /\ time <= target
  /\ pending # {} => time <= next_time
  /\ evt_step' = time
  /\ EVTdequeue_inst(time)
  /\ phase' = "iter"
  /\ UNCHANGED target

\* EVTiter calls an instance of its to_call list.
EVTload(i) ==
  /\ phase = "iter"
  /\ i \in to_call
  /\ to_call' = to_call \ {i}
  /\ UNCHANGED <<queue, evt_step, target, phase>>

\* EVTiter is over; a breakpoint some instance asked for may bring the analog
\* time aimed at down to a time t after CKTtime and not before evt_step.
EndRound(t) ==
  /\ phase = "iter" /\ to_call = {}
  /\ last_time < t /\ evt_step <= t /\ t <= target
  /\ target' = t
  /\ phase' = "loop"
  /\ UNCHANGED <<queue, to_call, evt_step>>

-----------------------------------------------------------------------------
(* The analog side of the timestep.                                         *)

StartStep(t) ==
  /\ phase = "accepted"
  /\ t > last_time
  /\ target' = t
  /\ phase' = "loop"
  /\ UNCHANGED <<queue, to_call, evt_step>>

\* A mutant: the event loop stops before the events at the target itself.
SolveEarly ==
  /\ phase = "loop"
  /\ pending = {} \/ next_time >= target
  /\ evt_step' = target
  /\ phase' = "solve"
  /\ UNCHANGED <<queue, to_call, target>>

\* No event is left up to the target: the analog solver runs there.
Solve ==
  /\ phase = "loop"
  /\ pending = {} \/ next_time > target
  /\ evt_step' = target
  /\ phase' = "solve"
  /\ UNCHANGED <<queue, to_call, target>>

\* EVTaccept on the modified instances: stale entries are freed from the head up
\* to the entry that owns the link `current'.  When nothing precedes `current',
\* no entry owns it, and the loop runs into the events still to come.
EVTaccept_inst(time) ==
  LET past(i) == kept[i] \cup done[i] IN
  /\ kept' = [i \in Insts |->
                IF i \in modified
                THEN {e \in past(i) : e.et >= time} \cup Last(past(i))
                ELSE kept[i]]
  /\ todo' = [i \in Insts |->
                IF i \in modified /\ past(i) = {}
                THEN {e \in todo[i] : e.et >= time}
                ELSE todo[i]]
  /\ done' = [i \in Insts |-> IF i \in modified THEN {} ELSE done[i]]
  /\ modified' = {}
  /\ last_time' = time
  /\ UNCHANGED <<pending, next_time>>

Accept ==
  /\ phase = "solve"
  /\ EVTaccept_inst(target)
  /\ phase' = "accepted"
  /\ UNCHANGED <<to_call, evt_step, target>>

\* Something of i was delivered or queued in this timestep and stays so.
StillModified(i) == done'[i] # {} \/ \E e \in todo'[i] : e.pt > last_time

\* EVTbackup_inst_queue on the modified instances: events posted later are cut
\* out, `current' is set to the first event after new_time, and an instance
\* stays modified if something was delivered or queued in this timestep.
EVTbackup_inst_queue(new_time) ==
  LET left(i) == {e \in done[i] \cup todo[i] : e.pt <= new_time} IN
  /\ done' = [i \in Insts |->
                IF i \in modified THEN {e \in left(i) : e.et <= new_time} ELSE done[i]]
  /\ todo' = [i \in Insts |->
                IF i \in modified THEN {e \in left(i) : e.et > new_time} ELSE todo[i]]
  /\ Compact(pending \cup modified)
  /\ modified' = {i \in modified : StillModified(i)}
  /\ UNCHANGED <<kept, last_time>>

\* The timepoint is rejected and the loop of DCtran retries at new_time.
Backup(new_time) ==
  /\ phase = "solve"
  /\ last_time < new_time /\ new_time < target
  /\ EVTbackup_inst_queue(new_time)
  /\ target' = new_time
  /\ evt_step' = new_time
  /\ UNCHANGED <<to_call, phase>>

Next ==
  \/ \E i \in Insts, t \in Time : cm_event_queue(i, t)
  \/ \E i \in Insts : EVTload(i)
  \/ \E t \in Time : EventRound(t) \/ EndRound(t) \/ StartStep(t) \/ Backup(t)
  \/ Solve
  \/ Accept

Spec == Init /\ [][Next]_vars

-----------------------------------------------------------------------------
(* Properties.                                                              *)

\* The state has the shape the code's types and flags give it.
TypeOK ==
  /\ kept \in [Insts -> SUBSET Event]
  /\ done \in [Insts -> SUBSET Event]
  /\ todo \in [Insts -> SUBSET Event]
  /\ modified \subseteq Insts /\ pending \subseteq Insts /\ to_call \subseteq Insts
  /\ next_time \in Time \cup {Infinity}
  /\ last_time \in Time /\ evt_step \in Time /\ target \in Time
  /\ phase \in {"loop", "iter", "solve", "accepted"}

\* The cached pending list and next_time, which the event loop of DCtran reads
\* instead of the lists, are exact: an instance is pending iff it has an event
\* at `current', and next_time is the time of the earliest such event.
NextTimeExact ==
  /\ \A i \in Insts : i \in pending <=> todo[i] # {}
  /\ pending # {} =>
       /\ \E i \in Insts : \E e \in todo[i] : e.et = next_time
       /\ \A i \in Insts : \A e \in todo[i] : next_time <= e.et

\* An instance that is not modified has nothing a rejection would have to take
\* back: EVTbackup and EVTaccept look at the modified instances only.
UnmodifiedIsClean ==
  \A i \in Insts \ modified :
    done[i] = {} /\ \A e \in todo[i] : e.pt <= last_time

\* The analog solution never passes an event: what is still to come is later
\* than the event time, and so later than the time at which the analog solver
\* runs.
NoneBehind == \A i \in Insts : \A e \in todo[i] : e.et > evt_step

\* No instance has two events at one time, delivered or not: a request repeated
\* after a rejected step, when the first may or may not have been taken back,
\* does not make the instance be called twice.
OneEventPerTime ==
  \A i \in Insts : \A e, f \in done[i] \cup todo[i] : e.et = f.et => e = f

\* Events are posted for later than the event time at which they are posted.
PostedEarlier ==
  \A i \in Insts : \A e \in done[i] \cup todo[i] : e.pt < e.et /\ e.pt <= evt_step

\* What was delivered since the last accepted timepoint lies after it.
DoneInStep == \A i \in Insts : \A e \in done[i] : last_time < e.et /\ e.et <= evt_step

\* The three times of a timestep are in order.
StepOrder ==
  /\ last_time <= evt_step /\ evt_step <= target
  /\ phase = "accepted" => target = last_time
  /\ phase \in {"loop", "iter"} => last_time < target
  /\ phase = "solve" => evt_step = target

\* The inductive invariant: the properties above and what their preservation
\* rests on.
IndInv ==
  /\ TypeOK /\ NextTimeExact /\ UnmodifiedIsClean /\ NoneBehind
  /\ OneEventPerTime /\ PostedEarlier /\ DoneInStep /\ StepOrder

Log == UNION {{[inst |-> i, et |-> e.et, pt |-> e.pt] : e \in done[i] \cup todo[i]} :
              i \in Insts}

Timeline == INSTANCE EvtTimeline WITH log <- Log, clock <- evt_step, base <- last_time

\* The three-part lists, the flags and the cached times implement one log and
\* one clock: every event is delivered at its time and once, a rejected step
\* leaves exactly what was posted by the time it goes back to, and accepting a
\* timepoint frees nothing that is still to come.
TimelineSpec == Timeline!Spec
=============================================================================
