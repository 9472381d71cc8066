--------------------------- MODULE EvtOutputQueue ---------------------------
(***************************************************************************)
(* The XSPICE output event queue: EVTqueue_output (evtqueue.c),             *)
(* EVTdequeue_output (evtdeque.c), the output part of EVTaccept             *)
(* (evtaccept.c) and EVTbackup_output_queue (evtbackup.c), driven by the    *)
(* timestep loop of DCtran (dctran.c).                                      *)
(*                                                                          *)
(* An output's linked list from `head' on is a sequence.  The pointers to   *)
(* links `current' and `last_step' are positions in it: the position of the *)
(* element the link leads to, one past the end for the last link.  An event *)
(* posted before one still to come cancels it; the cancelled event stays in *)
(* the list, marked removed, because the step that cancelled it may still   *)
(* be rejected.  Values are left out: an event stands for its value.        *)
(***************************************************************************)
EXTENDS Integers, Sequences, FiniteSets

CONSTANTS Outputs,    \* digital outputs
          Delays,     \* Delays[o]: the delays output o is posted with, not zero
          MaxTime,    \* bound: no event or target later than this
          MaxPosts    \* bound: events of one output in its list

ASSUME OutputAssumption ==
  /\ MaxTime \in Nat /\ MaxPosts \in Nat
  /\ Delays \in [Outputs -> SUBSET (1 .. MaxTime)]

VARIABLES list,       \* list[o]: events from `head' on
          current,    \* current[o]: position of the next event
          last_step,  \* last_step[o]: `current' at the last accepted timepoint
          modified, pending, next_time, last_time,
          changed,    \* outputs whose event came in this round
          evt_step, target, phase,
          posts,      \* history: posts[o], the events posted, oldest first
          misled      \* history: outputs whose `current' a backup has set to an
                      \* event that stays removed

queue == <<list, current, last_step, modified, pending, next_time, last_time>>
vars == <<list, current, last_step, modified, pending, next_time, last_time,
          changed, evt_step, target, phase, posts, misled>>

Time == 0 .. MaxTime

Infinity == MaxTime + 1   \* the code's 1e30

Event == [et : Time, pt : Time, removed : BOOLEAN, rt : Time]

\* The first of some positions of s, or the end if there is none.
FirstOf(s, ns) == CHOOSE n \in ns \cup {Len(s) + 1} : \A m \in ns : n <= m

\* The entries of s at the positions in ks, in their order.
Nth(ks, n) == CHOOSE k \in ks : Cardinality({j \in ks : j <= k}) = n

At(s, ks) == [n \in 1 .. Cardinality(ks) |-> s[Nth(ks, n)]]

MinTime(ts) == IF ts = {} THEN Infinity ELSE CHOOSE t \in ts : \A u \in ts : t <= u

\* A mutant: next_time recomputed over the outputs that were pending before.
CompactOldPending(os) ==
  LET left == {o \in os : current'[o] <= Len(list'[o])} IN
  /\ pending' = left
  /\ next_time' = MinTime({list'[o][current'[o]].et : o \in left \cap pending})

\* The outputs of os with something at `current' stay pending.
Compact(os) ==
  LET left == {o \in os : current'[o] <= Len(list'[o])} IN
  /\ pending' = left
  /\ next_time' = MinTime({list'[o][current'[o]].et : o \in left})

Init ==
  /\ list = [o \in Outputs |-> <<>>] /\ posts = [o \in Outputs |-> <<>>]
  /\ current = [o \in Outputs |-> 1] /\ last_step = [o \in Outputs |-> 1]
  /\ modified = {} /\ pending = {} /\ changed = {} /\ misled = {}
  /\ next_time = 0 /\ last_time = 0 /\ evt_step = 0 /\ target = 0
  /\ phase = "accepted"

-----------------------------------------------------------------------------
(* EVTqueue_output: the new event goes before the first one, from `current' *)
(* on, that is not earlier, and all after it are marked removed.            *)

Mark(e, time) == IF e.removed THEN e ELSE [e EXCEPT !.removed = TRUE, !.rt = time]

\* A mutant: all that is still to come is marked removed, earlier or later.
CancelAll(o, t) ==
  LET new == [et |-> t, pt |-> evt_step, removed |-> FALSE, rt |-> 0]
  IN
  /\ next_time' = IF pending = {} \/ t < next_time THEN t ELSE next_time
  /\ list' = [list EXCEPT ![o] =
                Append([n \in 1 .. Len(@) |-> IF n < current[o] THEN @[n]
                                              ELSE Mark(@[n], evt_step)], new)]
  /\ modified' = modified \cup {o}
  /\ pending' = pending \cup {o}
  /\ UNCHANGED <<current, last_step, last_time>>

EVTqueue_output(o, t) ==
  LET new == [et |-> t, pt |-> evt_step, removed |-> FALSE, rt |-> 0]
      here == FirstOf(list[o], {n \in current[o] .. Len(list[o]) : t <= list[o][n].et})
      before == SubSeq(list[o], 1, here - 1)
      after == [n \in 1 .. Len(list[o]) - here + 1 |->
                  Mark(list[o][here + n - 1], evt_step)]
  IN
  /\ next_time' = IF pending = {} \/ t < next_time THEN t ELSE next_time
  /\ list' = [list EXCEPT ![o] = before \o <<new>> \o after]
  /\ modified' = modified \cup {o}
  /\ pending' = pending \cup {o}
  /\ UNCHANGED <<current, last_step, last_time>>

\* A code model posts an output while EVTiter calls it, at time zero before the
\* first event, or when EVTcall_hybrids calls it after the analog solution.
MayPost == phase \in {"iter", "solve"} \/ (phase = "loop" /\ evt_step = 0)

Post(o, delay) ==
  /\ MayPost
  /\ evt_step + delay <= MaxTime /\ Len(list[o]) < MaxPosts
  /\ EVTqueue_output(o, evt_step + delay)
  /\ posts' = [posts EXCEPT ![o] = Append(@, [et |-> evt_step + delay, pt |-> evt_step])]
  /\ UNCHANGED <<changed, evt_step, target, phase, misled>>

-----------------------------------------------------------------------------
(* EVTdequeue_output: outputs whose event at `current' has the given time.  *)

Due(time) == {o \in pending : /\ current[o] <= Len(list[o])
                              /\ list[o][current[o]].et = time}

NotRemoved(e) == ~ e.removed

\* A mutant: `current' moves to the next item, removed or not.
DequeueNoSkip(time) ==
  IF pending = {} \/ next_time # time
  THEN UNCHANGED <<queue, changed>>
  ELSE /\ changed' = changed \cup Due(time)
       /\ current' = [o \in Outputs |->
                        IF o \in Due(time) THEN current[o] + 1 ELSE current[o]]
       /\ modified' = modified \cup Due(time)
       /\ UNCHANGED <<list, last_step, last_time>>
       /\ Compact(pending)

EVTdequeue_output(time) ==
  IF pending = {} \/ next_time # time
  THEN UNCHANGED <<queue, changed>>
  ELSE /\ changed' = changed \cup Due(time)
       /\ current' = [o \in Outputs |->
                        IF o \in Due(time)
                        THEN FirstOf(list[o], {n \in current[o] + 1 .. Len(list[o]) :
                                                 NotRemoved(list[o][n])})
                        ELSE current[o]]
       /\ modified' = modified \cup Due(time)
       /\ UNCHANGED <<list, last_step, last_time>>
       /\ Compact(pending)

\* One round of DCtran's event loop: time is EVTnext_time, the earlier of this
\* queue's next_time and the instance queue's, which may be any time.
EventRound(time) ==
  /\ phase = "loop"
  /\ time <= target
  /\ IF pending # {} THEN time = next_time \/ (evt_step <= time /\ time < next_time)
                     ELSE evt_step <= time
  /\ evt_step' = time
  /\ EVTdequeue_output(time)
  /\ phase' = "iter"
  /\ UNCHANGED <<target, posts, misled>>

\* EVTiter has taken the changed outputs to their nodes; a breakpoint some
\* instance asked for may bring the analog time aimed at down to t.
EndRound(t) ==
  /\ phase = "iter"
  /\ last_time < t /\ evt_step <= t /\ t <= target
  /\ target' = t
  /\ changed' = {}
  /\ phase' = "loop"
  /\ UNCHANGED <<queue, evt_step, posts, misled>>

-----------------------------------------------------------------------------
(* The analog side of the timestep.                                         *)

StartStep(t) ==
  /\ phase = "accepted"
  /\ t > last_time
  /\ target' = t
  /\ phase' = "loop"
  /\ UNCHANGED <<queue, changed, evt_step, posts, misled>>

\* A mutant: the analog solver runs whatever is on the queue.
SolveAnyTime ==
  /\ phase = "loop"
  /\ evt_step' = target
  /\ phase' = "solve"
  /\ UNCHANGED <<queue, changed, target, posts, misled>>

Solve ==
  /\ phase = "loop"
  /\ pending = {} \/ next_time > target
  /\ evt_step' = target
  /\ phase' = "solve"
  /\ UNCHANGED <<queue, changed, target, posts, misled>>

\* A mutant: the owner of the link `current' is freed as well.
StaleWithOwner(o, time) ==
  FirstOf(list[o], {n \in 1 .. Len(list[o]) : list[o][n].et >= time}) - 1

\* How many entries EVTaccept frees from the head: it stops at an entry that is
\* not earlier than time and at the one that owns the link `current'.
Stale(o, time) ==
  LET stop == FirstOf(list[o], {n \in 1 .. Len(list[o]) : list[o][n].et >= time})
      owner == current[o] - 1
  IN IF owner >= 1 /\ owner < stop THEN owner - 1 ELSE stop - 1

\* The link `current' once n entries are freed from the head; 0 would be a link
\* inside a freed entry.
Shifted(o, n) ==
  IF current[o] = 1 \/ n = Len(list[o]) THEN 1
  ELSE IF n < current[o] - 1 THEN current[o] - n
  ELSE 0

\* The posts that stand: not cancelled by a later post for the same time or an
\* earlier one.
Stands(s, k) == \A m \in k + 1 .. Len(s) : s[m].et > s[k].et

\* What output o has promised and not delivered by time, earliest first.
Promised(s, time) == At(s, {k \in 1 .. Len(s) : s[k].et > time /\ Stands(s, k)})

EVTaccept ==
  /\ phase = "solve"
  /\ list' = [o \in Outputs |->
                IF o \in modified
                THEN SubSeq(list[o], Stale(o, target) + 1, Len(list[o]))
                ELSE list[o]]
  /\ current' = [o \in Outputs |->
                   IF o \in modified THEN Shifted(o, Stale(o, target)) ELSE current[o]]
  /\ last_step' = [o \in Outputs |-> IF o \in modified THEN current'[o] ELSE last_step[o]]
  /\ modified' = {}
  /\ last_time' = target
  /\ phase' = "accepted"
  /\ posts' = [o \in Outputs |-> Promised(posts[o], target)]
  /\ UNCHANGED <<pending, next_time, changed, evt_step, target, misled>>

\* A mutant: what was removed stays removed.
ScanBackNoUnremove(o, new_time) ==
  LET PostedBy(e) == e.pt <= new_time
  IN SubSeq(list[o], 1, last_step[o] - 1)
       \o SelectSeq(SubSeq(list[o], last_step[o], Len(list[o])), PostedBy)

\* A modified output's list after the first scan: from last_step on, events
\* posted after new_time are cut out, and one that was removed after new_time
\* is not removed any more.
ScanBack(o, new_time) ==
  LET kept == SubSeq(list[o], 1, last_step[o] - 1)
      scanned == At(list[o], {n \in last_step[o] .. Len(list[o]) :
                                list[o][n].pt <= new_time})
      Unremove(e) == IF e.removed /\ e.rt > new_time
                     THEN [e EXCEPT !.removed = FALSE, !.rt = 0] ELSE e
  IN kept \o [n \in 1 .. Len(scanned) |-> Unremove(scanned[n])]

\* The second scan: `current' is the first event after new_time.
SeekBack(o, new_time) ==
  FirstOf(list'[o], {n \in last_step[o] .. Len(list'[o]) : list'[o][n].et > new_time})

\* An output stays modified if an event was delivered or queued in this step.
StillModified(o) ==
  /\ last_step[o] <= Len(list'[o])
  /\ \/ current'[o] # last_step[o]
     \/ \E n \in last_step[o] .. Len(list'[o]) : list'[o][n].pt > last_time

EVTbackup_output_queue(new_time) ==
  /\ list' = [o \in Outputs |-> IF o \in modified THEN ScanBack(o, new_time) ELSE list[o]]
  /\ current' = [o \in Outputs |->
                   IF o \in modified THEN SeekBack(o, new_time) ELSE current[o]]
  /\ Compact(pending \cup modified)
  /\ modified' = {o \in modified : StillModified(o)}
  /\ UNCHANGED <<last_step, last_time>>

PostedBefore(s, time) == At(s, {k \in 1 .. Len(s) : s[k].pt <= time})

\* The timepoint is rejected and the loop of DCtran retries at new_time.
Backup(new_time) ==
  /\ phase = "solve"
  /\ last_time < new_time /\ new_time < target
  /\ EVTbackup_output_queue(new_time)
  /\ target' = new_time
  /\ evt_step' = new_time
  /\ posts' = [o \in Outputs |-> PostedBefore(posts[o], new_time)]
  /\ misled' = misled \cup {o \in pending' : ~ NotRemoved(list'[o][current'[o]])}
  /\ UNCHANGED <<changed, phase>>

Next ==
  \/ \E o \in Outputs : \E d \in Delays[o] : Post(o, d)
  \/ \E t \in Time : EventRound(t) \/ EndRound(t) \/ StartStep(t) \/ Backup(t)
  \/ Solve
  \/ EVTaccept

Spec == Init /\ [][Next]_vars

-----------------------------------------------------------------------------
(* Properties.                                                              *)

\* The state has the shape the code's types give it, and `current' and
\* `last_step' are links of the list.
TypeOK ==
  /\ list \in [Outputs -> Seq(Event)]
  /\ \A o \in Outputs : /\ current[o] \in 1 .. Len(list[o]) + 1
                        /\ last_step[o] \in 1 .. current[o]
  /\ modified \subseteq Outputs /\ pending \subseteq Outputs /\ changed \subseteq Outputs
  /\ next_time \in Time \cup {Infinity}
  /\ last_time \in Time /\ evt_step \in Time /\ target \in Time
  /\ phase \in {"loop", "iter", "solve", "accepted"}

\* The cached pending list and next_time agree with the lists at `current'.
NextTimeExact ==
  /\ \A o \in Outputs : o \in pending <=> current[o] <= Len(list[o])
  /\ pending # {} => next_time = MinTime({list[o][current[o]].et : o \in pending})

\* What is still to come on output o, as the list has it.
ToCome(o) ==
  LET rest == At(list[o], {n \in current[o] .. Len(list[o]) : NotRemoved(list[o][n])})
  IN [n \in 1 .. Len(rest) |-> [et |-> rest[n].et, pt |-> rest[n].pt]]

\* As long as no backup has left `current' at a removed event, the events of an
\* output from `current' on that are not removed are the ones it has posted and
\* not cancelled since, in order of time: what was cancelled only by rejected
\* work is back, what was cancelled otherwise is not.
QueueIsPromise ==
  misled = {} => \A o \in Outputs : ToCome(o) = Promised(posts[o], evt_step)

\* No step delivers an event that is marked removed.
NeverDeliversRemoved ==
  [][\A o \in Outputs : o \in changed' \ changed => NotRemoved(list[o][current[o]])]_vars

\* The same, as long as no backup has left `current' at a removed event.
DeliversWhatStands ==
  [][\A o \in Outputs : misled = {} /\ o \in changed' \ changed
                          => NotRemoved(list[o][current[o]])]_vars

\* Event time does not run backwards within a timestep: the next event is never
\* earlier than the time the event solution has reached.
NoLateEvent == misled = {} /\ pending # {} => next_time >= evt_step

\* The first output to be misled is one that posts with different delays: with
\* one delay, a later post is for a later time and cancels nothing.
OneDelayIsSafe ==
  [][misled = {} => \A o \in misled' : Cardinality(Delays[o]) > 1]_vars
=============================================================================
