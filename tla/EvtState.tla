------------------------------ MODULE EvtState ------------------------------
(***************************************************************************)
(* The states and messages of event-driven instances during a transient     *)
(* analysis: EVTcreate_state and EVTadd_msg, called by EVTload (evtload.c), *)
(* cm_event_get_ptr (cmevt.c), and the state and message parts of EVTaccept *)
(* (evtaccept.c) and EVTbackup (evtbackup.c).                               *)
(*                                                                          *)
(* Every call of a code model gets a new block of state, a copy of the one  *)
(* before it.  An instance's list from `head' to `tail' is a sequence of    *)
(* states, each with its block; `last_step' is always the link `head',      *)
(* since EVTaccept keeps only the last state.  Blocks are named because     *)
(* they are used again: what is cut off goes to the instance's free list,   *)
(* and a `prev' pointer may lead there.  A message is its event time; the   *)
(* links `tail' and `last_step' of a port's list are positions in it, as in *)
(* EvtOutputQueue.  Each instance has one port that sends messages.         *)
(***************************************************************************)
EXTENDS Integers, Sequences

CONSTANTS Insts,     \* event-driven and hybrid instances with a state
          Blocks,    \* Evt_State_t structures; bound on how many there are
          Null,      \* the null pointer
          Values,    \* contents of a block
          MaxTime,   \* bound: no event or target later than this
          MaxMsgs    \* bound: messages in the list of a port

ASSUME StateAssumption ==
  /\ MaxTime \in Nat /\ MaxMsgs \in Nat
  /\ Null \notin Blocks

VARIABLES chain,      \* chain[i]: the states from `head' to `tail'
          free,       \* free[i]: blocks of the free list
          modified,   \* instances called since the last accepted timepoint
          msgs, tail, last_step, msg_modified,   \* the messages of each port
          evt_step, target, last_time, phase,    \* as in EvtOutputQueue
          rejected,   \* history: blocks last written by calls taken back since
          sent,       \* history: the messages sent and not taken back
          stuck       \* history: ports a backup has left a message on

states == <<chain, free, modified>>
messages == <<msgs, tail, last_step, msg_modified>>
history == <<rejected, sent, stuck>>
vars == <<chain, free, modified, msgs, tail, last_step, msg_modified,
          evt_step, target, last_time, phase, rejected, sent, stuck>>

Time == 0 .. MaxTime

State == [block : Blocks, step : Time, val : Values, prev : Blocks \cup {Null}]

Last(s) == s[Len(s)]

BlocksOf(s) == {s[n].block : n \in 1 .. Len(s)}

Used == UNION {BlocksOf(chain[i]) \cup free[i] : i \in Insts}

\* After the operating point: one state each, and perhaps a message.
Init ==
  /\ chain \in [Insts -> {<<e>> : e \in [block : Blocks, step : {0}, val : Values,
                                          prev : {Null}]}]
  /\ \A i, j \in Insts : chain[i][1].block = chain[j][1].block => i = j
  /\ free = [i \in Insts |-> {}]
  /\ modified = {} /\ msg_modified = {}
  /\ msgs \in [Insts -> {<<>>, <<0>>}]
  /\ tail = [i \in Insts |-> 1] /\ last_step = [i \in Insts |-> 1]
  /\ evt_step = 0 /\ target = 0 /\ last_time = 0 /\ phase = "accepted"
  /\ rejected = {} /\ sent = msgs /\ stuck = {}

-----------------------------------------------------------------------------
(* EVTload in a transient analysis: a new state, what the code model makes  *)
(* of it, and perhaps a message.                                            *)

\* The block taken for a new state: from the free list, else a new one.
MayTake(i, b) == IF free[i] # {} THEN b \in free[i] ELSE b \in Blocks \ Used

NewState(i, b, v) ==
  [block |-> b, step |-> evt_step, val |-> v, prev |-> Last(chain[i]).block]

\* A mutant: the new state is not entered in the modified list.
CreateUnmodified(i, b, v) ==
  /\ MayTake(i, b)
  /\ chain' = [chain EXCEPT ![i] = Append(@, NewState(i, b, v))]
  /\ free' = [free EXCEPT ![i] = @ \ {b}]
  /\ UNCHANGED modified

\* A mutant: the block stays on the free list.
CreateStillFree(i, b, v) ==
  /\ MayTake(i, b)
  /\ chain' = [chain EXCEPT ![i] = Append(@, NewState(i, b, v))]
  /\ modified' = modified \cup {i}
  /\ UNCHANGED free

EVTcreate_state(i, b, v) ==
  /\ MayTake(i, b)
  /\ chain' = [chain EXCEPT ![i] = Append(@, NewState(i, b, v))]
  /\ free' = [free EXCEPT ![i] = @ \ {b}]
  /\ modified' = modified \cup {i}

\* A mutant: a message does not enter its port in the modified list.
AddUnmodified(i) ==
  /\ Len(msgs[i]) < MaxMsgs
  /\ tail' = [tail EXCEPT ![i] = IF @ <= Len(msgs[i]) THEN @ + 1 ELSE @]
  /\ msgs' = [msgs EXCEPT ![i] = Append(@, evt_step)]
  /\ sent' = [sent EXCEPT ![i] = Append(@, evt_step)]
  /\ UNCHANGED <<last_step, msg_modified>>

EVTadd_msg(i) ==
  /\ Len(msgs[i]) < MaxMsgs
  /\ tail' = [tail EXCEPT ![i] = IF @ <= Len(msgs[i]) THEN @ + 1 ELSE @]
  /\ msgs' = [msgs EXCEPT ![i] = Append(@, evt_step)]
  /\ msg_modified' = msg_modified \cup {i}
  /\ sent' = [sent EXCEPT ![i] = Append(@, evt_step)]
  /\ UNCHANGED last_step

\* As in EvtOutputQueue: in an event round, at time zero before the first
\* event, or when EVTcall_hybrids calls it after the analog solution.
MayLoad == phase \in {"iter", "solve"} \/ (phase = "loop" /\ evt_step = 0)

EVTload(i) ==
  /\ MayLoad
  /\ \E b \in Blocks, v \in Values :
       EVTcreate_state(i, b, v) /\ rejected' = rejected \ {b}
  /\ \/ EVTadd_msg(i)
     \/ UNCHANGED <<messages, sent>>
  /\ UNCHANGED <<evt_step, target, last_time, phase, stuck>>

\* What a code model reads with cm_event_get_ptr(tag, 1), the block before the
\* one at `tail', or that one itself if none is known.
Previous(i) ==
  LET state == Last(chain[i])
  IN IF state.prev # Null THEN state.prev ELSE state.block

-----------------------------------------------------------------------------
(* The timestep, as in EvtOutputQueue.                                      *)

StartStep(t) ==
  /\ phase = "accepted" /\ last_time < t
  /\ target' = t /\ phase' = "loop"
  /\ UNCHANGED <<states, messages, evt_step, last_time, history>>

EventRound(t) ==
  /\ phase = "loop" /\ evt_step <= t /\ t <= target
  /\ evt_step' = t /\ phase' = "iter"
  /\ UNCHANGED <<states, messages, target, last_time, history>>

EndRound(t) ==
  /\ phase = "iter" /\ last_time < t /\ evt_step <= t /\ t <= target
  /\ target' = t /\ phase' = "loop"
  /\ UNCHANGED <<states, messages, evt_step, last_time, history>>

Solve ==
  /\ phase = "loop"
  /\ evt_step' = target /\ phase' = "solve"
  /\ UNCHANGED <<states, messages, target, last_time, history>>

-----------------------------------------------------------------------------
(* EVTaccept: only the last state is kept.                                  *)

\* What is on the free list then: the older states are put before it; with no
\* older state but a `prev' pointer left, the live state would take its place.
Freed(i) ==
  IF Last(chain[i]).prev = Null THEN free[i]
  ELSE IF Len(chain[i]) = 1 THEN BlocksOf(chain[i])
  ELSE free[i] \cup BlocksOf(SubSeq(chain[i], 1, Len(chain[i]) - 1))

EVTaccept ==
  /\ phase = "solve"
  /\ free' = [i \in Insts |-> IF i \in modified THEN Freed(i) ELSE free[i]]
  /\ chain' = [i \in Insts |-> IF i \in modified THEN <<Last(chain[i])>> ELSE chain[i]]
  /\ modified' = {}
  /\ last_step' = [i \in Insts |-> IF i \in msg_modified THEN tail[i] ELSE last_step[i]]
  /\ msg_modified' = {}
  /\ last_time' = target /\ phase' = "accepted"
  /\ UNCHANGED <<msgs, tail, evt_step, target, history>>

-----------------------------------------------------------------------------
(* EVTbackup: what is later than new_time is cut off.                       *)

\* A mutant: what was written at new_time is cut off too.
CutAt(times, first, new_time) ==
  CHOOSE n \in first .. Len(times) :
    /\ n = Len(times) \/ times[n + 1] >= new_time
    /\ \A m \in first .. n - 1 : times[m + 1] < new_time

\* The position of the last entry kept of a list with these times: from the
\* entry at `last_step' on, the first whose next is later.
Cut(times, first, new_time) ==
  CHOOSE n \in first .. Len(times) :
    /\ n = Len(times) \/ times[n + 1] > new_time
    /\ \A m \in first .. n - 1 : times[m + 1] <= new_time

StateTimes(i) == [n \in 1 .. Len(chain[i]) |-> chain[i][n].step]

StateCut(i, new_time) == Cut(StateTimes(i), 1, new_time)

CutOff(i, new_time) ==
  BlocksOf(SubSeq(chain[i], StateCut(i, new_time) + 1, Len(chain[i])))

EVTbackup_state_data(new_time) ==
  /\ chain' = [i \in Insts |-> IF i \in modified
                               THEN SubSeq(chain[i], 1, StateCut(i, new_time))
                               ELSE chain[i]]
  /\ free' = [i \in Insts |-> IF i \in modified THEN free[i] \cup CutOff(i, new_time)
                              ELSE free[i]]
  /\ modified' = {i \in modified : Len(chain'[i]) > 1}
  /\ rejected' = rejected \cup UNION {CutOff(i, new_time) : i \in modified}

EVTbackup_msg_data(new_time) ==
  /\ tail' = [i \in Insts |-> IF i \in msg_modified
                              THEN Cut(msgs[i], last_step[i], new_time) ELSE tail[i]]
  /\ msgs' = [i \in Insts |-> IF i \in msg_modified
                              THEN SubSeq(msgs[i], 1, tail'[i]) ELSE msgs[i]]
  /\ msg_modified' = {i \in msg_modified : Len(msgs'[i]) > last_step[i]}
  /\ sent' = [i \in Insts |-> SubSeq(sent[i], 1, Cut(sent[i], 0, new_time))]
  /\ stuck' = stuck \cup {i \in Insts : sent'[i] = <<>> /\ msgs'[i] # <<>>}
  /\ UNCHANGED last_step

Backup(new_time) ==
  /\ phase = "solve" /\ last_time < new_time /\ new_time < target
  /\ EVTbackup_state_data(new_time)
  /\ EVTbackup_msg_data(new_time)
  /\ target' = new_time /\ evt_step' = new_time
  /\ UNCHANGED <<last_time, phase>>

Next ==
  \/ \E i \in Insts : EVTload(i)
  \/ \E t \in Time : StartStep(t) \/ EventRound(t) \/ EndRound(t) \/ Backup(t)
  \/ Solve
  \/ EVTaccept

Spec == Init /\ [][Next]_vars

-----------------------------------------------------------------------------
(* Properties.                                                              *)

\* The state has the shape the code's types give it.
TypeOK ==
  /\ chain \in [Insts -> Seq(State) \ {<<>>}]
  /\ free \in [Insts -> SUBSET Blocks]
  /\ modified \subseteq Insts /\ msg_modified \subseteq Insts
  /\ msgs \in [Insts -> Seq(Time)] /\ sent \in [Insts -> Seq(Time)]
  /\ tail \in [Insts -> Nat] /\ last_step \in [Insts -> Nat]
  /\ evt_step \in Time /\ target \in Time /\ last_time \in Time
  /\ phase \in {"loop", "iter", "solve", "accepted"}
  /\ rejected \subseteq Blocks /\ stuck \subseteq Insts

\* No block is in two places: a live state is never on a free list, and no two
\* states share a block.
NoLiveFree ==
  \A i, j \in Insts :
    /\ BlocksOf(chain[i]) \cap free[j] = {}
    /\ i # j => /\ BlocksOf(chain[i]) \cap BlocksOf(chain[j]) = {}
                /\ free[i] \cap free[j] = {}
    /\ \A m, n \in 1 .. Len(chain[i]) : chain[i][m].block = chain[i][n].block => m = n

\* The modified list has exactly the instances with a state after `last_step',
\* which EVTaccept takes for granted when it looks at `prev'.
ModifiedExact == \A i \in Insts : i \in modified <=> Len(chain[i]) > 1

\* The messages kept are the messages sent and not taken back, except on a port
\* whose first message of all was taken back.
MessagesAsSent == \A i \in Insts \ stuck : msgs[i] = sent[i]

\* The same without the exception: EVTbackup resets the data to its state at
\* the new time.
MessagesTakenBack == msgs = sent

\* What cm_event_get_ptr(tag, 1) returns is a state of a preceding timestep,
\* never one that was taken back.
PreviousNotRejected == \A i \in Insts : Previous(i) \notin rejected

\* The states an instance has are what the abstract record of them says.
Record ==
  INSTANCE EvtRecord WITH
    Keys <- Insts, Values <- Values, MaxTime <- MaxTime,
    record <- [i \in Insts |-> [n \in 1 .. Len(chain[i]) |->
                 [step |-> chain[i][n].step, val |-> chain[i][n].val]]],
    clock <- evt_step, base <- last_time

RecordSpec == Record!Spec
=============================================================================
