------------------------------- MODULE DCosim -------------------------------
(***************************************************************************)
(* The bridge from the event-driven simulator to a digital co-simulator,    *)
(* the code model d_cosim (d_cosim/cfunc.mod), within the timestep loop     *)
(* that calls it (dctran.c): for every event that changes an input, and     *)
(* once more, STEP_PENDING, when the analog solution has been found.  Only  *)
(* then does the co-simulator run, from input to input.  When it has output *)
(* from too far in the past, the step is cut and tried again.               *)
(*                                                                          *)
(* Inputs and outputs are bits, and a d_inout port is an input only: output *)
(* to one is not modelled.  The co-simulator is the environment (cosim.h):  *)
(* it runs to vtime, or stops earlier with output; it cannot go back.       *)
(* There are no other irreversible instances and no permanent breakpoints   *)
(* near.                                                                    *)
(***************************************************************************)
EXTENDS Integers, Sequences, FiniteSets

CONSTANTS NumIns,        \* in_ports: inputs are 1 .. NumIns
          Outs,          \* outputs
          Methods,       \* of the co-simulator: "normal", "after", "both"
          Delay,         \* PARAM(delay)
          Extra,         \* a third of it
          QLength,       \* PARAM(queue_size)
          MinBreak,      \* CKTminBreak
          MaxStep,       \* CKTmaxStep
          MaxTime,       \* bound: the final time
          InTimes        \* bound: when inputs change

Ins == 1 .. NumIns
Time == 0 .. MaxTime

ASSUME CosimAssumption ==
  /\ NumIns \in Nat \ {0} /\ Methods \subseteq {"normal", "after", "both"}
  /\ Extra \in Nat \ {0} /\ Delay = 3 * Extra
  /\ QLength \in Nat /\ QLength >= NumIns
  /\ MinBreak \in 1 .. 2 * Extra /\ MaxStep \in Nat \ {0} /\ MaxTime \in Nat
  /\ InTimes \subseteq Time

VARIABLES pc,
          last, target,   \* the last accepted time, and CKTtime of the step tried
          TIME,           \* evt_step
          firsttime,      \* of DCtran: no step has been accepted yet
          brk,            \* breakpoint.current, asked for by STEP_PENDING
          states,         \* of the instance (EvtState) since `last': in_vals, out_vals
          q, vtime, last_step, op_pending, out_vals, method,  \* struct instance
          started,        \* sim_started
          post,           \* OUTPUT_DELAY, or NoPost without OUTPUT_CHANGED
          ran, fresh, seen, shown, born,  \* the co-simulator: its time, an input is
                          \* new, its inputs and outputs, when it made an output
          lost,           \* history: input changes it will not see, or sees
                          \* though they have been taken back
          wiped,          \* history: outputs whose mark of a change was reset,
          taken,          \* or whose change was taken back
          ahead,          \* history: how far the co-simulator had run when the
                          \* solver last went back to before pending output,
          misled          \* and the inputs that have not been given to it since

step == <<last, target, TIME, states, firsttime>>
bridge == <<q, vtime, last_step, op_pending, out_vals, method, started, post>>
cosim == <<ran, fresh, seen, shown, born>>
missed == <<wiped, taken, ahead, misled>>
vars == <<pc, brk, step, bridge, cosim, lost, missed>>

NoPost == -1
None == [o \in Outs |-> NoPost]
Low == [o \in Outs |-> FALSE]
Infinity == MaxTime + MinBreak + 1

Now == states[Len(states)]

\* What has been sent to the output nodes is kept along with the state: a backup
\* takes both back.
Init ==
  /\ pc = "accepted" /\ last = 0 /\ target = 0 /\ TIME = 0 /\ brk = Infinity
  /\ firsttime = TRUE
  /\ seen = [i \in Ins |-> FALSE]
  /\ states = <<[at |-> 0, in |-> seen, out |-> Low,
                 sent |-> Low]>>
  /\ q = <<>> /\ vtime = 0 /\ last_step = 0 /\ op_pending = FALSE
  /\ out_vals = Low /\ method \in Methods
  /\ started = 0 /\ post = None
  /\ ran = 0 /\ fresh = TRUE /\ shown = Low
  /\ born = [o \in Outs |-> 0]
  /\ lost = {} /\ wiped = {} /\ taken = {} /\ ahead = 0 /\ misled = {}

\* The entries of a queue up to time t.
UpTo(queue, t) ==
  SubSeq(queue, 1, Cardinality({k \in DOMAIN queue : queue[k].when <= t}))

-----------------------------------------------------------------------------
(* Output.                                                                  *)

\* A mutant: an output that was made a while ago gets the whole delay.
OutputsLate(vals, t, from) ==
  [o \in Outs |-> IF vals[o] # Now.out[o] THEN Delay ELSE NoPost]

\* output, at time t: what is new goes out, the delay after the time the
\* co-simulator made it, or at once if that is past.
Outputs(vals, t, from) ==
  LET delay == Delay - (t - from)
      new == {o \in Outs : vals[o] # Now.out[o]}
  IN [o \in Outs |-> IF o \notin new THEN NoPost
                     ELSE IF delay <= 0 THEN 0 ELSE delay]

\* The model is called at time t, and pending output goes out.  (Without pending
\* output out_vals is not used; it is Low then.)
Called(t) ==
  /\ TIME' = t
  /\ post' = IF op_pending THEN Outputs(out_vals, t, vtime) ELSE None
  /\ op_pending' = FALSE /\ out_vals' = Low

\* The outputs marked as changed are posted.
Sent(out, posted) ==
  [o \in Outs |-> IF posted[o] # NoPost THEN out[o] ELSE Now.sent[o]]

Shown == IF op_pending THEN out_vals ELSE Now.out

-----------------------------------------------------------------------------
(* Events.                                                                  *)

\* The next step is prepared.
StartStep(t) ==
  /\ pc = "accepted" /\ t \in last + 1 .. last + MaxStep /\ t <= MaxTime
  /\ target' = t
  /\ pc' = "loop"
  /\ UNCHANGED <<brk, last, TIME, states, firsttime, bridge, cosim, lost, missed>>

\* check_input: a change is queued.  If the queue is full it is not, changes at
\* the same time are dropped, and a breakpoint is asked for before them.
check_input(queue, input) ==
  IF Len(queue) < QLength
  THEN [q |-> Append(queue, input), brk |-> Infinity, dropped |-> {}]
  ELSE LET kept == UpTo(queue, input.when - 1)
           last_kept == kept[Len(kept)].when
       IN [q |-> kept,
           brk |-> IF kept = <<>> THEN Infinity ELSE (input.when + last_kept) \div 2,
           dropped |-> {queue[k] : k \in Len(kept) + 1 .. Len(queue)} \cup {input}]

Before(t) == states[Cardinality({k \in DOMAIN states : states[k].at < t})]

\* A round of the event loop at time t in which input i changes, which it does
\* once at that time.  Its breakpoint cuts the step only if it is not earlier
\* than the event.  (Inputs that change together are rounds at the same time.)
Event(t, i) ==
  LET c == check_input(UpTo(q, t), [when |-> t, which |-> i, what |-> ~ Now.in[i]]) IN
  /\ pc = "loop" /\ t \in InTimes /\ t \in TIME .. target /\ last < t
  /\ Before(t).in[i] = Now.in[i]
  /\ Called(t)
  /\ states' = Append(states, [at |-> t, in |-> [Now.in EXCEPT ![i] = ~ @],
                               out |-> Shown, sent |-> Sent(Shown, post')])
  /\ q' = c.q /\ lost' = lost \cup c.dropped
  /\ target' = IF c.brk < target /\ c.brk > last + MinBreak /\ c.brk >= t
               THEN c.brk ELSE target
  /\ UNCHANGED <<pc, brk, last, firsttime, vtime, last_step, method, started, cosim,
                 missed>>

-----------------------------------------------------------------------------
(* The analog solution.                                                     *)

\* EVTbackup: states and changes of inputs after time t are taken back.
Backup(t) ==
  LET n == Cardinality({k \in DOMAIN states : states[k].at <= t}) IN
  /\ states' = SubSeq(states, 1, n)
  /\ target' = t

\* No convergence, or too large a truncation error; also of a step that the
\* bridge has cut, for output that is then in the future.
Reject(delta) ==
  /\ pc \in {"loop", "retry"} /\ delta \in 1 .. target - last - 1
  /\ Backup(last + delta)
  /\ IF op_pending /\ target' < vtime
     THEN ahead' = ran /\ misled' = Ins
     ELSE UNCHANGED <<ahead, misled>>
  /\ lost' = {c \in lost : c.when <= target'}
  /\ taken' = taken \cup {o \in Outs : Now.out[o] # Now'.out[o]}
  /\ pc' = "retry"
  /\ UNCHANGED <<brk, last, TIME, firsttime, bridge, cosim, wiped>>

\* The first step is accepted without a call.  Changes of inputs that a rejection
\* has taken back stay in the queue.
FirstStep ==
  /\ pc \in {"loop", "retry"} /\ firsttime
  /\ firsttime' = FALSE
  /\ TIME' = target /\ last' = target
  /\ states' = <<Now>>
  /\ lost' = lost \cup {q[k] : k \in {j \in DOMAIN q : q[j].when > target}}
  /\ pc' = "accepted"
  /\ UNCHANGED <<brk, target, bridge, cosim, missed>>

\* The solution is found: STEP_PENDING.  Pending output goes out, inputs later
\* than the time are forgotten.
StepPending ==
  /\ pc \in {"loop", "retry"} /\ ~ firsttime
  /\ Called(target)
  /\ states' = Append(states, [Now EXCEPT !.at = target, !.out = Shown])
  /\ q' = UpTo(q, target)
  /\ pc' = IF last_step = 0 THEN "first" ELSE "run"
  /\ UNCHANGED <<brk, last, target, firsttime, vtime, last_step, method, started,
                 cosim, lost, missed>>

-----------------------------------------------------------------------------
(* The co-simulator runs.                                                   *)

Max2(a, b) == IF a < b THEN b ELSE a

\* step: it runs to the time it is given, without output; it leaves input for
\* later if it is ahead of that time,
Runs(goal) ==
  /\ vtime' = goal
  /\ ran' = Max2(ran, goal) /\ fresh' = (fresh /\ goal < ran)
  /\ UNCHANGED <<seen, shown, born>>

\* or it stops at an earlier time u with new output: once at a time, unless it
\* has been given input; also if it is ahead.  One that is called after input
\* does nothing without it.
Stops(goal, u, new) ==
  /\ u <= goal /\ new # {}
  /\ method = "after" => u = goal /\ fresh
  /\ u > ran \/ (fresh /\ u \in {ran, goal})
  /\ vtime' = u /\ ran' = Max2(ran, u) /\ fresh' = FALSE
  /\ shown' = [o \in Outs |-> IF o \in new THEN ~ shown[o] ELSE shown[o]]
  /\ born' = [o \in Outs |-> IF o \in new THEN u ELSE born[o]]
  /\ UNCHANGED seen

\* A mutant: the other outputs are not set.
AcceptedAlone(new) == [o \in Outs |-> o \in new /\ shown'[o]]

\* accept_output, with the other outputs (of d_out) as they are.
Accepted(new) == [o \in Outs |-> IF o \in new THEN shown'[o] ELSE Now.out[o]]

\* Output that can still be in time goes out at once.  This sets OUTPUT_CHANGED
\* of every output, of those that have gone out in this call as well.
Direct(vals, next) ==
  /\ TIME - vtime' <= Delay
  /\ states' = [states EXCEPT ![Len(states)].out = vals]
  /\ post' = Outputs(vals, TIME, vtime')
  /\ wiped' = wiped \cup {o \in Outs : post[o] # NoPost /\ post'[o] = NoPost}
  /\ pc' = next
  /\ UNCHANGED <<brk, q, op_pending, out_vals, lost>>

\* A mutant: the step is cut to as little as it can be.
TruncateShort(vals) ==
  /\ TIME - vtime' > Delay
  /\ brk' = last + MinBreak
  /\ lost' = lost \cup {q[k] : k \in {j \in DOMAIN q : q[j].when <= brk'}}
  /\ q' = <<>>
  /\ op_pending' = TRUE /\ out_vals' = vals
  /\ pc' = "cut"
  /\ UNCHANGED <<states, post, wiped>>

\* Otherwise the step is cut to a little after it, or, if that would not be later
\* than the last step, to the first time that can be; the queue is given up.
Truncate(vals) ==
  LET when == Max2(vtime' + Extra, last + MinBreak) IN
  /\ TIME - vtime' > Delay
  /\ brk' = IF when - TIME < MinBreak /\ TIME - when < MinBreak
            THEN TIME + MinBreak ELSE when
  /\ lost' = lost \cup {q[k] : k \in {j \in DOMAIN q : q[j].when <= brk'}}
  /\ q' = <<>>
  /\ op_pending' = TRUE /\ out_vals' = vals
  /\ pc' = "cut"
  /\ UNCHANGED <<states, post, wiped>>

\* advance.
advance(goal, next) ==
  /\ \/ /\ Runs(goal)
        /\ pc' = next
        /\ UNCHANGED <<brk, states, q, op_pending, out_vals, post, lost, wiped>>
     \/ \E u \in {goal} \cup ran .. goal : \E new \in SUBSET Outs :
          /\ Stops(goal, u, new)
          /\ Direct(Accepted(new), next) \/ Truncate(Accepted(new))
  /\ UNCHANGED <<last, target, TIME, firsttime, method, taken, ahead, misled>>

\* In the first step the co-simulator starts, at time zero.
First ==
  /\ pc = "first"
  /\ advance(vtime, "run")
  /\ UNCHANGED <<last_step, started>>

\* run: inputs are replayed if there are any.
Run ==
  /\ pc = "run"
  /\ started' = vtime
  /\ pc' = IF q = <<>> THEN "last" ELSE "scan"
  /\ UNCHANGED <<brk, step, q, vtime, last_step, op_pending, out_vals, method, post,
                 cosim, lost, missed>>

\* The next input; one that is behind the co-simulator is skipped.
Scan ==
  /\ pc = "scan"
  /\ IF q = <<>>
     THEN /\ pc' = IF method = "normal" /\ TIME > vtime THEN "last" ELSE "return"
          /\ UNCHANGED <<q, vtime>>
     ELSE IF q[1].when <= started THEN q' = Tail(q) /\ UNCHANGED <<pc, vtime>>
     ELSE /\ vtime' = q[1].when
          /\ pc' = IF method = "after" THEN "give" ELSE "before"
          /\ UNCHANGED q
  /\ UNCHANGED <<brk, step, last_step, op_pending, out_vals, method, started, post,
                 cosim, lost, missed>>

\* A mutant: it is not run up to the input.
AheadNot ==
  /\ pc = "before" /\ pc' = "give"
  /\ UNCHANGED <<brk, step, bridge, cosim, lost, missed>>

Ahead ==
  /\ pc = "before"
  /\ advance(vtime, "give")
  /\ UNCHANGED <<last_step, started>>

\* A mutant: of inputs of the same time only the first is given.
GiveFirst ==
  /\ pc = "give"
  /\ seen' = [seen EXCEPT ![q[1].which] = q[1].what]
  /\ q' = SubSeq(q, Len(UpTo(q, q[1].when)) + 1, Len(q))
  /\ fresh' = TRUE
  /\ lost' = {c \in lost : c.which = q[1].which => c.when >= q[1].when}
  /\ misled' = misled \ {q[1].which}
  /\ pc' = IF method = "normal" THEN "scan" ELSE "after"
  /\ UNCHANGED <<brk, step, vtime, last_step, op_pending, out_vals, method, started,
                 post, ran, shown, born, wiped, taken, ahead>>

\* in_fn: the input, with all others of the same time in their order.
Give ==
  LET same == UpTo(q, q[1].when)
      given == {same[k].which : k \in DOMAIN same}
      for(i) == {k \in DOMAIN same : same[k].which = i}
      what(i) == same[CHOOSE k \in for(i) : \A j \in for(i) : j <= k].what
  IN
  /\ pc = "give"
  /\ seen' = [i \in Ins |-> IF i \in given THEN what(i) ELSE seen[i]]
  /\ q' = SubSeq(q, Len(same) + 1, Len(q))
  /\ fresh' = TRUE
  /\ lost' = {c \in lost : c.which \in given => c.when >= q[1].when}
  /\ misled' = misled \ given
  /\ pc' = IF method = "normal" THEN "scan" ELSE "after"
  /\ UNCHANGED <<brk, step, vtime, last_step, op_pending, out_vals, method, started,
                 post, ran, shown, born, wiped, taken, ahead>>

After ==
  /\ pc = "after"
  /\ advance(vtime, "scan")
  /\ UNCHANGED <<last_step, started>>

\* The rest of the step.
Last ==
  /\ pc = "last"
  /\ advance(TIME, "return")
  /\ UNCHANGED <<last_step, started>>

\* The call returns, and the step is accepted; also when a breakpoint was asked
\* for that is later.
Accepting == pc = "return" \/ (pc = "cut" /\ brk >= TIME)

\* The outputs whose last change has been posted in the end.
Posted == {o \in Outs : Sent(Now.out, post)[o] = Now.out[o] /\ Now.out[o] = shown[o]}

Return ==
  /\ Accepting
  /\ last_step' = IF pc = "return" THEN vtime ELSE last_step
  /\ states' = <<[Now EXCEPT !.sent = Sent(Now.out, post)]>>
  /\ last' = target
  /\ pc' = "accepted"
  /\ brk' = Infinity /\ started' = 0 /\ post' = None
  /\ wiped' = wiped \ Posted /\ taken' = taken \ Posted
  /\ UNCHANGED <<target, TIME, firsttime, q, vtime, op_pending, out_vals, method, cosim,
                 lost, ahead, misled>>

\* The call returns, and the step is tried again up to the breakpoint.
PastBreakpoint ==
  /\ pc = "cut" /\ brk < TIME
  /\ Backup(brk)
  /\ pc' = "retry"
  /\ brk' = Infinity /\ started' = 0
  /\ UNCHANGED <<last, TIME, firsttime, q, vtime, last_step, op_pending, out_vals, method,
                 post, cosim, lost, missed>>

Solver == FirstStep \/ StepPending \/ \E delta \in 1 .. MaxStep : Reject(delta)

Cosim == First \/ Run \/ Scan \/ Ahead \/ Give \/ After \/ Last \/ Return \/ PastBreakpoint

Next ==
  \/ \E t \in Time : StartStep(t) \/ \E i \in Ins : Event(t, i)
  \/ Solver \/ Cosim

Spec == Init /\ [][Next]_vars

-----------------------------------------------------------------------------
(* Properties.                                                              *)

\* The state has the shape the code's types give it.
TypeOK ==
  /\ last \in Time /\ target \in Time /\ TIME \in Time /\ vtime \in Time
  /\ Len(q) <= QLength /\ states # <<>>
  /\ \A o \in Outs : post[o] \in NoPost .. Delay + MaxTime

\* When the bridge lets a step be accepted, the co-simulator has been given all of
\* the input, but for changes lost to a full queue or in the margin after a cut,
\* and those the first step has left in the queue; and but for inputs it has not
\* been given since the solver has gone back behind it, for it may have seen them
\* change in a future that did not come.
InputsSeen ==
  Accepting => \A i \in Ins \ misled :
    seen[i] = Now.in[i] \/ \E c \in lost : c.which = i /\ c.when <= TIME

\* And all of its output has been posted or is pending, but for what a second
\* output in the same call has wiped out, or a rejection has taken back after it
\* was pending from one step to the next.
OutputsSent ==
  pc = "accepted" =>
    \A o \in Outs : \/ Now.sent[o] = shown[o]
                     \/ (op_pending /\ out_vals[o] = shown[o])
                     \/ o \in wiped \cup taken

\* "It is safe to use OUTPUT() here, although it mays seem that this function may
\* be called twice in a single call to cm_d_cosim()": no output is wiped out.
EveryOutputSent == pc = "accepted" => wiped = {}

\* An output appears the delay after the co-simulator made it, however far the
\* step had gone on by then; later only if it was made before the last step
\* ended, and never earlier.
OutputOnTime ==
  pc \in {"loop", "return"} =>
    \A o \in Outs : post[o] # NoPost =>
      /\ TIME + post[o] >= born[o] + Delay
      /\ born[o] > last => TIME + post[o] = born[o] + Delay

\* The co-simulator cannot go back, and neither what the bridge does (cutting and
\* retrying a step, replaying the queue) nor a rejection before its output is known
\* asks it to: it is never ahead of the time it is run to, or of an accepted step.
\* Only a rejection after the bridge has cut the step for its output, to before that
\* output, leaves it ahead, and then by no more than it was at that moment.
NeverBack ==
  /\ pc \in {"first", "before", "after"} => ran <= Max2(vtime, ahead)
  /\ pc = "last" => ran <= Max2(TIME, ahead)
  /\ pc = "accepted" => ran <= Max2(last, ahead)

\* An input reaches the co-simulator when it is at the time of the input, or
\* short of it by no more than the delay.
InputOnTime ==
  pc = "give" /\ method # "after" => q[1].when - ran <= Delay
=============================================================================
