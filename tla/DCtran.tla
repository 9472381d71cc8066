------------------------------- MODULE DCtran -------------------------------
(***************************************************************************)
(* The timestep loop of the transient analysis, DCtran (dctran.c): the      *)
(* choice of the step, permanent and temporary breakpoints (cktsetbk.c,     *)
(* cktclrbk.c, cm.c), the event loop over the instance queue, the analog    *)
(* solution with its three outcomes, acceptance, and pausing.               *)
(*                                                                          *)
(* One unit of time is CKTdelmin.  What the numerical analysis decides (the *)
(* step it proposes, convergence, the truncation error) is nondeterministic.*)
(* The circuit has no digital outputs, so the event loop follows the        *)
(* instance queue, and UIC is not given.                                    *)
(***************************************************************************)
EXTENDS CKTbreak

CONSTANTS Insts,     \* event-driven instances
          MaxTime,   \* bound: no request for a later time
          MaxStep,   \* CKTmaxStep
          Requests,  \* times for which breakpoints are requested
          Events,    \* times for which instances ask to be called
          AskIn,     \* where code models request breakpoints
          MaxBreaks, \* bound: entries of the breakpoint table
          Indistinct \* times this far apart are "indistinguishably close": one
                     \* unit, or none when a unit is a little over CKTdelmin

ASSUME DCtranAssumption ==
  /\ MaxTime \in Nat /\ MaxStep \in Nat \ {0} /\ FinalTime \in 1 .. MaxTime
  /\ Requests \subseteq 1 .. MaxTime /\ Events \subseteq 1 .. MaxTime
  /\ AskIn \subseteq {"loop", "iter", "solve"} /\ Indistinct \in {0, 1}
  /\ MaxBreaks \in Nat

VARIABLES kept, done, todo, modified, pending, next_time, last_time,
          to_call, evt_step,   \* the instance queue, see EvtInstQueue
          target,    \* CKTtime + CKTdelta while a step is prepared, then CKTtime
          breaks,    \* CKTbreaks
          temp,      \* g_mif_info.breakpoint.current
          pc

queue == <<kept, done, todo, modified, pending, next_time, last_time>>
vars == <<queue, to_call, evt_step, target, breaks, temp, pc>>

\* What the event queue sees of pc.
phase == IF pc \in {"loop", "iter"} THEN pc
         ELSE IF pc \in {"solve", "reached", "failed"} THEN "solve"
         ELSE "accepted"

Evt == INSTANCE EvtInstQueue

Infinity == Evt!Infinity

CKTtime == IF pc \in {"solve", "reached"} THEN target ELSE last_time

Init ==
  /\ pc = "reached"   \* the operating point
  /\ Evt!Init
  /\ breaks = <<0, FinalTime>>
  /\ temp = Infinity

-----------------------------------------------------------------------------
(* Breakpoint requests.                                                     *)

SetBreak(t) ==
  /\ breaks' = CKTsetBreak(breaks, CKTtime, t)
  /\ Len(breaks') <= MaxBreaks

\* CKTaccept: a device asks for its next breakpoint.
DeviceBreak(t) ==
  /\ pc = "reached" /\ t >= CKTtime
  /\ SetBreak(t)
  /\ UNCHANGED <<queue, to_call, evt_step, target, temp, pc>>

\* The analysis is paused, and its user asks for a breakpoint.
UserBreak(t) ==
  /\ pc = "paused" /\ t >= CKTtime
  /\ SetBreak(t)
  /\ UNCHANGED <<queue, to_call, evt_step, target, temp, pc>>

Near(t, u) == t - u < MinBreak /\ u - t < MinBreak

\* A mutant: a breakpoint at the present time is not discarded.
TempAtNow(t) ==
  temp' = IF \/ t < CKTtime - (target - last_time) + MinBreak
             \/ Near(t, breaks[1]) \/ Near(t, breaks[2])
             \/ t >= temp
          THEN temp ELSE t

\* cm_analog_set_temp_bkpt.  CKTtime - CKTdelta is the last accepted time when a
\* step is being solved, and CKTdelta before it when one is being prepared.
SetTemp(t) ==
  temp' = IF \/ t < CKTtime - (target - last_time) + MinBreak
             \/ Near(t, breaks[1]) \/ Near(t, breaks[2]) \/ Near(t, CKTtime)
             \/ t >= temp
          THEN temp ELSE t

\* A code model is being called: by EVTiter, in the first step also before the
\* event loop, by NIiter or by EVTcall_hybrids.
ModelCalled == Evt!MayPost /\ pc \in AskIn

\* The model asks for a time that is not behind the event time, when it is an
\* event that calls it.
cm_analog_set_temp_bkpt(t) ==
  /\ ModelCalled /\ (pc = "iter" => t >= evt_step)
  /\ SetTemp(t)
  /\ UNCHANGED <<queue, to_call, evt_step, target, breaks, pc>>

cm_analog_set_perm_bkpt(t) ==
  /\ ModelCalled /\ (pc = "iter" => t >= evt_step)
  /\ IF t < CKTtime + MinBreak
     THEN SetTemp(t) /\ UNCHANGED breaks
     ELSE SetBreak(t) /\ UNCHANGED temp
  /\ UNCHANGED <<queue, to_call, evt_step, target, pc>>

cm_event_queue(i, t) ==
  /\ UNCHANGED <<breaks, temp, pc>>
  /\ pc # "reached"
  /\ Evt!cm_event_queue(i, t)

-----------------------------------------------------------------------------
(* From one timepoint to the next.                                          *)

\* nextTime: the timepoint is accepted.  A measurement (autostop) may end the
\* analysis early.
NextTime ==
  /\ pc = "reached"
  /\ breaks' = IF CKTtime > breaks[1] THEN CKTclrBreak(breaks) ELSE breaks
  /\ Evt!EVTaccept_inst(CKTtime)
  /\ pc' \in IF CKTtime = FinalTime THEN {"done"} ELSE {"done", "paused", "resume"}
  /\ UNCHANGED <<to_call, evt_step, target, temp>>

Resume ==
  /\ pc = "paused"
  /\ pc' = "resume"
  /\ UNCHANGED <<queue, to_call, evt_step, target, breaks, temp>>

\* The first step after a breakpoint is limited by the time from it to the next
\* one (a tenth of it, so less than that time when it is positive).
AfterBreak(delta) ==
  LET gap == breaks[2] - breaks[1]
      less == IF gap > 0 THEN (gap + 9) \div 10 ELSE gap
  IN IF CKTtime = breaks[1] \/ breaks[1] - CKTtime <= Indistinct
     THEN IF less < delta THEN less ELSE delta
     ELSE delta

CutToTemp(delta) == IF CKTtime + delta >= temp THEN temp - CKTtime ELSE delta

\* The breakpoints that have come, or come in the very near future, are thrown
\* out, unless it is the final time.
ThrowOut(table) ==
  LET outdated(b) == b <= CKTtime + MinBreak /\ b < FinalTime
      first == CHOOSE k \in 1 .. Len(table) + 1 :
                 /\ ~ outdated(Refilled(table)[k])
                 /\ \A j \in 1 .. k - 1 : outdated(Refilled(table)[j])
  IN CKTclrBreaks(table, first - 1)

\* A mutant: a breakpoint that is passed by little is not hit.
HitLate(delta, b) ==
  IF CKTtime + delta > b + MinBreak THEN b - CKTtime ELSE delta

\* The step is forced to the breakpoint b, or halves the way to it.
Hit(delta, b) ==
  IF CKTtime + delta > b THEN b - CKTtime
  ELSE IF 19 * delta > 10 * (b - CKTtime) THEN (b - CKTtime + 1) \div 2
  ELSE delta

\* resume: the next step, from the proposed delta.
StartStep(delta) ==
  /\ pc = "resume"
  /\ breaks' = ThrowOut(breaks)
  /\ target' = CKTtime + Hit(CutToTemp(AfterBreak(delta)), breaks'[1])
  /\ pc' = "loop"
  /\ UNCHANGED <<queue, to_call, evt_step, temp>>

\* One round of the event loop, at EVTnext_time.
EventRound ==
  /\ pc = "loop"
  /\ pending # {} /\ next_time <= target
  /\ evt_step' = next_time
  /\ temp' = Infinity
  /\ Evt!EVTdequeue_inst(next_time)
  /\ pc' = "iter"
  /\ UNCHANGED <<target, breaks>>

EVTload(i) ==
  /\ UNCHANGED <<breaks, temp, pc>>
  /\ Evt!EVTload(i)

\* A mutant: the breakpoint table is not looked at.
CutToTempOnly ==
  /\ pc = "iter" /\ to_call = {}
  /\ temp' = temp
  /\ target' = IF temp < target /\ temp > CKTtime + MinBreak /\ temp >= evt_step
               THEN temp ELSE target
  /\ pc' = "loop"
  /\ UNCHANGED <<queue, to_call, evt_step, breaks>>

\* The end of the round: an instance that asked for an earlier breakpoint,
\* temporary or permanent, cuts the step.
EndRound ==
  /\ pc = "iter" /\ to_call = {}
  /\ temp' = IF breaks[1] < temp /\ breaks[1] > CKTtime + MinBreak
             THEN breaks[1] ELSE temp
  /\ target' = IF /\ temp' < target
                  /\ temp' > CKTtime + MinBreak /\ temp' >= evt_step
               THEN temp' ELSE target
  /\ pc' = "loop"
  /\ UNCHANGED <<queue, to_call, evt_step, breaks>>

\* Time moves to the target, where the analog solver is run.
Solve ==
  /\ pc = "loop"
  /\ pending = {} \/ next_time > target
  /\ evt_step' = target
  /\ temp' = Infinity
  /\ pc' = "solve"
  /\ UNCHANGED <<queue, to_call, target, breaks>>

\* A mutant: the event queue is not told.
RetryWithoutBackup(delta) ==
  /\ target' = last_time + delta
  /\ evt_step' = target'
  /\ temp' = Infinity
  /\ UNCHANGED <<queue, to_call, breaks, pc>>

\* The step is tried again, with a smaller delta.
Retry(delta) ==
  /\ Evt!EVTbackup_inst_queue(last_time + delta)
  /\ target' = last_time + delta
  /\ evt_step' = target'
  /\ temp' = Infinity
  /\ UNCHANGED <<to_call, breaks, pc>>

\* A mutant: the smallest step is tried again and again.
KeepTrying(delta) == Retry(IF delta <= 1 THEN 1 ELSE delta)

\* The smallest delta is tried once, then the analysis gives up.
RetryOrFail(delta) ==
  IF delta > 1 \/ target - last_time > 1
  THEN Retry(IF delta <= 1 THEN 1 ELSE delta)
  ELSE /\ pc' = "failed"
       /\ UNCHANGED <<queue, to_call, evt_step, target, breaks, temp>>

\* No convergence, or too large a truncation error.
Reject(delta) ==
  /\ pc = "solve"
  /\ delta < target - last_time \/ delta = 0
  /\ RetryOrFail(delta)

\* past_breakpoint: a temporary breakpoint lies behind the solution.
PastBreakpoint ==
  /\ pc = "solve"
  /\ temp < target
  /\ RetryOrFail(temp - last_time)

\* The solution converged with a small enough truncation error.
Converged ==
  /\ pc = "solve"
  /\ ~ temp < target
  /\ pc' = "reached"
  /\ UNCHANGED <<queue, to_call, evt_step, target, breaks, temp>>

Step ==
  \/ NextTime \/ EventRound \/ EndRound \/ Solve \/ PastBreakpoint \/ Converged
  \/ \E delta \in 1 .. MaxStep : StartStep(delta)
  \/ \E delta \in 0 .. MaxStep : Reject(delta)
  \/ \E i \in Insts : EVTload(i) \/ \E t \in Events : cm_event_queue(i, t)
  \/ \E t \in Requests : \/ DeviceBreak(t)
                         \/ cm_analog_set_temp_bkpt(t)
                         \/ cm_analog_set_perm_bkpt(t)

User == Resume \/ \E t \in Requests : UserBreak(t)

Next == Step \/ User

\* The loop is one thread and goes on until it returns; the user may leave a
\* paused analysis alone.
Spec == Init /\ [][Next]_vars /\ WF_vars(Step)

-----------------------------------------------------------------------------
(* Properties.                                                              *)

\* The state has the shape the code's types give it.
TypeOK ==
  /\ Evt!TypeOK
  /\ breaks \in Seq(Evt!Time) /\ Len(breaks) >= 2
  /\ temp \in Evt!Time \cup {Infinity}
  /\ pc \in {"reached", "paused", "resume", "loop", "iter", "solve", "done", "failed"}

\* The breakpoint table is in order of time: the loop looks at its first entry
\* only.
TableOrdered == Ordered(breaks)

\* The analysis does not go beyond the final time.
FinalTimeKept == target <= FinalTime

\* No breakpoint of the table has been stepped over when a timepoint is reached,
\* unless it was thrown out as being in the very near future.
NoBreakSteppedOver ==
  pc = "reached" =>
    \A k \in 1 .. Len(breaks) : ~ (last_time + MinBreak < breaks[k] /\ breaks[k] < target)

\* Every step that is prepared or tried leads past the last accepted timepoint.
StepForward == pc \in {"loop", "iter", "solve"} => target > last_time

\* The timestep loop keeps to the protocol that the event queue's promises rest
\* on: it does all the queue expects, and nothing else, in the order it expects.
KeepsQueueProtocol == Evt!Spec

\* Once started or resumed, the analysis ends, fails or pauses.
Returns == (pc # "paused") ~> (pc \in {"done", "failed", "paused"})
=============================================================================
