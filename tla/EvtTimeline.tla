---------------------------- MODULE EvtTimeline ----------------------------
(***************************************************************************)
(* What the instance event queue promises to the code models, with none of  *)
(* its machinery: one log of events, one clock.  An event of the log whose  *)
(* time is past the clock is still to come; one at or before the clock has  *)
(* been handed to its instance.  A rejected analog timestep takes the       *)
(* circuit back to an earlier time, and the log then holds exactly the      *)
(* events that had been posted by that time.                                *)
(***************************************************************************)
EXTENDS Integers

CONSTANTS Insts,    \* event-driven instances
          MaxTime   \* bound on simulation time

VARIABLES log,      \* the posted events that stand: [inst, et, pt]
          clock,    \* the current event time
          base,     \* the last accepted analog timepoint
          to_call   \* instances whose event has come and that are not called yet

vars == <<log, clock, base, to_call>>

Time == 0 .. MaxTime

Entry == [inst : Insts, et : Time, pt : Time]

ToCome == {e \in log : e.et > clock}

Init == log = {} /\ clock = 0 /\ base = 0 /\ to_call = {}

\* Instance i asks to be called at time t; a second request for that time is
\* the same request.
Post(i, t) ==
  /\ t > clock
  /\ IF \E e \in log : e.inst = i /\ e.et = t
     THEN log' = log
     ELSE log' = log \cup {[inst |-> i, et |-> t, pt |-> clock]}
  /\ UNCHANGED <<clock, base, to_call>>

\* The clock moves to t, past no event, and every instance with an event at t
\* is to be called.
Deliver(t) ==
  /\ t >= clock
  /\ \A e \in ToCome : e.et >= t
  /\ to_call' = to_call \cup {e.inst : e \in {f \in ToCome : f.et = t}}
  /\ clock' = t
  /\ UNCHANGED <<log, base>>

Call(i) ==
  /\ i \in to_call
  /\ to_call' = to_call \ {i}
  /\ UNCHANGED <<log, clock, base>>

\* The analog solution reaches t, before every event still to come.
Solve(t) ==
  /\ t >= clock
  /\ \A e \in ToCome : e.et > t
  /\ clock' = t
  /\ UNCHANGED <<log, base, to_call>>

\* The timepoint is accepted: what has happened is forgotten, nothing else is.
Accept ==
  /\ base' = clock
  /\ log' = ToCome
  /\ UNCHANGED <<clock, to_call>>

\* The timepoint is rejected and time goes back to t: what was posted later
\* never was, and what happened after t is to come again.
Retract(t) ==
  /\ base < t /\ t < clock
  /\ clock' = t
  /\ log' = {e \in log : e.pt <= t}
  /\ UNCHANGED <<base, to_call>>

Next ==
  \/ \E i \in Insts, t \in Time : Post(i, t)
  \/ \E i \in Insts : Call(i)
  \/ \E t \in Time : Deliver(t) \/ Solve(t) \/ Retract(t)
  \/ Accept

Spec == Init /\ [][Next]_vars
=============================================================================
