# A verification project for VioMATRIXC

VioMATRIXC is a mixed-signal circuit simulator, a fork of ngspice with the XSPICE
event-driven simulator, a shared-library interface and additions for the VioSpice
application. This directory holds TLA+ models of the parts of it whose correctness lies in
the *order* of things: event queues that are rolled back when the analog solver rejects a
timestep, the values, states and messages rolled back beside them, the breakpoint table, the
timestep loop that drives all of it, the DC sweep and the operating points it consists of, the
bridge to digital co-simulators, and the threads of the shared library. Each model is translated
from the source under `src/src/`; `PROJECT.json` maps every definition to lines.

## 1. Inventory

### 1.1 How a transient analysis works

`DCtran` (`spicelib/analysis/dctran.c`) is one thread and one loop. It computes the operating
point, accepts it, and then repeats:

1. *accept* the timepoint: `CKTaccept` lets the devices ask for breakpoints
   (`CKTsetBreak`), `EVTaccept` makes the event solution permanent; the analysis may end or
   pause here;
2. *choose a step*: the step the truncation error proposed is limited after a breakpoint, cut
   to a temporary breakpoint, to the first permanent breakpoint, or to half the way to it;
3. *process events* up to the time aimed at: `EVTnext_time`, `EVTdequeue`, `EVTiter`, where the
   instances that are called may post events and ask for breakpoints, which cut the step again;
4. *solve* the analog equations there (`NIiter`); on success call the hybrids
   (`EVTcall_hybrids`), which may reject the timepoint;
5. on no convergence, too large an error, or a breakpoint in the past: *retry* with a smaller
   step, after `EVTbackup` has taken the event solution back, or fail.

A *DC sweep* (`DCtrCurv`, `spicelib/analysis/dctrcurv.c`) is a loop over the values of nested
sources. A point is found by one Newton iteration or, where that does not do, by an operating
point: `EVTop` alternates the event side (`EVTiter`) with the analog side (`CKTop`, or `NIiter`
once there is a solution) and calls the hybrids in between, until no event output changes.
`CKTop` falls back from Newton iteration to gmin stepping, source stepping, and a transient
analysis.

The code model *d_cosim* stands for a digital simulator of its own, which cannot go back in
time. It queues the changes of its inputs and runs the co-simulator only in the call `EVTload`
makes for it when the analog solution of a step has been found (`STEP_PENDING`); if there is
output from too far in the past it cuts the step, which is then tried again.

### 1.2 Components

| Component | State | Operations | What makes it correct |
|---|---|---|---|
| Instance event queue (`evtqueue.c`, `evtdeque.c`, `evtaccept.c`, `evtbackup.c`, `cmevt.c`) | per instance a linked list with links `current` and `last_step`; lists of modified, pending and to-be-called instances; `next_time`, `last_time` | `cm_event_queue`, `EVTdequeue_inst`, `EVTaccept`, `EVTbackup_inst_queue` | every event is delivered at its time, once; a rejected step leaves what was posted by the time it goes back to; caches are exact |
| Output event queue (same files, `evtload.c`) | the same, events may be marked removed with a time | `EVTqueue_output`, `EVTdequeue_output`, `EVTaccept`, `EVTbackup_output_queue` | an output takes the values posted and not cancelled; cancellation is taken back with the step that made it |
| Event iteration (`evtiter.c`) | node values old and new, nodes to evaluate, outputs changed | `EVTiter` | settles or reports; calls every instance whose input changed |
| Node, state and message history (`evtload.c`, `evtbackup.c`, `evtaccept.c`, `cmevt.c`) | lists with tail, last_step, free list | `EVTload`, `cm_event_get_ptr`, backup and accept | an instance sees the state of the time it is at |
| Event operating point (`evtop.c`, `evtcall_hybrids.c`) | alternation counter | `EVTop`, `EVTcall_hybrids` | analog and event solutions agree, or an error |
| Analog operating point (`cktop.c`) | `CKTgmin`, `CKTdiagGmin`, `CKTsrcFact` | `CKTop` and its methods | what is returned solves the circuit as it is; nothing stays scaled; it ends |
| DC sweep (`dctrcurv.c`, `cktdojob.c`) | values swept and saved, `TRCVnestState`, `CKTtime` | `DCtrCurv`, pause, resume | every point once, in order, settled; sources put back |
| Co-simulation bridge (`d_cosim/cfunc.mod`) | input queue, `vtime`, `last_step`, pending output | `ucm_d_cosim`, `run`, `advance`, `output` | the co-simulator sees all input, at its time, and never has to go back; all its output appears, on time |
| Breakpoint table (`cktsetbk.c`, `cktclrbk.c`) | `CKTbreaks`, `CKTbreakSize` | `CKTsetBreak`, `CKTclrBreak` | ordered; entries `CKTminBreak` apart; the final time is an entry |
| Timestep loop (`dctran.c`, `cm.c`) | `CKTtime`, `CKTdelta`, `evt_step`, `breakpoint.current` | one loop | no breakpoint stepped over, steps forward, ends |
| Shared library (`sharedspice.c`) | `fl_running`, `fl_exited`, `ft_intrpt`, `cont_condition`, thread ids, `vecreallocMutex`, temporary breakpoints | `ngSpice_Command`, background and control threads, callbacks, `ngSpice_Reset` | one simulation at a time; a halt halts; controls run after the background run |
| Run, resume, step, stop (`runcoms*.c`, `breakp.c`, `outitf.c`) | job, plots, debug list | commands | a resumed run continues the paused one |
| Command interpreter (`control.c`) | stack of control blocks | `cp_evloop` | nesting respected |
| Solver (`niiter.c`, `cktop.c`, matrix code), devices, OSDI, CIDER | matrices, states | numerical | not a matter of order |
| Netlist input (`inp*.c`, `subckt.c`, numparam) | text | rewriting | sequential text processing |
| JIT bridge (`viospice_bridge.c`), WAV cache (`audio.c`) | registry list, cache | register, look up | small, shared by threads |

The event queues and the timestep loop call each other directly; the shared library calls the
loop through the command interpreter, in a thread of its own, and is called back by it.

### 1.3 What is hard here

* **Rollback.** Every queue keeps two generations (`last_step`, `current`) and is taken back
  to a time, not to a state; several lists have to be taken back consistently.
* **Caches.** `next_time`, `pending` and `modified` are kept by hand in four functions.
* **Order of decisions.** The step is cut in six places, by temporary and permanent
  breakpoints that come up at different moments.
* **Boundaries.** `<` and `<=`, `CKTminBreak`, `CKTdelmin`, equal times.
* **Partial failure.** Each method of `CKTop` changes the circuit and may fail in any of its
  steps, and the next one starts from what it leaves.
* **A partner that cannot go back**, the co-simulator, in a loop that does.
* **Threads** in the shared library: flags that are not synchronised.

`PROJECT.json` lists each hazard at its line with the properties that cover it.

## 2. The modules

| Module | Models | Role |
|---|---|---|
| `EvtTimeline` | what the instance queue promises | abstract specification: one log, one clock |
| `EvtInstQueue` | the instance event queue | detailed specification; implements `EvtTimeline` |
| `EvtOutputQueue`, `MCEvtOutputQueue` | the output event queue | detailed specification with history `posts`; its instances |
| `EvtRecord` | what is promised of values kept by time | abstract specification: a sequence of entries per key |
| `EvtRound`, `MCEvtRound` | node values, in an event round, accepted, taken back | composes `EvtOutputQueue` (`EXTENDS`) with the nodes its events reach; implements `EvtRecord` |
| `EvtState`, `MCEvtState` | states and messages of instances | detailed specification; implements `EvtRecord` |
| `CKTbreak` | `CKTsetBreak`, `CKTclrBreak` | operators on the table |
| `DCtran` | the timestep loop | composes `CKTbreak` with an `INSTANCE` of `EvtInstQueue` |
| `CKTop` | the analog operating point | the lowest of three layers |
| `EvtOp` | `EVTop`, `EVTiter`, `EVTcall_hybrids` in a DC analysis | the second, `EXTENDS CKTop` |
| `DCtrCurv`, `MCDCtrCurv` | the DC sweep with run and resume | the whole, `EXTENDS EvtOp`; its instances |
| `DCosim`, `MCDCosim` | the bridge within the timestep loop | stands alone: the loop and the co-simulator are its environment |
| `SharedSpice` | threads of `sharedspice.c` | stands alone: the simulator is "working" or not |
| `...Proofs` | | TLAPS proofs about `EvtInstQueue`, `EvtOutputQueue` and `EvtRound`, `EvtState`, `DCtran`, `DCtrCurv`, `DCosim`, `SharedSpice` |
| `NatLemmas` | | the least and the greatest number of a set, for proofs |

### 2.1 EvtInstQueue

A linked list is sorted and has no two events at one time, so it is the union of three sets:
`kept` (before the link `last_step`), `done` (from there to `current`: delivered since the last
accepted timepoint) and `todo`. `modified`, `pending`, `to_call` are the flag arrays with their
index lists; `next_time`, `last_time`, `evt_step` are the code's. `target` is
`CKTtime + CKTdelta` and `phase` the place in `DCtran`'s loop, which is modelled as any loop
that does what the queue needs. The free lists recycle memory and are left out. The other
queue may have the earlier next time: `EventRound(time)` takes any time up to this queue's.
`EVTaccept_inst` includes the case in which no event precedes `current`: the code's scan
for the owner of the link then does not stop there, and only the times of the events to come
keep it from freeing them. That is a fact the proof has to use (`NoneBehind`).

`EvtTimeline` is the promise: a log of requests, a clock; `Deliver` hands over the events of
the earliest time, `Solve` moves the clock past no event, `Retract` takes the log back to what
had been posted. `TimelineSpec` is the refinement, with `log <- Log`.

### 2.2 EvtOutputQueue

Removed events break the order of the list, so a list is a sequence, and the links are
positions in it. `Delays[o]` gives the delays output `o` is posted with; zero delays are left out
(they make the loop of the code endless, see the hazards). Two history variables: `posts`, the
posts of each output that stand, and `misled`, the outputs whose `current` a backup has left at a
removed event. `QueueIsPromise` compares the queue with `posts` while nothing is misled; the run
`output_removed` shows that misleading happens, `OneDelayIsSafe` to whom.

`EvtRound` adds to each action what it does with node values. `EVTdequeue` compares the value
of an event with the one its output drives and, if they differ, enters the node for evaluation;
`EVTiter` then puts a copy of the node on its list, `EVTaccept` lets all but the last go for nodes
that are not saved (or not yet, `InitTime`), `EVTbackup` cuts the list by the times in it. `rhs`
and `rhsold` agree wherever the model looks, and are one variable. The value of an event depends
on its output and delay (`ValueOf`), which is enough for a value that was there before.
`NodesFollowQueue` relates the two ways of rolling back: the queue finds its place by the times of
events, the node by the times of its values, and they must name the same value.

### 2.3 EvtState

`EVTcreate_state` gives every call of a code model a copy of the last state, in a block from the
instance's free list if there is one; `prev` pointers may lead to blocks that have been freed, which
is why blocks have names. `EVTaccept` keeps only the last state, so `last_step` is always the link
`head`; that is a simplification of the code's own making, and what it depends on (`ModifiedExact`)
is checked. Messages are kept for the analysis; their list starts empty, which the code handles
apart: the scan of `EVTbackup_msg_data` begins behind the first message, and one that stands there
is not taken back. `stuck` remembers on which ports that has happened.

`EvtRecord` is the common promise of states and node values: writing appends, going back takes away
exactly what is later, accepting may forget what is before the value that holds. `RecordSpec` and
`NodeRecordSpec` are the two refinements.

### 2.4 CKTbreak and DCtran

A unit of time is `CKTdelmin`. The values the numerics produce (proposed step, convergence,
error) are chosen by `\E`. `phase` of the instance queue is defined from `pc`, and every action
that touches the queue calls the queue's own action, or the part of it that the code calls at
that place; `KeepsQueueProtocol` (`Evt!Spec` as a property) says that the loop as a whole is one
of the loops `EvtInstQueue` allows, so that what is proved there holds here.

`AfterBreak`, `CutToTemp`, `ThrowOut`, `Hit` are the four stages of the choice of a step, in the
code's order. The `.1` of the code is rounded up to whole units, `1.9` and the halving are
exact up to rounding. `Indistinct` says whether one unit counts as "indistinguishably close".
Breakpoints are requested by devices (`DeviceBreak`), by the user while paused (`UserBreak`) and
by code models where `AskIn` says: in the event loop (`"iter"`), in the time-zero call before it
(`"loop"`) and during the analog solution (`"solve"`).

Left out: `UIC`, LTRA, sensitivity, integration order, and the `SHARED_MODULE` build, where
`sharedsync` may change the step.

### 2.5 CKTop, EvtOp and DCtrCurv

One program counter, `at`, runs through the layers: `DCtrCurv` starts a point at `"eval"`, `EvtOp`
comes to `"analog"` when the events have settled, `CKTop` goes from `"direct"` through its methods to
`"returned"`, `EvtOp` calls the hybrids, and with `"solved"` or `"failed"` the sweep goes on or ends.

*CKTop.* `NIiter` is an outcome: convergence in few, some or many iterations, which is what the
adaptive steps look at, or failure. Conductances are logarithms in whole units, so `/ factor` is a
subtraction and `sqrt` a halving, both as the code does them up to rounding; the test that a step
has become too small (`1.00005`) is `Eps`. `solved` remembers the settings at the last convergence.

*EvtOp.* One output per instance, nodes with one or several drivers (the latter resolved), calls of
code models with any result. An instance is `stale` while one of its inputs has changed after its
last call; a hybrid also when the analog solution has. `changed`, `to_call` and the values are the
code's, `stale` is a history variable that says what they are for. `MaxPasses` and `MaxAlternations`
are counters the code computes from the circuit (`evtinit.c:361`, `368`).

*DCtrCurv.* Level 1 is the code's level 0. The sweep may pause after any step (`IFpauseTest`), and
`Run` or `Resume` may follow; `CKTdoJob` sets the options of the task, the temperature included,
each time. A point is put out by one call of `CKTdump`; with `wantevtdata` (`ngSpice_Init_Evt`) an
operating point (`firstTime`) by two, `rows`, the first of them at 0.0 (`dctrcurv.c:382`). `FirstBreak` is what `breakpoint.current` is when the program has run nothing (0) or a
transient analysis (far away). The end of a value is tested with a tolerance in the code, which whole
numbers do not need.

### 2.6 DCosim

The step is that of `DCtran` reduced to what the bridge sees: a target, event rounds in which one
input changes, rejections that take back the instance's states, `STEP_PENDING` when a solution has
been found. The statements of `run` are actions, since the co-simulator may stop in each `advance`.
The co-simulator (`Runs`, `Stops`) is external: it runs to the time it is given or stops earlier with
any new output, once at a time unless it is given input, or (`"after"`) only when there is input.
`post` is `OUTPUT_CHANGED` with `OUTPUT_DELAY`. `FirstStep`: while `firsttime` is set, `DCtran`
accepts without calling the code models with `STEP_PENDING`, so the bridge meets the first
solution only with the second. History: `lost`, changes of inputs the bridge has given up with its
queue, or will give although they have been taken back (what a rejected first step leaves in the
queue), until the co-simulator is told a later value of that input; `wiped`, outputs a second call
of `output()` has marked as unchanged; `taken`, outputs whose change an event has used up and a
rejection has taken back; `born`, when output was made; `ahead` and `misled`, see below.

The step may be rejected at any time, because it does not converge (`dctran.c:742`) or for its
truncation error (`896`); also a step that the bridge has cut, or one that started, with output
pending. If it then ends before that output, the bridge sends it too early and tells the co-simulator
to run to a time it has already passed, with the message at `cfunc.mod:748`: `vtime` goes back, `ran`
does not. `cosim.h` gives the co-simulator no way back, so the model lets it stay where it is, with
new output at most when it has new input. `Reject` notes in `ahead` how far it had run, and in `misled` that
what it has been told of the inputs may be from a future that did not come, until they are given again.

`accept_output` copies the values of the `d_out` ports only (`cfunc.mod:230`), so what is sent to a
`d_inout` port when another port has changed is what the last change left there; the model has no
output to a `d_inout` port.

One unit is a third of the delay (`extra`), and the search for a breakpoint that can be set in
steps of a thousandth ends at the first that can.

### 2.7 SharedSpice

The pthreads build with `low_latency` (`sharedspice.c:22`). Three kinds of threads share plain
flags: the caller's, in `runc`, `exec_controls` or `_thread_stop` (`pc`); background threads in
`_thread_run` (`bg`); control threads in `_cthread_run` (`ctl`), which hold back the commands
after `set controlswait`. An action is one access to the flags, or several that no other thread
can tell apart while the caller waits for the end of what it has started; the C code has no atomics, so the model gives it more than the language does.
The mutex is held only for the few statements around signal and wait and is in the atomicity
of `BgRelease` and `CtlWait`. `pthread_cond_wait` may return spuriously. `cp_evloop` is: in the
interpreter, or in a simulation; `dosim` clears the interrupt first, `com_resume` does not,
`OUTstopnow` takes it and clears it. A worker may `quit` at any moment (`shared_exit`).

`shcontrols` is a pointer to the list of one control thread, or to a list that has been freed.
Thread ids are reused, so the number of commands is not bounded, only how many threads live.

`Patience` says what the caller waits for before the next command: the start of a new background
thread, the wait of a new control thread (`"controls"`), the end of everything when controls are
held back (`"end"`), and whether it holds controls back only when nothing lives (`"once"`), as
`sharedspice.c:38` has it ("before a repeated 'bg_run'"). These are assumptions about the caller:
`runc` and `exec_controls` test none of them (`sharedspice.c:594-608`, `704-706`). The library
announces the start and the end of a background thread by a callback (with the opposite of the value
`sharedspice.h:289` documents: `bgtr(fl_exited, ...)` passes TRUE when the thread is *not*
running), but not that a control thread waits, nor that the controls have ended. So the
caller for whom the safety properties hold knows more than the library tells. It need not know
that a control thread waits: `WaitingControlsRun` speaks of one that does, and `controls_lost` shows
what becomes of one that does not yet.

Left out: `ngSpice_Init`, `ngSpice_Reset`, `ngSpice_Circ`, the other builds, the
`longjmp` of `shared_exit` when the flags do not say that it is in a worker.

## 3. What is checked

All runs are listed in `PROJECT.json`; the passing ones are exhaustive. Nothing but the values
of constants is bounded in a `.cfg`; the blocks of `event_state` are symmetric (they are compared
for equality only, and no liveness is checked there). Deadlock is not checked: every modelled part
may stop, at the end of time (`MaxTime`), at the end of an analysis, or with a user who gives no
more commands.

| Run | What is asked | Bounds | States | Result |
|---|---|---|---|---|
| `inst_queue` | the caches, the event loop's promise, the refinement of `EvtTimeline` | 2 instances, times 0..4 | 9.3 · 10^5 | holds |
| `event_round` | the output queue is what the outputs promised, events in order, none removed; the node follows it and is an exact record | 2 outputs on a node, one with two delays, times 0..4, 3 standing posts each | 1.2 · 10^6 | holds |
| `event_state` | blocks, modified list, messages; the refinement of `EvtRecord` | 1 instance, 4 blocks, 2 messages, times 0..3 | 3.0 · 10^5 | holds |
| `dctran` | the loop with an event-driven model: table in order, no breakpoint stepped over, steps forward and none beyond the final time, keeps to the queue's protocol, returns | 1 instance, `CKTminBreak` 1, requests at 3, 4, 7, 12, end at 9 | 2.9 · 10^5 | holds |
| `dc_sweep` | sources whole, operating point of the circuit as it is, points settled, complete and in order, one row each (or two, see 2.5), sources put back, commands return | 2 levels of 2 values, 2 hybrids and an instance, 2 sets of options, 2 run commands, a caller who wants event data | 1.0 · 10^6 | holds |
| `cosim` | all input seen, on time, all output sent, on time, never back | 2 inputs that change at 1 and 4, 2 outputs (interchangeable), queue of 2, delay 3, times 0..8, all methods | 7.4 · 10^6 | holds |
| `shared_threads` | one thread works, flags true, halts return, controls within their run; those that wait are run | 2 + 2 threads, 2 polls | 4093 | holds |
| `output_removed` | a cancelled event is never delivered | as `event_round`, without nodes | | violated |
| `dc_hybrids` | points settled, in a process that has run no transient analysis | one level of 3 values | | violated |
| `sweep_resumed` | points in order, of a temperature sweep | one level of 3 values | | violated |
| `cosim_wiped` | no output is cancelled by the next one | as `cosim`, one input | | violated |
| `controls_lost` | the controls run when the background thread has finished | as `shared_threads` | | violated |

The type invariants that are in no run (`OpTypeOK`, `EvtOpTypeOK` in `DCTypeOK`; `TypeOK` of
`EvtInstQueue`, `EvtState`, `DCtran`, `DCosim`, `SharedSpice`) hold when they are put in the `.cfg`
of their module; most of them are proved, or part of an invariant that is.

**Why these bounds.** The event queues have three kinds of places an event can be in, relative
to `last_step` and `current`, and the rollback distinguishes an event's time and the time it was
posted at on each side of the time gone back to: two times before, one at and one after it, and
two queues (one modified, one not), show all combinations. An output needs three posts for a
cancelled one between two that stand. The breakpoint table's code looks at an entry, its
neighbour and the last one; tables of up to six entries occur. In `dctran` two
requests (3 and 4) are so close that the earlier replaces the later and the later is dropped, and one
lies beyond the final time; a request that displaces the final time itself stops the clock (section
3.1), so that this case of `FinalTimeKept` is left to its theorem. Two threads of a kind are all that can live when the caller is patient
(one ending, one new). A state list needs a state that stays, one taken back and one that takes its
block again. The sweep has a level that does not hit its stop value and one that goes down, and the
circuit the smallest loop through a shared node; `MaxPasses` and `MaxAlternations` are one less than
the code would have for it, so that both limits are reached. In `DCSweep.cfg` the conductances are
far enough apart for all methods to take several steps. `cosim` has inputs early and late in a step
(`InTimes`), so that steps are cut before, at and after an input; the queue overflows with three
changes.

**Fairness.** `EvtInstQueue`, `EvtOutputQueue`, `EvtRound`, `EvtState` and
`DCosim` are safety specifications. `DCtran` is one
thread that never waits: weak fairness of `Step`, none of the user's actions. `DCtrCurv`:
weak fairness of `Internal`, one thread again; nobody has to run or resume anything. `SharedSpice`:
weak fairness of each thread (the operating system schedules them), none of spurious wakeups, and
none of the caller's decision to send a command. Nothing is assumed about how long a command
takes, except that a thread does something.

### 3.1 Where code and documentation part

The violated runs, with the lines quoted in `PROJECT.json` under `findings`:

* **Removed events are delivered** (`output_removed`). An output with rise and fall delays
  posts a late edge, then an early one that cancels it. If later the step is rejected to a time
  before the cancelled event, `EVTbackup_output_queue` sets `current` by time alone, and the
  removed event is delivered. Afterwards insertion, which takes the list from `current` on to
  be in order, may put an event behind a later one, and the event time goes back; `NoLateEvent`,
  `QueueIsPromise` and the properties of the nodes therefore speak of queues nobody has misled.
* **Hybrids are skipped in a DC sweep** (`dc_hybrids`). `EVTcall_hybrids` takes a `CKTtime` after
  `breakpoint.current` for a rejected timestep; in a sweep `CKTtime` is the value of the source,
  and the breakpoint is 0 until a transient analysis has set it.
* **A temperature sweep does not resume where it paused** (`sweep_resumed`), because its position
  is `CKTtemp`, which `CKTdoJob` sets to the temperature of the task.
* **Output of a co-simulator is lost** (`cosim_wiped`) when more output comes in the same call.
* **The controls are not run** (`controls_lost`) when the background run ends before the control
  thread waits. The new thread sets `cont_condition` to FALSE itself (`sharedspice.c:482`) and so takes
  back the release; the background thread then waits for it for ever (`530`).

Others that the models show when asked, kept as notes and as exceptions in the properties:

* **Equal breakpoints stop the clock** (`StepForward` in `DCtran`, with `Requests` closer than
  `CKTminBreak`), **the final time can be replaced** (`FinalTimeKept`, with a request after it).
  Both come from `CKTsetBreak`'s replacement of the first entry that is not earlier, whose new time
  is not compared with the entry before, and which spares no entry.
* **A permanent breakpoint set before the first event loop is stepped over**
  (`NoBreakSteppedOver` with `AskIn = {"loop"}`), because the step is already chosen (`dctran.c:616`).
* **Another one may be hidden** by a temporary breakpoint exactly `CKTminBreak` after the last
  timepoint: `cm.c:428` accepts it, `dctran.c:638` ignores it and `dctran.c:632` prefers it to
  the permanent one. It shows in `dctran` with `Requests = {3, 5, 7}` and `Events = {3}`.
* **A stale previous state** (`PreviousNotRejected` in `EvtState`). When only one state is kept, its
  `prev` pointer still leads to a block that a backup or an acceptance has freed (`evtaccept.c:258`
  looks at it for another reason), and `cm_event_get_ptr(tag, 1)` returns it (`cmevt.c:212`).
* **The first message of a port is never taken back** (`MessagesTakenBack`; `evtbackup.c:335`).
* **Commands overlap with the controls** (`OneAtATime` with `Patience = {"start", "once"}`). The
  background run ends, which admits the next command (`sharedspice.c:712`), and then the control
  thread starts. With an empty `Patience` a second `bg_run` overlaps with the first.
* **Held controls are forgotten** (`NoOrphan` with `Patience = {"start", "end"}`). `exec_controls`
  overwrites `tid2` (`sharedspice.c:608`) without a look at it: when a second file with `controlswait`
  is read, or `bg_ctrl` is sent after a `reset` (`sharedspice.c:38-40`) while the controls of the first
  are still held back, the first thread waits for ever, and when the wakeup of one release reaches
  both, both work (`OneAtATime` is violated, too). The end of the background thread is announced before
  it looks at `tid2` (`522`, `524`): a `bg_ctrl` sent on that callback is released at once, or, when it
  comes between the end of the controls and `tid2 = 0` (`536`), forgotten. `ControlsHeld`,
  `OneAtATime` and the others therefore are promises to a caller with `"once"`.
* **`bg_ctrl` uses a freed list** (`ControlsExist`; `sharedspice.c:597`, `608`, `495`), in the
  sequence documented at `sharedspice.c:38-40`. `exec_controls` also promises that with `NULL` "the
  thread is started with the existing controls" (`sharedspice.c:590-592`); the code only forgets it.
* **A sweep run while another is paused, or after one has failed**, takes the values in the middle
  of that as the originals (`dctrcurv.c:98-145`); `SourcesBack` excepts it. An error leaves the
  sources where they are.
* **The row for the operating point is repeated** for a caller who wants event data. `dctrcurv.c:381` says "If first
  time through, call CKTdump to output Operating Point info", but `firstTime` is set again whenever a
  level has ended and by each `resume`: a nested sweep has a row at 0.0 before each of its inner
  rows, and before the point it is resumed at. `PointsInOrder` says that there are no others.
* Only the level that has just stepped is compared with its stop value (`dctrcurv.c:214`). A sweep with
  an empty level, whose step leads away from the stop value, is therefore not empty when there is a
  second level: the points of the first value of an empty outer level are put out, and those of an empty
  inner one appear, at its start value, from the second outer value on. `NoEmptyLevel` sets it aside.
* `TRCVnestState` is 0 from the start and never reset, so `dctrcurv.c:66` takes every call without
  `restart` for a continuation: with several analyses in a task (not modelled) `resume` runs a
  completed sweep once more. `CKTdoJob` also goes on with the next analysis after a pause.
* `op_alternations` counts over the life of the event data and is compared with a limit meant for
  one operating point (`evtop.c:174`): a long sweep of a circuit that settles each time ends in "too
  many alternations". The model counts like the code, and the run reaches it.
* `gillespie_src` leaves `CKTdiagGmin` at `CKTgmin` (`cktop.c:651`), other methods at `CKTgshunt`;
  `SolvesTheCircuit` allows for both. `new_gmin` leaves `CKTgmin` at the larger of its start and
  `CKTgshunt`.
* *d_cosim.* When the queue is full, the breakpoint that is asked for lies before the event being
  processed, and `DCtran` does not look at it then: the changes are lost, against `cfunc.mod:455`.
  After a cut the queue is given up (`cfunc.mod:354`), but changes in the margin up to the new end
  of the step stay in the states and are never told (both are in `lost`). If the step a co-simulator
  has cut then fails to converge, or is cut further for its truncation error, to before the output, the
  co-simulator has run ahead of the solver and is told to run to an earlier time (`cfunc.mod:748` only
  prints a message). It keeps what it has been told of a future that is given up: the inputs in `misled`.
  `NeverBack` and `InputsSeen` except exactly this; without the exceptions `cosim` violates both.
  A co-simulator that wants
  to run before and after input (`Both`) is not run to the end of the step (`cfunc.mod:433`): it
  falls behind, and what it makes of input from before the last step comes late, which
  `OutputOnTime` allows. The bridge lets a step be accepted with output pending when the breakpoint
  it asked for is not before the end of the step; an event of the next step then uses that output
  up (`output` at the change of an input), and if the step is rejected the change is taken back with
  the state while `out_vals` has been cleared (`taken`). The comment at `cfunc.mod:239` says there
  are no changes of inputs while output is pending.

A halt while controls are held back is a quieter case that the properties allow:
`bg_halt` returns with `fl_running` cleared, and the controls run after it, with
`ngSpice_running` answering no. A command sent then is not refused.

## 4. What is proved

`tlapm` checks every proof; the constants are arbitrary within the assumptions named. No theorem
rests on an instance, and none on a fact that is not proved.

**EvtInstQueueProofs** (`MaxTimeAssumption`: the bound is a natural number). `IndInv` is `TypeOK`,
the four properties, and what their preservation rests on: nothing is posted later than it is
due (`PostedEarlier`), what was delivered in this step is after the last accepted time
(`DoneInStep`), and the order of `last_time`, `evt_step` and `target` by phase (`StepOrder`).
Without `DoneInStep` a backup could not be shown to restore a sorted list; without `StepOrder`
an event posted in the analog phase might be behind the event time. The proof has a lemma for
each action (`QueueInv`, `ControlInv`, `RoundInv`, ...), on lemmas about the operators
(`MinTimeLeast`, `FirstExists`, `CompactNextTime`) and about what the long actions do to the lists
(`DequeueMoves`, `AcceptKeepsTodo`, ...), which `Refinement` uses again to map every step to a
step of `EvtTimeline` or a stutter.

**EvtRoundProofs** (`OutputAssumption`, `NodeAssumption`), about the output event queue and the nodes
together. `QueueInv` says that the links of each output lead into its list, in order; that the cached
`next_time` and `pending` are exact; and, by phase, how `last_time`, `evt_step` and `target` lie. It holds
of every behaviour. The rest holds until an output is misled, which is why the invariant is
`Unmisled`, `misled = {} => OrderInv`. The list of an output is not sorted: it is ordered only in the
sense that of two entries, in their order, the earlier is due earlier, or was removed by the time the
later was posted, or the later was removed by the time the earlier was (`Pair`). That, the dates of
posting and removal (`Dated`), the fact that each removal since the last acceptance has a post in the
list that made it (`Witnessed`) and that the next event stands (`HeadStands`) are `Good`, and each
operation preserves it: `QueuedGood` for a post, `BackGood` for a backup, `AcceptedGood` for an acceptance,
on lemmas that say position by position what each leaves of a list (`QueuedEntries`, `ScannedEntries`,
`SuffixIs`). `NothingCancelledDelivered` and `EventTimeNeverBack` follow; `OneDelayNeverMisled` uses
`Steady`, that with one delay what is removed is preceded by an event for the same time, so that the scan
of a backup cannot stop at it. For the nodes, `NodesOK` has the shape of the lists and holds
always; `NodesOrdered`, that values are in order of time and the one `last_step` leads to held at `last_time`,
again until an output is misled. `NodeRefinement` maps each step with them to a step of
`EvtRecord` or a stutter. `QueueKeepsPromises` compares each list with the posts the outputs have made:
`Agrees` says of every time a backup may go back to that the entries to come after it are the posts that
stood then (`Listed`), and of entries out of order that the post of the later one took back all before
(`Skipped`). `NodesKeepUp` also looks back: `Followed` says of each such time that the node showed what the
queue had brought by then, and `Early` that nothing is removed at its time or later.

**EvtStateProofs** (`StateAssumption`). `StateInv` says of each instance that its list has a state, that
the blocks of its list and of its free list are all different, and from another instance's, and that the
list is longer than one exactly when the instance is on the modified list; of messages, that the links
are in the list, that no message is later than now and, the first one apart, none up to `last_step` later
than the last accepted time, and that what was kept is what was sent, but for
the ports in `stuck`. `Cut` is a `CHOOSE`, whose value is characterised once (`CutIsFirst`), and what an
acceptance or a backup leaves of a list is stated in lemmas on prefixes (`StatePrefix`, `StateRest`).
`StateRefinement` is the refinement of `EvtRecord`, for all behaviours: with `Recorded`, that the states
of an instance are in order of time and the oldest was there at the last accepted timepoint, the
position `EVTbackup_state_data` finds is the one the record asks for (`CutRecorded`), and an instance
that is not on the modified list, which the backup does not look at, has nothing to lose.

**DCtranProofs.** `TableStaysOrdered` and `NeverBeyondFinalTime` under `NoLateRequest` (no
breakpoint is requested for a time after the final time; without it the final time can be replaced, section 3.1), by `StepInv`; `NoneSteppedOver` also under `AskIn \subseteq {"solve"}` (models ask
during the analog solution), by `AheadInv`, which says that the table has nothing between the
last timepoint and the one aimed at. The work is in lemmas on sequences: what insertion,
replacement and deletion do to a table between two bounds (`SetBreakTable`, `ClrBreaksTable`,
`ThrowOutTable`). `CKTsetBreak` chooses the first passed entry with `CHOOSE`; that it exists is the
least-number principle (`NatLemmas`, with the greatest number of a bounded set), which is derived
from the library's theorem on well-founded relations, since induction with an operator argument
cannot be used here.

`TimeGoesForward` and `LoopKeepsProtocol` are under `Apart`: requests, and the final time, are more than
`CKTminBreak` from each other (section 3.1 shows what equal ones do). Then `ForwardInv` holds: the table
is `Distinct`, no two entries of it are equal but for the final time, since `CKTsetBreak` then never
replaces an entry, and every prepared step leads forward. `LoopInv` joins `ForwardInv` with the
inductive invariant of the event queue, taken through an INSTANCE of `EvtInstQueueProofs` with the
loop's own variables; with both, `StepIsQueueStep` maps each action of the loop to one of the queue's or
to a stutter, which is the refinement, and what is proved of the queue holds in the loop:
`NoEventPassedInLoop`. What the queue takes as given, and the loop has to provide, is above all that
every step leads past the last accepted timepoint and no backup goes back to it.

`NoneSteppedOverInLoop` is the same promise as `NoneSteppedOver` when event-driven instances also ask
for breakpoints in the event loop, where the step is already chosen and only `EndRound` can cut it. It
is under `Apart` and `[]NoneAtMargin`, which excludes exactly the request of section 3.1 that
`cm.c` accepts and `dctran.c` passes over; the states of `dctran` all satisfy it. `CutInv` says
that outside a round the table holds nothing before the end of the step, and that during one what
is asked for is neither before the event time nor before `CKTminBreak` after the last timepoint: then
the first entry, or the temporary breakpoint before it, passes both tests of the round's end
(`RoundEnds`), and one look at `breaks[1]` is enough for any number of requests. That event times are
not behind the last timepoint comes from the queue's invariant in `LoopInv`.

**SharedSpiceProofs** (`SharedAssumption`). The theorems hold for any number of threads and
polls, under `PatientCaller`: the caller waits for the background thread's first callback, when
controls are held back for the end of everything, and holds controls back once for each background
run (section 3.1 shows that each is needed; whether the control thread already waits is not, for
safety). `IndInv` is `TypeOK` and three parts:
`OneBackground` (at most one live background thread, for which `fl_running` is set, and
`fl_exited` says exactly that nobody works), `Released` (the control thread there is is `tid2`,
once it may go on a background thread joins it, and when it is joined none is left until `tid2` is
reset) and `CallerInv` (what the caller can rely on
at each of its places: it demands the simulator only when nothing is held back or no background
thread lives). `OneAtATime` alone is not inductive: that nobody starts while another works
follows from the flags, and that the flags are true needs both threads' places. There is a
lemma for each action, above two that say what leaves the rest alone (`EvloopStep`,
`ThreadsKept`).

**DCtrCurvProofs** (the assumptions of `CKTop`, `EvtOp`, `DCtrCurv`). `OpInv` is what the methods of `CKTop`
need of each other: the sources are whole outside source stepping, the conductances low outside gmin
stepping, and each method leaves that to the next, whichever step fails; there is a lemma for each.
`OpSourcesWhole` and `OpSolvesTheCircuit` follow for all option settings and all behaviour of `NIiter`.
`StaleInv` says that nobody is forgotten: an instance with changed inputs is in `to_call`, reads a node
with a changed output, or is a hybrid still to be called, depending on where the algorithm is.
`SweepSettled` has the hypothesis `[](~ (brk < CKTtime))`, that no sweep value is past the breakpoint;
`dc_hybrids` shows what happens otherwise.

`SweepInvHolds`, `SweepInOrder`, `SweepsComplete` and `SweepPutsBack` count the points of the sweep, for any
number of levels, under `NoEmptyLevel` (every level has a first value) and `[]NoTempPaused` (no sweep of a
temperature is paused; `sweep_resumed` shows what resuming one does). The model goes from value to
value; the property speaks of the k-th point in terms of quotients and remainders of k. `SweepInv` connects the
two at the only places where the code decides: when level l has stepped, the points put out are whole
*rows* of it, (d + 1) times `Below[l]`, the levels above are where row d has them, and l is one
step further (`Stepped`). `SteppedRow` says what that means for row d + 1: either it is the next row, and
resetting the levels below reaches its first point (`ResetReaches`), or the level is past its stop value,
and the row of the level above is complete as well (`LevelOver`). A failed sweep is told from a complete one by the
number of its points, which is less than `Total` while a point is being solved. `RowInv` adds for
`SweepInOrder` that `firstTime`, on which the second row of a caller who wants event data depends, is set
only after a command or at the first value of the innermost level. That the recursion of `Below` has
a solution for every number of levels (`BelowExists`), that it divides (`BelowDivides`) and is positive
are inductions, carried out with the least number that would be a counterexample.

**DCosimProofs** (`CosimAssumption` and nothing else: the solver may reject any step). `CInv` orders the
times: the co-simulator is not ahead of the bridge (`ran <= vtime`), which is not ahead of the end of the
step in a call, nor of the last accepted time between calls, except after a cut, where the new end of the
step covers it. Where a rejection has gone back further, the bridge is `Behind`: its queue is empty, and
the co-simulator no further than it was then (`ran <= ahead`). The next call brings `vtime` down to
the time of the step, and only the co-simulator stays ahead. `CosimNeverBack` and `CosimInputOnTime` follow
for any delay, margin, queue size and `CKTminBreak` up to twice the margin. Three more invariants
stand on it. `SentInv`, for `CosimOutputsSent`, follows one output through the states: what an earlier
state shows of it has been sent, what the present one shows is sent or marked in this call, and
what the co-simulator shows beyond that is pending. Since a backup can go to any earlier state, it
speaks of all of them, and not only of the last. `OnTimeInv`, for `CosimOutputOnTime`, bounds how late
the bridge may be: within a call bridge and co-simulator are no more than a delay behind the step, or the
output is from before the last step; a cut to `vtime + Extra` keeps the output that is pending in time. It
looks at the outputs that differ between two states, or may when what is pending arrives (`MayDiffer`):
only those can be posted, and what a step that went back posts again was made at `vtime` or before.
`QueueInv` and `ViewInv`, for `CosimInputsSeen`, say what the co-simulator *will* know: at each time it
can still be asked to run to (`InView`), and for each state at that time, the value of an input is that
of the last entry of the queue up to then, or without one what it has been given (anything, for an input in
`misled`: `Knows`), or a change of it is in `lost` that no later entry makes good (`Heard`). The times
still to come begin at `Reached`, the earlier of the bridge's and the co-simulator's. The statement for the end of the step alone is not
inductive, as a rejection makes any earlier time the end; and after the queue has been given up it
only speaks of times up to the breakpoint.

**Only model-checked**: the liveness properties `Returns`, `SweepReturns`, `WaitingControlsRun` and
`HaltReturns`, which need fairness and `ENABLED` and are out of the prover's reach. Every other property
of a passing run is stated by a theorem.

## 5. What is not modelled

`PROJECT.json` lists each component with the reason. Of those that have an order of things to get
right, what is left, in the order in which it would be added:

1. the `SHARED_MODULE` variant of `DCtran`, where the caller may redo or change a step
   (`sharedsync`) and the redo skips `EVTbackup` (`dctran.c:967`);
2. `ngSpice_Reset`, the breakpoints the caller sets, `vecreallocMutex` and the JIT registry;
3. `OPtran` in detail: its breakpoint list, and the ramping of the supplies (`opramptime`), which
   leaves `CKTsrcFact` at a value of its ramp (`optran.c:670`); `CKTop` takes it as a whole, without it;
4. several co-simulators in one circuit; several analyses in one task;
5. the callbacks that report new node values, which report an accepted value again when its node
   changes in the next step (`evtaccept.c:187`);
6. `control.c`'s stack of control structures, the WAV cache.

The device models, the matrix solvers, CIDER, the OSDI interface, the netlist front end and the
graphics, which are most of the lines of the repository, are numerics, text processing and output
without an order a model checker could get wrong for them; they are present only as outcomes
(convergence, truncation error, breakpoint requests).
