---------------------------- MODULE SharedSpice ----------------------------
(***************************************************************************)
(* Thread control in the shared library (sharedspice.c, pthreads build     *)
(* with low_latency): the caller's thread issues commands, bg_ commands    *)
(* run in a background thread, and the commands of a .control section with *)
(* controlswait run in a third thread, held back until the background      *)
(* thread has finished.  The flags are plain variables, so each action is  *)
(* one access to the shared state, or several that no other thread can     *)
(* tell apart when the caller waits for the end of what it has started.    *)
(*                                                                         *)
(* Thread ids are used again after a thread has ended, so that any number  *)
(* of commands is covered.  A free id is the bound on how many live at     *)
(* once.                                                                   *)
(***************************************************************************)
EXTENDS Naturals

CONSTANTS
  Bgs,        \* background threads, _thread_run
  Ctls,       \* control threads, _cthread_run, and the command lists they own
  None,       \* no thread
  Freed,      \* a list that has been given back
  MaxPolls,   \* how often _thread_stop looks at fl_exited (100 in the code)
  Patience    \* what the caller waits for before its next command, see below

ASSUME SharedAssumption ==
  /\ None \notin Ctls /\ Freed \notin Ctls /\ None # Freed
  /\ MaxPolls \in Nat
  /\ Patience \subseteq {"start", "end", "once", "controls"}

VARIABLES
  fl_running, fl_exited, ft_intrpt, cont_condition, tid2, shcontrols,
  bg,       \* where each background thread is
  joining,  \* whom it joins
  ctl,      \* where each control thread is
  pc,       \* where the caller is in the library
  then,     \* what it does after a successful _thread_stop
  timeout   \* its counter there

flags == <<fl_running, fl_exited, ft_intrpt>>
threads == <<bg, joining, ctl>>
handover == <<cont_condition, tid2, shcontrols>>
caller == <<pc, then, timeout>>
vars == <<flags, threads, handover, caller>>

\* A thread interprets commands, or is in the simulation one of them started.
Working == {"evloop", "sim"}
Stopping == {"stop", "set", "stopped", "clear"}

Init ==
  /\ fl_running = FALSE /\ fl_exited = TRUE /\ ft_intrpt = FALSE
  /\ cont_condition = FALSE /\ tid2 = None /\ shcontrols = None
  /\ bg = [b \in Bgs |-> "none"] /\ joining = [b \in Bgs |-> None]
  /\ ctl = [c \in Ctls |-> "none"]
  /\ pc = "ready" /\ then = "ready" /\ timeout = 0

-----------------------------------------------------------------------------
(* The command interpreter, in whatever thread.                            *)

\* run clears the interrupt before it simulates, resume does not; the simulation
\* ends by itself, or when the interrupt is found.
dosim(at, to) == at = "evloop" /\ to = "sim" /\ ft_intrpt' = FALSE
com_resume(at, to) == at = "evloop" /\ to = "sim" /\ UNCHANGED ft_intrpt
OUTstopnow(at, to) == at = "sim" /\ to = "evloop" /\ ft_intrpt /\ ft_intrpt' = FALSE
EndSim(at, to) == at = "sim" /\ to = "evloop" /\ UNCHANGED ft_intrpt

cp_evloop(at, to) ==
  dosim(at, to) \/ com_resume(at, to) \/ OUTstopnow(at, to) \/ EndSim(at, to)

\* quit, or a fatal error, in a worker: the thread is gone, whatever it has not
\* released.
shared_exit == fl_running /\ ~ fl_exited /\ fl_exited' = TRUE

-----------------------------------------------------------------------------
(* The background thread.                                                  *)

BgStart(b) ==
  /\ bg[b] = "new"
  /\ fl_exited' = FALSE
  /\ bg' = [bg EXCEPT ![b] = "evloop"]
  /\ UNCHANGED <<fl_running, ft_intrpt, joining, ctl, handover, caller>>

BgWork(b) ==
  /\ \E to \in Working : cp_evloop(bg[b], to) /\ bg' = [bg EXCEPT ![b] = to]
  /\ UNCHANGED <<fl_running, fl_exited, joining, ctl, handover, caller>>

BgQuit(b) ==
  /\ bg[b] \in Working
  /\ shared_exit
  /\ bg' = [bg EXCEPT ![b] = "none"]
  /\ UNCHANGED <<fl_running, ft_intrpt, joining, ctl, handover, caller>>

BgFinish(b) ==
  /\ bg[b] = "evloop"
  /\ fl_exited' = TRUE
  /\ bg' = [bg EXCEPT ![b] = "exited"]
  /\ UNCHANGED <<fl_running, ft_intrpt, joining, ctl, handover, caller>>

\* Mutant: the control thread is signalled without the condition it waits for.
SignalOnly == UNCHANGED cont_condition

\* The condition under the mutex, before the signal.
SetCondition == cont_condition' = TRUE

\* The signal wakes one thread that waits, and is lost when none does.
Signal ==
  LET waiting == {c \in Ctls : ctl[c] = "wait"} IN
  IF waiting = {} THEN UNCHANGED ctl
  ELSE \E c \in waiting : ctl' = [ctl EXCEPT ![c] = "woken"]

\* Release the control thread, if there is one.
BgRelease(b) ==
  /\ bg[b] = "exited"
  /\ IF tid2 = None
     THEN /\ bg' = [bg EXCEPT ![b] = "none"]
          /\ UNCHANGED <<joining, ctl, cont_condition>>
     ELSE /\ SetCondition /\ Signal
          /\ joining' = [joining EXCEPT ![b] = tid2]
          /\ bg' = [bg EXCEPT ![b] = "join"]
  /\ UNCHANGED <<flags, tid2, shcontrols, caller>>

\* Mutant: the control thread is not waited for.
NoJoin(b) ==
  /\ bg[b] = "join"
  /\ joining' = [joining EXCEPT ![b] = None]
  /\ bg' = [bg EXCEPT ![b] = "joined"]
  /\ UNCHANGED <<flags, ctl, handover, caller>>

BgJoin(b) ==
  /\ bg[b] = "join" /\ ctl[joining[b]] = "ended"
  /\ ctl' = [ctl EXCEPT ![joining[b]] = "none"]
  /\ joining' = [joining EXCEPT ![b] = None]
  /\ bg' = [bg EXCEPT ![b] = "joined"]
  /\ UNCHANGED <<flags, handover, caller>>

\* tid2 = 0, whatever it holds by now.
BgForget(b) ==
  /\ bg[b] = "joined"
  /\ tid2' = None
  /\ bg' = [bg EXCEPT ![b] = "none"]
  /\ UNCHANGED <<flags, joining, ctl, cont_condition, shcontrols, caller>>

_thread_run(b) ==
  \/ BgStart(b) \/ BgWork(b) \/ BgQuit(b) \/ BgFinish(b)
  \/ BgRelease(b) \/ BgJoin(b) \/ BgForget(b)

-----------------------------------------------------------------------------
(* The control thread.                                                     *)

CtlWait(c) ==
  /\ ctl[c] = "new"
  /\ cont_condition' = FALSE
  /\ ctl' = [ctl EXCEPT ![c] = "wait"]
  /\ UNCHANGED <<flags, bg, joining, tid2, shcontrols, caller>>

\* pthread_cond_wait may return without a signal.
CtlSpurious(c) ==
  /\ ctl[c] = "wait"
  /\ ctl' = [ctl EXCEPT ![c] = "woken"]
  /\ UNCHANGED <<flags, bg, joining, handover, caller>>

\* Mutant: the wait is not repeated after a spurious wakeup.
WakeFreely(c) ==
  /\ ctl[c] = "woken"
  /\ ctl' = [ctl EXCEPT ![c] = "go"]
  /\ UNCHANGED <<flags, bg, joining, handover, caller>>

CtlWoken(c) ==
  /\ ctl[c] = "woken"
  /\ ctl' = [ctl EXCEPT ![c] = IF cont_condition THEN "go" ELSE "wait"]
  /\ UNCHANGED <<flags, bg, joining, handover, caller>>

CtlStart(c) ==
  /\ ctl[c] = "go"
  /\ fl_exited' = FALSE
  /\ ctl' = [ctl EXCEPT ![c] = "evloop"]
  /\ UNCHANGED <<fl_running, ft_intrpt, bg, joining, handover, caller>>

CtlWork(c) ==
  /\ \E to \in Working : cp_evloop(ctl[c], to) /\ ctl' = [ctl EXCEPT ![c] = to]
  /\ UNCHANGED <<fl_running, fl_exited, bg, joining, handover, caller>>

CtlQuit(c) ==
  /\ ctl[c] \in Working
  /\ shared_exit
  /\ ctl' = [ctl EXCEPT ![c] = "ended"]
  /\ UNCHANGED <<fl_running, ft_intrpt, bg, joining, handover, caller>>

CtlFinish(c) ==
  /\ ctl[c] = "evloop"
  /\ fl_exited' = TRUE
  /\ ctl' = [ctl EXCEPT ![c] = "ending"]
  /\ UNCHANGED <<fl_running, ft_intrpt, bg, joining, handover, caller>>

\* The thread gives its list of commands back, which shcontrols may point to.
CtlEnd(c) ==
  /\ ctl[c] = "ending"
  /\ cont_condition' = FALSE
  /\ shcontrols' = IF shcontrols = c THEN Freed ELSE shcontrols
  /\ ctl' = [ctl EXCEPT ![c] = "ended"]
  /\ UNCHANGED <<flags, bg, joining, tid2, caller>>

_cthread_run(c) ==
  \/ CtlWait(c) \/ CtlWoken(c) \/ CtlStart(c) \/ CtlWork(c) \/ CtlQuit(c)
  \/ CtlFinish(c) \/ CtlEnd(c)

-----------------------------------------------------------------------------
(* The caller.                                                             *)

\* A command, as runc takes it.  What a caller waits for is up to the caller,
\* the library tests none of it:
\*   "start"    before any command, a new background thread's first callback;
\*   "controls" before any command, a new control thread to be waiting;
\*   "end"      when controls are held back, before any command but bg_halt,
\*              the end of the background thread and of the controls;
\*   "once"     before it holds controls back (controlswait in a file, bg_ctrl),
\*              the end of all threads: exec_controls overwrites tid2, and
\*              nobody releases the thread that was there.
\* Only the first of these moments is announced by a callback.
MayCommand ==
  /\ pc = "ready"
  /\ "start" \in Patience => \A b \in Bgs : bg[b] # "new"
  /\ "controls" \in Patience => \A c \in Ctls : ctl[c] # "new"

Ended == "end" \in Patience => tid2 = None \/ \A b \in Bgs : bg[b] = "none"

Prepare ==
  "once" \in Patience => tid2 = None /\ \A b \in Bgs : bg[b] = "none"

\* _thread_stop looks at fl_running first and has nothing to do without it.
_thread_stop(next) ==
  /\ then' = next
  /\ timeout' = 0
  /\ pc' = IF fl_running THEN "stop" ELSE next

\* A bg_ command starts a thread if nothing is running, after a stop if the
\* last one was not stopped; otherwise it is treated like any other command.
BgCommand ==
  /\ MayCommand /\ Ended
  /\ IF fl_exited THEN _thread_stop("create")
     ELSE pc' = "check" /\ UNCHANGED <<then, timeout>>
  /\ UNCHANGED <<flags, threads, handover>>

OtherCommand ==
  /\ MayCommand /\ Ended
  /\ pc' = "check"
  /\ UNCHANGED <<then, timeout, flags, threads, handover>>

bg_halt ==
  /\ MayCommand /\ fl_running
  /\ _thread_stop("ready")
  /\ UNCHANGED <<flags, threads, handover>>

\* controlswait in a file that is read, or bg_ctrl, which copies the list that
\* shcontrols points to: a new list, which no thread owns yet.  A list without
\* commands, for which only tid2 is reset, is left out.
exec_controls ==
  /\ MayCommand /\ Prepare
  /\ shcontrols' = None
  /\ cont_condition' = FALSE
  /\ pc' = "ctrl"
  /\ UNCHANGED <<then, timeout, flags, threads, tid2>>

Create ==
  /\ pc = "create"
  /\ fl_running' = TRUE
  /\ \E b \in Bgs : bg[b] = "none" /\ bg' = [bg EXCEPT ![b] = "new"]
  /\ pc' = "ready"
  /\ UNCHANGED <<fl_exited, ft_intrpt, joining, ctl, handover, then, timeout>>

\* The rest of exec_controls, after its little wait: the thread owns the list.
CreateControls ==
  /\ pc = "ctrl"
  /\ \E c \in Ctls :
       /\ ctl[c] = "none"
       /\ ctl' = [ctl EXCEPT ![c] = "new"]
       /\ tid2' = c
       /\ shcontrols' = c
  /\ pc' = "ready"
  /\ UNCHANGED <<flags, bg, joining, cont_condition, then, timeout>>

\* runc: a command is refused while a thread is running.
Check ==
  /\ pc = "check"
  /\ \/ ~ fl_running /\ pc' = "evloop" /\ UNCHANGED <<then, timeout>>
     \/ fl_running /\ fl_exited /\ _thread_stop("evloop")
     \/ fl_running /\ ~ fl_exited /\ pc' = "ready" /\ UNCHANGED <<then, timeout>>
  /\ UNCHANGED <<flags, threads, handover>>

CallerWork ==
  /\ \/ \E to \in Working : cp_evloop(pc, to) /\ pc' = to
     \/ pc = "evloop" /\ pc' = "ready" /\ UNCHANGED ft_intrpt
  /\ UNCHANGED <<fl_running, fl_exited, threads, handover, then, timeout>>

\* Mutant: the number of attempts is not limited.
PollForever ==
  /\ pc = "stop"
  /\ pc' = IF ~ fl_exited THEN "set" ELSE "stopped"
  /\ UNCHANGED <<then, timeout, flags, threads, handover>>

StopTest ==
  /\ pc = "stop"
  /\ pc' = IF ~ fl_exited /\ timeout < MaxPolls THEN "set" ELSE "stopped"
  /\ UNCHANGED <<then, timeout, flags, threads, handover>>

StopSet ==
  /\ pc = "set"
  /\ ft_intrpt' = TRUE
  /\ timeout' = IF timeout < MaxPolls THEN timeout + 1 ELSE timeout
  /\ pc' = "stop"
  /\ UNCHANGED <<then, fl_running, fl_exited, threads, handover>>

\* Mutant: giving up is taken for success.
AssumeStopped ==
  /\ pc = "stopped"
  /\ pc' = "clear"
  /\ UNCHANGED <<then, timeout, flags, threads, handover>>

\* runc goes on with the command whether the stop succeeded or not.
Stopped ==
  /\ pc = "stopped"
  /\ pc' = IF fl_exited THEN "clear" ELSE then
  /\ UNCHANGED <<then, timeout, flags, threads, handover>>

\* Mutant: the request for the interrupt is left.
KeepInterrupt ==
  /\ pc = "clear"
  /\ fl_running' = FALSE
  /\ pc' = then
  /\ UNCHANGED <<then, timeout, fl_exited, ft_intrpt, threads, handover>>

StopClear ==
  /\ pc = "clear"
  /\ fl_running' = FALSE /\ ft_intrpt' = FALSE
  /\ pc' = then
  /\ UNCHANGED <<then, timeout, fl_exited, threads, handover>>

Command == BgCommand \/ OtherCommand \/ bg_halt \/ exec_controls

CallerStep ==
  \/ Create \/ CreateControls \/ Check \/ CallerWork
  \/ StopTest \/ StopSet \/ Stopped \/ StopClear

Next ==
  \/ Command \/ CallerStep
  \/ \E b \in Bgs : _thread_run(b)
  \/ \E c \in Ctls : _cthread_run(c) \/ CtlSpurious(c)

\* Every thread is scheduled; the caller may stop calling, and the library may
\* not rely on spurious wakeups.
Spec ==
  /\ Init /\ [][Next]_vars
  /\ WF_vars(CallerStep)
  /\ \A b \in Bgs : WF_vars(_thread_run(b))
  /\ \A c \in Ctls : WF_vars(_cthread_run(c))

-----------------------------------------------------------------------------
(* Properties.                                                              *)

\* The state has the shape the code's types give it, _thread_stop keeps its
\* count, and a thread that joins has somebody to wait for.
TypeOK ==
  /\ fl_running \in BOOLEAN /\ fl_exited \in BOOLEAN
  /\ ft_intrpt \in BOOLEAN /\ cont_condition \in BOOLEAN
  /\ tid2 \in Ctls \cup {None} /\ shcontrols \in Ctls \cup {None, Freed}
  /\ bg \in [Bgs -> Working \cup {"none", "new", "exited", "join", "joined"}]
  /\ joining \in [Bgs -> Ctls \cup {None}]
  /\ \A b \in Bgs : joining[b] = None <=> bg[b] # "join"
  /\ ctl \in [Ctls -> Working \cup {"none", "new", "wait", "woken", "go", "ending", "ended"}]
  /\ pc \in Working \cup Stopping \cup {"ready", "check", "create", "ctrl"}
  /\ then \in {"ready", "create", "evloop"}
  /\ timeout \in 0 .. MaxPolls

NothingWorks == /\ \A b \in Bgs : bg[b] \notin Working
                /\ \A c \in Ctls : ctl[c] \notin Working

\* The command interpreter and the simulator have one set of global variables:
\* no two threads are in them at the same time, whatever starts, ends, is
\* halted or released meanwhile.
OneAtATime ==
  /\ \A b, d \in Bgs : bg[b] \in Working /\ bg[d] \in Working => b = d
  /\ \A c, d \in Ctls : ctl[c] \in Working /\ ctl[d] \in Working => c = d
  /\ \A b \in Bgs, c \in Ctls : ~ (bg[b] \in Working /\ ctl[c] \in Working)
  /\ pc \in Working => NothingWorks

\* What ngSpice_running answers is the truth about the background thread: after
\* a successful bg_halt, too, and if it says so, somebody is at work.
RunningIsTrue ==
  /\ \A b \in Bgs : bg[b] \in Working => fl_running /\ ~ fl_exited
  /\ fl_running /\ ~ fl_exited =>
       \/ \E b \in Bgs : bg[b] \in Working
       \/ \E c \in Ctls : ctl[c] \in Working

\* A request to stop never outlives the stop it was made for: no command of the
\* caller is interrupted by it.
NoStrayInterrupt == pc \in Working \cup {"create"} => ~ ft_intrpt

\* The controls run within the background run that has released them: from the
\* moment a control thread passes its wait until it has ended, a background
\* thread whose own commands are finished waits for this very thread.  (A
\* wakeup without a release, a release meant for another thread and a join
\* that is left out would each break it.)
ControlsHeld ==
  \A c \in Ctls : ctl[c] \in Working \cup {"go", "ending", "ended"} =>
    \E b \in Bgs : bg[b] = "join" /\ joining[b] = c

\* No control thread is forgotten by whoever has to release it.  The library
\* does not see to this: without "once" it is violated.
NoOrphan == \A c \in Ctls : ctl[c] # "none" => tid2 = c

\* The list that bg_ctrl uses still exists when the caller has to send bg_ctrl,
\* after one background run and before the next.
ControlsExist == pc = "ready" /\ (\A b \in Bgs : bg[b] = "none") => shcontrols # Freed

\* Controls that wait when the background thread has finished are run: the
\* signal reaches the thread, also when it is just looking at a condition it was
\* woken for without need.
WaitingControlsRun ==
  \A c \in Ctls :
    (tid2 = c /\ ctl[c] \in {"wait", "woken"} /\ \E b \in Bgs : bg[b] = "exited")
      ~> ctl[c] = "evloop"

\* What the header of sharedspice.c says: the controls are run when the
\* background thread has finished.  A new control thread takes back a release
\* that came before it waits, so that this is violated without "controls".
ControlsRun ==
  \A c \in Ctls : (tid2 = c /\ \E b \in Bgs : bg[b] = "exited") ~> ctl[c] = "evloop"

\* bg_halt, and every command that has to stop a thread first, returns.
HaltReturns == (pc \in Stopping) ~> (pc \notin Stopping)

-----------------------------------------------------------------------------
(* What the safety properties rest on.                                      *)

Live == Working \cup {"new"}
Quiet == tid2 = None \/ \A b \in Bgs : bg[b] = "none"
\* The caller's command needs the simulator, or a thread of its own.
Demanding == pc \notin Stopping \cup {"ready"} \/ (pc \in Stopping /\ then # "ready")

\* One background thread at a time; it is not forgotten until it has ended.
OneBackground ==
  /\ \A b, d \in Bgs : bg[b] \in Live /\ bg[d] \in Live => b = d
  /\ \A b, d \in Bgs : tid2 # None /\ bg[b] # "none" /\ bg[d] # "none" => b = d
  /\ \A b \in Bgs : bg[b] \in Live => fl_running
  /\ fl_exited <=> NothingWorks

\* Controls go on only when a background thread waits for them, and tid2 names
\* them until they are forgotten.
Released ==
  /\ \A b \in Bgs : bg[b] = "join" => joining[b] = tid2
  /\ \A b \in Bgs : bg[b] = "joined" => tid2 # None /\ \A c \in Ctls : ctl[c] = "none"
  /\ \A c \in Ctls : ctl[c] # "none" => tid2 = c
  /\ \/ cont_condition /\ tid2 # None
     \/ \E c \in Ctls : ctl[c] \in Working \cup {"go", "ending", "ended"}
     => \E b \in Bgs : bg[b] \in {"join", "joined"}

\* Whatever the caller does finds the threads as it expects.
CallerInv ==
  /\ pc # "ready" => \A b \in Bgs : bg[b] # "new"
  /\ Demanding => Quiet
  /\ pc = "ctrl" => tid2 = None /\ (\A b \in Bgs : bg[b] = "none") /\ ~ cont_condition
  /\ pc \in Stopping => fl_running
  /\ pc \in Stopping /\ then # "ready" => fl_exited
  /\ pc = "set" => then = "ready"
  /\ pc = "clear" => \A b \in Bgs : bg[b] \notin Live
  /\ pc \in Working \cup {"create"} => fl_exited /\ ~ fl_running
  /\ ~ fl_running => ~ ft_intrpt

\* The inductive invariant.
IndInv == TypeOK /\ OneBackground /\ Released /\ CallerInv
=============================================================================
