-------------------------- MODULE SharedSpiceProofs --------------------------
(***************************************************************************)
(* The threads of the shared library keep to their protocol, for any number *)
(* of threads and of polls, when the caller waits for them to start and to  *)
(* end, and holds controls back once for each background run.  It need not  *)
(* wait for a control thread to be waiting.                                 *)
(***************************************************************************)
EXTENDS SharedSpice, TLAPS

\* The caller the theorems are about.
PatientCaller == {"start", "end", "once"} \subseteq Patience

-----------------------------------------------------------------------------
(* Steps that leave most of the state alone.                                *)

\* A step in the interpreter stays in it, and raises no interrupt.
LEMMA EvloopStep ==
  ASSUME ft_intrpt \in BOOLEAN, NEW at, NEW to, cp_evloop(at, to)
  PROVE  /\ at \in Working /\ to \in Working
         /\ ft_intrpt' \in BOOLEAN /\ (~ ft_intrpt => ~ ft_intrpt')
<1>1. at \in Working /\ to \in Working
  BY DEF cp_evloop, dosim, com_resume, OUTstopnow, EndSim, Working
<1>2. ft_intrpt' = ft_intrpt \/ ft_intrpt' = FALSE
  BY Zenon DEF cp_evloop, dosim, com_resume, OUTstopnow, EndSim
<1>3. ft_intrpt' \in BOOLEAN
  BY <1>2
<1>4. ~ ft_intrpt => ~ ft_intrpt'
  BY <1>2, Zenon
<1> QED BY <1>1, <1>3, <1>4

\* What the caller does with itself does not disturb the threads.
LEMMA ThreadsKept ==
  ASSUME IndInv, UNCHANGED <<fl_running, fl_exited, threads, handover>>
  PROVE  OneBackground' /\ Released'
<1>1. OneBackground'
  BY DEF IndInv, OneBackground, NothingWorks, threads, handover
<1>2. Released'
  BY DEF IndInv, Released, threads, handover
<1> QED BY <1>1, <1>2

-----------------------------------------------------------------------------
(* The background thread.                                                   *)

\* The thread announces itself: nobody works, since the caller has not gone on.
LEMMA BgStartInv ==
  ASSUME IndInv, NEW b \in Bgs, BgStart(b)
  PROVE  IndInv'
<1> USE DEF IndInv, BgStart, handover, caller
<1>1. TypeOK'
  BY DEF TypeOK, Working
<1>2. OneBackground'
  BY DEF TypeOK, OneBackground, Live, NothingWorks, Working
<1>3. Released'
  BY DEF Released
<1>4. CallerInv'
  BY DEF CallerInv, Demanding, Working, Stopping
<1> QED BY <1>1, <1>2, <1>3, <1>4

\* Whoever works stays at work.
LEMMA BgWorkInv ==
  ASSUME IndInv, NEW b \in Bgs, BgWork(b)
  PROVE  IndInv'
<1>1. PICK to \in Working : cp_evloop(bg[b], to) /\ bg' = [bg EXCEPT ![b] = to]
  BY DEF BgWork
<1>2. ft_intrpt \in BOOLEAN
  BY DEF IndInv, TypeOK
<1>3. bg[b] \in Working /\ ft_intrpt' \in BOOLEAN /\ (~ ft_intrpt => ~ ft_intrpt')
  BY <1>1, <1>2, EvloopStep, Zenon
<1> USE <1>1, <1>3 DEF IndInv, BgWork, handover, caller
<1>4. TypeOK'
  <2>1. bg' \in [Bgs -> Working \cup {"none", "new", "exited", "join", "joined"}]
    BY DEF TypeOK
  <2>2. \A d \in Bgs : joining'[d] = None <=> bg'[d] # "join"
    BY DEF TypeOK, Working
  <2> QED BY <2>1, <2>2 DEF TypeOK
<1>5. OneBackground'
  BY DEF OneBackground, Live, NothingWorks, Working
<1>6. Released'
  <2>1. \A d \in Bgs : /\ bg[d] = "join" <=> bg'[d] = "join"
                       /\ bg[d] = "joined" <=> bg'[d] = "joined"
    BY DEF TypeOK, Working
  <2> QED BY <2>1 DEF Released
<1>7. CallerInv'
  BY DEF CallerInv, Live, Quiet, Demanding, Working
<1> QED BY <1>4, <1>5, <1>6, <1>7

\* Whoever quits was the only one at work.
LEMMA BgQuitInv ==
  ASSUME IndInv, NEW b \in Bgs, BgQuit(b)
  PROVE  IndInv'
<1> USE DEF IndInv, BgQuit, shared_exit, handover, caller
<1>1. TypeOK'
  BY DEF TypeOK, Working
<1>2. OneBackground'
  BY DEF TypeOK, OneBackground, Released, Live, NothingWorks, Working
<1>3. Released'
  BY DEF Released, Working
<1>4. CallerInv'
  BY DEF CallerInv, Live, Quiet, Demanding
<1> QED BY <1>1, <1>2, <1>3, <1>4

\* Whoever ends was the only one at work.
LEMMA BgFinishInv ==
  ASSUME IndInv, NEW b \in Bgs, BgFinish(b)
  PROVE  IndInv'
<1> USE DEF IndInv, BgFinish, handover, caller
<1>1. TypeOK'
  BY DEF TypeOK
<1>2. OneBackground'
  BY DEF TypeOK, OneBackground, Released, Live, NothingWorks, Working
<1>3. Released'
  BY DEF Released
<1>4. CallerInv'
  BY DEF CallerInv, Live, Quiet, Demanding, Working
<1> QED BY <1>1, <1>2, <1>3, <1>4

\* A release wakes at most a thread that waits, and there is somebody who joins it.
LEMMA BgReleaseInv ==
  ASSUME IndInv, NEW b \in Bgs, BgRelease(b)
  PROVE  IndInv'
<1> USE DEF IndInv, BgRelease, flags, caller
<1>1. TypeOK'
  <2>1. ctl' \in [Ctls -> Working \cup {"none", "new", "wait", "woken", "go", "ending", "ended"}]
    BY DEF TypeOK, Signal
  <2>2. CASE tid2 = None
    BY <2>1, <2>2, SharedAssumption DEF TypeOK, Working
  <2>3. CASE tid2 # None
    BY <2>1, <2>3, SharedAssumption DEF TypeOK, Working, SetCondition
  <2> QED BY <2>2, <2>3
<1>2. OneBackground'
  BY DEF TypeOK, OneBackground, Live, NothingWorks, Working, Signal
<1>3. Released'
  BY DEF TypeOK, Released, Signal
<1>4. CallerInv'
  BY DEF TypeOK, CallerInv, Live, Quiet, Demanding, Working
<1> QED BY <1>1, <1>2, <1>3, <1>4

\* The control thread has ended, so that no control thread is left.
LEMMA BgJoinInv ==
  ASSUME IndInv, NEW b \in Bgs, BgJoin(b)
  PROVE  IndInv'
<1> USE DEF IndInv, BgJoin, flags, handover, caller
<1>1. TypeOK'
  BY DEF TypeOK
<1>2. OneBackground'
  BY DEF OneBackground, Live, NothingWorks, Working
<1>3. Released'
  <2>1. joining[b] = tid2 /\ tid2 \in Ctls
    BY DEF TypeOK, Released
  <2>2. \A c \in Ctls : ctl'[c] = "none"
    BY <2>1 DEF TypeOK, Released
  <2>3. \A d \in Bgs : bg'[d] = "join" => joining'[d] = tid2'
    BY DEF TypeOK, Released
  <2> QED BY <2>1, <2>2, <2>3, SharedAssumption DEF TypeOK, Released, Working
<1>4. CallerInv'
  BY DEF CallerInv, Live, Quiet, Demanding, Working
<1> QED BY <1>1, <1>2, <1>3, <1>4

\* Nothing is left of the controls when tid2 is reset.
LEMMA BgForgetInv ==
  ASSUME IndInv, NEW b \in Bgs, BgForget(b)
  PROVE  IndInv'
<1> USE DEF IndInv, BgForget, flags, caller
<1>1. TypeOK'
  BY DEF TypeOK
<1>2. OneBackground'
  BY DEF OneBackground, Live, NothingWorks, Working
<1>3. Released'
  <2>1. /\ tid2 # None /\ \A c \in Ctls : ctl[c] = "none"
        /\ \A d \in Bgs \ {b} : bg[d] = "none"
    BY DEF OneBackground, Released
  <2> QED BY <2>1 DEF TypeOK, Released, Working
<1>4. CallerInv'
  BY DEF CallerInv, Live, Quiet, Working
<1> QED BY <1>1, <1>2, <1>3, <1>4

-----------------------------------------------------------------------------
(* The control thread.                                                      *)

\* Waiting is no work.
LEMMA CtlWaitInv ==
  ASSUME IndInv, NEW c \in Ctls, CtlWait(c)
  PROVE  IndInv'
<1> USE DEF IndInv, CtlWait, flags, caller
<1>1. TypeOK'
  BY DEF TypeOK
<1>2. OneBackground'
  BY DEF OneBackground, NothingWorks, Working
<1>3. Released'
  BY DEF Released, Working
<1>4. CallerInv'
  BY DEF CallerInv, Quiet, Demanding
<1> QED BY <1>1, <1>2, <1>3, <1>4

\* A spurious wakeup changes nothing.
LEMMA CtlSpuriousInv ==
  ASSUME IndInv, NEW c \in Ctls, CtlSpurious(c)
  PROVE  IndInv'
<1> USE DEF IndInv, CtlSpurious, flags, handover, caller
<1>1. TypeOK'
  BY DEF TypeOK
<1>2. OneBackground'
  BY DEF OneBackground, NothingWorks, Working
<1>3. Released'
  BY DEF Released, Working
<1>4. CallerInv'
  BY DEF CallerInv, Quiet, Demanding
<1> QED BY <1>1, <1>2, <1>3, <1>4

\* Only the condition lets the thread go on, and it is set when somebody joins.
LEMMA CtlWokenInv ==
  ASSUME IndInv, NEW c \in Ctls, CtlWoken(c)
  PROVE  IndInv'
<1> USE DEF IndInv, CtlWoken, flags, handover, caller
<1>1. TypeOK'
  BY DEF TypeOK
<1>2. OneBackground'
  BY DEF OneBackground, NothingWorks, Working
<1>3. Released'
  BY SharedAssumption DEF Released, Working
<1>4. CallerInv'
  BY DEF CallerInv, Quiet, Demanding
<1> QED BY <1>1, <1>2, <1>3, <1>4

\* The background thread that joins has ended, and the caller is quiet.
LEMMA CtlStartInv ==
  ASSUME IndInv, NEW c \in Ctls, CtlStart(c)
  PROVE  IndInv'
<1> USE DEF IndInv, CtlStart, handover, caller
<1>1. TypeOK'
  BY DEF TypeOK, Working
<1>2. OneBackground'
  BY DEF TypeOK, OneBackground, NothingWorks, Working
<1>3. Released'
  BY DEF Released
<1>4. CallerInv'
  BY DEF TypeOK, Released, CallerInv, Quiet, Demanding, Working
<1> QED BY <1>1, <1>2, <1>3, <1>4

\* Whoever works stays at work.
LEMMA CtlWorkInv ==
  ASSUME IndInv, NEW c \in Ctls, CtlWork(c)
  PROVE  IndInv'
<1>1. PICK to \in Working : cp_evloop(ctl[c], to) /\ ctl' = [ctl EXCEPT ![c] = to]
  BY DEF CtlWork
<1>2. ft_intrpt \in BOOLEAN
  BY DEF IndInv, TypeOK
<1>3. ctl[c] \in Working /\ ft_intrpt' \in BOOLEAN /\ (~ ft_intrpt => ~ ft_intrpt')
  BY <1>1, <1>2, EvloopStep, Zenon
<1> USE <1>1, <1>3 DEF IndInv, CtlWork, handover, caller
<1>4. TypeOK'
  BY DEF TypeOK
<1>5. OneBackground'
  BY DEF OneBackground, NothingWorks, Working
<1>6. Released'
  BY DEF Released, Working
<1>7. CallerInv'
  BY DEF CallerInv, Quiet, Demanding
<1> QED BY <1>4, <1>5, <1>6, <1>7

\* Whoever quits was the only one at work.
LEMMA CtlQuitInv ==
  ASSUME IndInv, NEW c \in Ctls, CtlQuit(c)
  PROVE  IndInv'
<1> USE DEF IndInv, CtlQuit, shared_exit, handover, caller
<1>1. TypeOK'
  BY DEF TypeOK
<1>2. OneBackground'
  BY DEF TypeOK, OneBackground, Released, NothingWorks, Working
<1>3. Released'
  BY DEF Released, Working
<1>4. CallerInv'
  BY DEF CallerInv, Quiet, Demanding
<1> QED BY <1>1, <1>2, <1>3, <1>4

\* Whoever ends was the only one at work.
LEMMA CtlFinishInv ==
  ASSUME IndInv, NEW c \in Ctls, CtlFinish(c)
  PROVE  IndInv'
<1> USE DEF IndInv, CtlFinish, handover, caller
<1>1. TypeOK'
  BY DEF TypeOK
<1>2. OneBackground'
  BY DEF TypeOK, OneBackground, Released, NothingWorks, Working
<1>3. Released'
  BY DEF Released, Working
<1>4. CallerInv'
  BY DEF CallerInv, Quiet, Demanding
<1> QED BY <1>1, <1>2, <1>3, <1>4

\* The thread is still joined.
LEMMA CtlEndInv ==
  ASSUME IndInv, NEW c \in Ctls, CtlEnd(c)
  PROVE  IndInv'
<1> USE DEF IndInv, CtlEnd, flags, caller
<1>1. TypeOK'
  BY DEF TypeOK
<1>2. OneBackground'
  BY DEF OneBackground, NothingWorks, Working
<1>3. Released'
  BY DEF Released
<1>4. CallerInv'
  BY DEF CallerInv, Quiet, Demanding
<1> QED BY <1>1, <1>2, <1>3, <1>4

-----------------------------------------------------------------------------
(* The caller.                                                              *)

\* A patient caller finds either no controls or no background thread.
LEMMA BgCommandInv ==
  ASSUME IndInv, PatientCaller, BgCommand
  PROVE  IndInv'
<1> USE DEF IndInv, BgCommand, _thread_stop, MayCommand, Ended, flags, threads,
    handover
<1>1. TypeOK'
  BY SharedAssumption DEF TypeOK, Stopping
<1>2. OneBackground' /\ Released'
  BY ThreadsKept
<1>3. CallerInv'
  BY DEF CallerInv, Quiet, PatientCaller, Working, Stopping
<1> QED BY <1>1, <1>2, <1>3

\* A patient caller finds either no controls or no background thread.
LEMMA OtherCommandInv ==
  ASSUME IndInv, PatientCaller, OtherCommand
  PROVE  IndInv'
<1> USE DEF IndInv, OtherCommand, MayCommand, Ended, flags, threads, handover
<1>1. TypeOK'
  BY DEF TypeOK
<1>2. OneBackground' /\ Released'
  BY ThreadsKept
<1>3. CallerInv'
  BY DEF CallerInv, Quiet, PatientCaller, Working, Stopping
<1> QED BY <1>1, <1>2, <1>3

\* A halt asks for nothing of the threads.
LEMMA bg_haltInv ==
  ASSUME IndInv, PatientCaller, bg_halt
  PROVE  IndInv'
<1> USE DEF IndInv, bg_halt, _thread_stop, MayCommand, flags, threads, handover
<1>1. TypeOK'
  BY SharedAssumption DEF TypeOK, Stopping
<1>2. OneBackground' /\ Released'
  BY ThreadsKept
<1>3. CallerInv'
  BY DEF CallerInv, Demanding, PatientCaller, Working, Stopping
<1> QED BY <1>1, <1>2, <1>3

\* No thread lives when the controls are prepared.
LEMMA exec_controlsInv ==
  ASSUME IndInv, PatientCaller, exec_controls
  PROVE  IndInv'
<1> USE DEF IndInv, exec_controls, Prepare, flags, threads
<1>1. TypeOK'
  BY DEF TypeOK
<1>2. OneBackground'
  BY DEF OneBackground, NothingWorks
<1>3. Released'
  BY DEF Released
<1>4. CallerInv'
  BY DEF CallerInv, Quiet, PatientCaller, Working, Stopping
<1> QED BY <1>1, <1>2, <1>3, <1>4

\* The last background thread has ended.
LEMMA CreateInv ==
  ASSUME IndInv, Create
  PROVE  IndInv'
<1> USE DEF IndInv, Create, handover
<1>1. TypeOK'
  BY DEF TypeOK
<1>2. OneBackground'
  BY DEF OneBackground, CallerInv, NothingWorks, Quiet, Demanding, Working
<1>3. Released'
  BY DEF Released
<1>4. CallerInv'
  BY DEF CallerInv, Demanding, Working, Stopping
<1> QED BY <1>1, <1>2, <1>3, <1>4

\* No control thread lives, and none is released.
LEMMA CreateControlsInv ==
  ASSUME IndInv, CreateControls
  PROVE  IndInv'
<1> USE DEF IndInv, CreateControls, flags
<1>1. TypeOK'
  BY DEF TypeOK
<1>2. OneBackground'
  BY DEF OneBackground, CallerInv, NothingWorks, Working
<1>3. Released'
  BY SharedAssumption DEF TypeOK, Released, CallerInv, Working
<1>4. CallerInv'
  BY DEF CallerInv, Demanding, Working, Stopping
<1> QED BY <1>1, <1>2, <1>3, <1>4

\* A command goes on when nothing works.
LEMMA CheckInv ==
  ASSUME IndInv, Check
  PROVE  IndInv'
<1> USE DEF IndInv, Check, _thread_stop, flags, threads, handover
<1>1. TypeOK'
  BY SharedAssumption DEF TypeOK, Working, Stopping
<1>2. OneBackground' /\ Released'
  BY ThreadsKept
<1>3. CallerInv'
  BY DEF TypeOK, OneBackground, Released, CallerInv, Live, NothingWorks, Quiet,
      Demanding, Working, Stopping
<1> QED BY <1>1, <1>2, <1>3

\* Whoever works stays at work.
LEMMA CallerWorkInv ==
  ASSUME IndInv, CallerWork
  PROVE  IndInv'
<1>1. /\ pc \in Working /\ pc' \in Working \cup {"ready"}
      /\ ft_intrpt' \in BOOLEAN /\ (~ ft_intrpt => ~ ft_intrpt')
  BY EvloopStep DEF IndInv, TypeOK, CallerWork, Working
<1> USE <1>1 DEF IndInv, CallerWork, threads, handover
<1>2. TypeOK'
  BY DEF TypeOK
<1>3. OneBackground' /\ Released'
  BY ThreadsKept
<1>4. CallerInv'
  BY DEF CallerInv, Quiet, Demanding, Working, Stopping
<1> QED BY <1>2, <1>3, <1>4

\* An attempt is made for a halt only: another command has found fl_exited.
LEMMA StopTestInv ==
  ASSUME IndInv, StopTest
  PROVE  IndInv'
<1> USE DEF IndInv, StopTest, flags, threads, handover
<1>1. TypeOK'
  BY DEF TypeOK, Stopping
<1>2. OneBackground' /\ Released'
  BY ThreadsKept
<1>3. CallerInv'
  BY DEF CallerInv, Quiet, Demanding, Working, Stopping
<1> QED BY <1>1, <1>2, <1>3

\* The request is for a thread that runs.
LEMMA StopSetInv ==
  ASSUME IndInv, StopSet
  PROVE  IndInv'
<1> USE DEF IndInv, StopSet, threads, handover
<1>1. TypeOK'
  BY SharedAssumption DEF TypeOK, Stopping
<1>2. OneBackground' /\ Released'
  BY ThreadsKept
<1>3. CallerInv'
  BY DEF CallerInv, Demanding, Working, Stopping
<1> QED BY <1>1, <1>2, <1>3

\* The thread has ended, or the halt gives up.
LEMMA StoppedInv ==
  ASSUME IndInv, Stopped
  PROVE  IndInv'
<1> USE DEF IndInv, Stopped, flags, threads, handover
<1>1. TypeOK'
  BY DEF TypeOK, Working, Stopping
<1>2. OneBackground' /\ Released'
  BY ThreadsKept
<1>3. CallerInv'
  BY DEF OneBackground, CallerInv, Live, NothingWorks, Quiet, Demanding, Working,
      Stopping
<1> QED BY <1>1, <1>2, <1>3

\* The thread that was stopped is not at work.
LEMMA StopClearInv ==
  ASSUME IndInv, StopClear
  PROVE  IndInv'
<1> USE DEF IndInv, StopClear, threads, handover
<1>1. TypeOK'
  BY DEF TypeOK, Working
<1>2. OneBackground'
  BY DEF OneBackground, CallerInv, NothingWorks
<1>3. Released'
  BY DEF Released
<1>4. CallerInv'
  BY DEF TypeOK, CallerInv, Quiet, Demanding, Working, Stopping
<1> QED BY <1>1, <1>2, <1>3, <1>4

-----------------------------------------------------------------------------
(* The theorems.                                                            *)

\* Nothing lives at first.
LEMMA InitInv == Init => IndInv
<1> SUFFICES ASSUME Init PROVE IndInv
  OBVIOUS
<1> USE DEF Init
<1>1. TypeOK
  <2>1. bg \in [Bgs -> Working \cup {"none", "new", "exited", "join", "joined"}]
    OBVIOUS
  <2>2. ctl \in [Ctls -> Working \cup {"none", "new", "wait", "woken", "go", "ending", "ended"}]
    OBVIOUS
  <2>3. timeout \in 0 .. MaxPolls
    BY SharedAssumption
  <2>4. /\ joining \in [Bgs -> Ctls \cup {None}]
        /\ \A b \in Bgs : joining[b] = None <=> bg[b] # "join"
    OBVIOUS
  <2> QED BY <2>1, <2>2, <2>3, <2>4 DEF TypeOK
<1>2. OneBackground
  BY DEF OneBackground, Live, NothingWorks, Working
<1>3. Released
  BY SharedAssumption DEF Released, Working
<1>4. CallerInv
  BY DEF CallerInv, Live, Quiet, Demanding, Working, Stopping
<1> QED BY <1>1, <1>2, <1>3, <1>4 DEF IndInv

\* Every step keeps the invariant: the cases are the actions.
LEMMA NextInv ==
  ASSUME IndInv, PatientCaller, [Next]_vars
  PROVE  IndInv'
<1>1. CASE Command
  BY <1>1, BgCommandInv, OtherCommandInv, bg_haltInv, exec_controlsInv DEF Command
<1>2. CASE CallerStep
  BY <1>2, CreateInv, CreateControlsInv, CheckInv, CallerWorkInv, StopTestInv,
     StopSetInv, StoppedInv, StopClearInv DEF CallerStep
<1>3. ASSUME NEW b \in Bgs, _thread_run(b) PROVE IndInv'
  BY <1>3, BgStartInv, BgWorkInv, BgQuitInv, BgFinishInv, BgReleaseInv, BgJoinInv,
     BgForgetInv      DEF _thread_run
<1>4. ASSUME NEW c \in Ctls, _cthread_run(c) \/ CtlSpurious(c) PROVE IndInv'
  BY <1>4, CtlWaitInv, CtlSpuriousInv, CtlWokenInv, CtlStartInv, CtlWorkInv,
     CtlQuitInv, CtlFinishInv, CtlEndInv DEF _cthread_run
<1>5. CASE UNCHANGED vars
  BY <1>5 DEF vars, flags, threads, handover, caller, IndInv, TypeOK, OneBackground,
     Released, CallerInv, Live, Quiet, Demanding, NothingWorks
<1> QED BY <1>1, <1>2, <1>3, <1>4, <1>5 DEF Next

\* The threads, their flags and the caller keep the inductive invariant, for any
\* number of threads and polls, when the caller is patient.
THEOREM Invariance ==
  ASSUME PatientCaller
  PROVE  Spec => []IndInv
<1>1. IndInv /\ [Next]_vars => IndInv'
  BY NextInv
<1> QED BY InitInv, <1>1, PTL DEF Spec

\* The shared state keeps its types, and a thread that joins has a partner.
THEOREM TypeCorrect ==
  ASSUME PatientCaller
  PROVE  Spec => []TypeOK
<1>1. IndInv => TypeOK
  BY DEF IndInv
<1> QED BY Invariance, <1>1, PTL

\* A control thread works only while a background thread waits for it, and the
\* caller only when neither does: no two threads are in the interpreter.
THEOREM OneThreadWorks ==
  ASSUME PatientCaller
  PROVE  Spec => []OneAtATime
<1>1. IndInv => OneAtATime
  <2> SUFFICES ASSUME IndInv PROVE OneAtATime
    OBVIOUS
  <2> USE DEF IndInv
  <2>1. \A b, d \in Bgs : bg[b] \in Working /\ bg[d] \in Working => b = d
    BY DEF OneBackground, Live
  <2>2. \A c, d \in Ctls : ctl[c] \in Working /\ ctl[d] \in Working => c = d
    BY DEF Released, Working
  <2>3. \A b \in Bgs, c \in Ctls : ~ (bg[b] \in Working /\ ctl[c] \in Working)
    <3> SUFFICES ASSUME NEW b \in Bgs, NEW c \in Ctls, bg[b] \in Working, ctl[c] \in Working
                 PROVE  FALSE
      OBVIOUS
    <3>1. PICK d \in Bgs : bg[d] \in {"join", "joined"}
      BY DEF Released
    <3>2. tid2 = c
      BY DEF Released, Working
    <3>3. b = d
      BY <3>1, <3>2, SharedAssumption DEF OneBackground, Working
    <3> QED BY <3>1, <3>3 DEF Working
  <2>4. pc \in Working => NothingWorks
    BY DEF CallerInv, OneBackground
  <2> QED BY <2>1, <2>2, <2>3, <2>4 DEF OneAtATime
<1> QED BY Invariance, <1>1, PTL

\* ngSpice_running tells the truth about the background thread.
THEOREM RunningTellsTruth ==
  ASSUME PatientCaller
  PROVE  Spec => []RunningIsTrue
<1>1. IndInv => RunningIsTrue
  BY DEF IndInv, OneBackground, NothingWorks, Live, RunningIsTrue
<1> QED BY Invariance, <1>1, PTL

\* No command of the caller meets a request to stop that was made for another.
THEOREM InterruptStaysWithStop ==
  ASSUME PatientCaller
  PROVE  Spec => []NoStrayInterrupt
<1>1. IndInv => NoStrayInterrupt
  BY DEF IndInv, CallerInv, NoStrayInterrupt
<1> QED BY Invariance, <1>1, PTL

\* From its release to its end a control thread is waited for by the background
\* thread that has released it.
THEOREM ControlsWithinRun ==
  ASSUME PatientCaller
  PROVE  Spec => []ControlsHeld
<1>1. IndInv => ControlsHeld
  <2> SUFFICES ASSUME IndInv, NEW c \in Ctls,
                      ctl[c] \in Working \cup {"go", "ending", "ended"}
               PROVE  \E b \in Bgs : bg[b] = "join" /\ joining[b] = c
    BY DEF ControlsHeld
  <2>1. PICK b \in Bgs : bg[b] \in {"join", "joined"}
    BY DEF IndInv, Released
  <2>2. ctl[c] # "none" /\ tid2 = c
    BY DEF IndInv, Released, Working
  <2>3. bg[b] = "join" /\ joining[b] = c
    BY <2>1, <2>2 DEF IndInv, Released
  <2> QED BY <2>3
<1> QED BY Invariance, <1>1, PTL
=============================================================================
