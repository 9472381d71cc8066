------------------------------ MODULE DCtrCurv ------------------------------
(***************************************************************************)
(* A DC sweep of a circuit with event-driven instances: DCtrCurv            *)
(* (dctrcurv.c) as CKTdoJob (cktdojob.c) calls it for the commands run and  *)
(* resume (runcoms.c, runcoms2.c, spiceif.c), in a task that has no other   *)
(* analysis.                                                                *)
(*                                                                          *)
(* Level 1 is the innermost sweep.  A swept source or temperature is an     *)
(* integer; steps that do not hit the stop value exactly are allowed.       *)
(* CKTtime is the value of level 1, as DCtrCurv sets it.                    *)
(***************************************************************************)
EXTENDS EvtOp

CONSTANTS Levels,              \* 1 .. TRCVnestLevel + 1
          Start, Stop, Step,   \* of each level
          Temps,               \* levels that sweep the temperature
          TaskTemp,            \* the temperature of the task
          Given,               \* values the sources have in the netlist
          FirstBreak,          \* breakpoint.current when the program starts
          wantevtdata,         \* ngSpice_Init_Evt: the caller wants event data
          MaxRuns              \* bound: run commands

Depth == Cardinality(Levels)

ASSUME SweepAssumption ==
  /\ Levels = 1 .. Depth /\ Depth \in Nat \ {0} /\ Temps \subseteq Levels
  /\ Start \in [Levels -> Int] /\ Stop \in [Levels -> Int]
  /\ Step \in [Levels -> Int \ {0}] /\ Given \in [Levels -> Int]
  /\ TaskTemp \in Int /\ FirstBreak \in Int /\ wantevtdata \in BOOLEAN
  /\ \A l \in Temps : Given[l] = TaskTemp

VARIABLES val,        \* what is swept: VSRCdcValue, ISRCdcValue, RESresist, CKTtemp
          save,       \* TRCVvSave
          level,      \* the loop variable i, plus one
          firstTime,
          nest,       \* TRCVnestState, plus one
          inprogress, \* ci_inprogress: the run was interrupted
          quick,      \* what NIiter returned for a point after the first
          runs,       \* history: run commands given
          points,     \* history: points put out since then
          rows,       \* history: rows of the plot the last point was put out in,
                      \* 0 when a command has been given since
          spoiled     \* history: a sweep not at its end was given up

dcvars == <<val, save, level, firstTime, nest, inprogress, quick, runs, points,
            rows, spoiled>>
allvars == <<evtvars, dcvars>>

Past(l, v) == IF Step[l] > 0 THEN v > Stop[l] ELSE v < Stop[l]

\* How many values level l takes, and how many points there are.
Count(l) ==
  IF Past(l, Start[l]) THEN 0
  ELSE IF Step[l] > 0 THEN (Stop[l] - Start[l]) \div Step[l] + 1
       ELSE (Start[l] - Stop[l]) \div (- Step[l]) + 1

Below[l \in 1 .. Depth + 1] == IF l = 1 THEN 1 ELSE Below[l - 1] * Count(l - 1)

\* The k-th point of the sweep, from 0: level 1 runs through its values for each
\* value of level 2, and so on.
Point(k) == [l \in Levels |-> Start[l] + ((k \div Below[l]) % Count(l)) * Step[l]]

DCInit ==
  /\ opt \in Options /\ at = "idle"
  /\ gmin = Gmin /\ diag = 0 /\ srcFact = Whole
  /\ loc = NoLocals /\ result = "ok"
  /\ solved = [gmin |-> Gmin, diag |-> 0, srcFact |-> Whole]
  /\ out = [i \in Insts |-> Fresh] /\ node = [n \in Nodes |-> Fresh]
  /\ changed = {} /\ to_call = {} /\ passes = 0 /\ firstime = FALSE /\ hyb = 1
  /\ alternations = 0 /\ stale = {}
  /\ CKTtime = 0 /\ brk = FirstBreak
  /\ val = Given /\ save = Given /\ level = 1 /\ firstTime = FALSE /\ nest = 1
  /\ inprogress = FALSE /\ quick = "ok" /\ runs = 0 /\ points = 0 /\ rows = 0 /\ spoiled = FALSE

-----------------------------------------------------------------------------
(* The commands.                                                            *)

\* CKTdoJob sets the circuit to the options of the task; for run it also sets up
\* new event data.
TaskVal == [l \in Levels |-> IF l \in Temps THEN TaskTemp ELSE val[l]]

\* A mutant: what is saved is what the sweep starts with.
SavedLate == Start

Saved == TaskVal

Run ==
  /\ at = "idle" /\ runs < MaxRuns
  /\ inprogress' = TRUE
  /\ save' = Saved /\ val' = Start
  /\ level' = 1 /\ firstTime' = TRUE
  /\ gmin' = Gmin /\ CKTtime' = 0
  /\ out' = [i \in Insts |-> Fresh] /\ node' = [n \in Nodes |-> Fresh]
  /\ changed' = {} /\ to_call' = {} /\ passes' = 0 /\ alternations' = 0
  /\ stale' = Insts
  /\ at' = "test"
  /\ runs' = runs + 1 /\ points' = 0 /\ rows' = 0
  /\ spoiled' = (spoiled \/ val # Given)
  /\ firstime' = FALSE /\ hyb' = 1 /\ quick' = "ok" /\ result' = "ok"
  /\ solved' = [gmin |-> Gmin, diag |-> diag, srcFact |-> Whole]
  /\ UNCHANGED <<opt, diag, srcFact, loc, brk, nest>>

\* A mutant: the loop starts again from the innermost level.
ResumeInner ==
  /\ at = "idle" /\ inprogress
  /\ val' = TaskVal
  /\ level' = 1 /\ firstTime' = TRUE /\ rows' = 0
  /\ gmin' = Gmin
  /\ at' = "test"
  /\ UNCHANGED <<opt, diag, srcFact, loc, result, solved, events, CKTtime, brk,
                 save, nest, inprogress, quick, runs, points, spoiled>>

\* With nothing in progress resume is run.
Resume ==
  /\ at = "idle" /\ inprogress
  /\ val' = TaskVal
  /\ level' = nest /\ firstTime' = TRUE /\ rows' = 0
  /\ gmin' = Gmin
  /\ at' = "test"
  /\ UNCHANGED <<opt, diag, srcFact, loc, result, solved, events, CKTtime, brk,
                 save, nest, inprogress, quick, runs, points, spoiled>>

-----------------------------------------------------------------------------
(* The loop of DCtrCurv.                                                    *)

\* A mutant: the level that has stepped starts again as well.
ResetToo(l) == [m \in Levels |-> IF m <= l THEN Start[m] ELSE val[m]]

Reset(l) == [m \in Levels |-> IF m < l THEN Start[m] ELSE val[m]]

\* Level l takes a step; the user may have asked for a pause, but not where a
\* temperature is past its stop value.
Advance(l) ==
  LET v == val[l] + Step[l] IN
  /\ val' = [val EXCEPT ![l] = v]
  /\ level' = l
  /\ \/ at' = "test" /\ nest' = nest
     \/ /\ ~ (l \in Temps /\ Past(l, v))
        /\ at' = "idle" /\ nest' = l

\* A level past its stop value: the next one takes a step, or all is done.
LevelDone ==
  /\ at = "test" /\ Past(level, val[level])
  /\ firstTime' = TRUE
  /\ IF level = Depth
     THEN /\ val' = save /\ at' = "idle" /\ level' = level + 1 /\ nest' = nest
          /\ inprogress' = FALSE
     ELSE Advance(level + 1) /\ UNCHANGED inprogress
  /\ UNCHANGED <<opt, knobs, loc, result, solved, events, CKTtime, brk,
                 save, quick, runs, points, rows, spoiled>>

\* The first point, and the first after the levels above have stepped or after
\* a pause, is an operating point that calls all instances.
FirstPoint ==
  /\ at = "test" /\ ~ Past(level, val[level]) /\ firstTime
  /\ val' = Reset(level) /\ level' = 0
  /\ at' = "eval" /\ firstime' = TRUE /\ to_call' = Insts
  /\ UNCHANGED <<opt, knobs, loc, result, solved, out, node, changed, passes, hyb,
                 alternations, stale, CKTtime, brk, save, firstTime, nest, inprogress,
                 quick, runs, points, rows, spoiled>>

\* Another point is tried with one NIiter.
NextPoint(o) ==
  /\ at = "test" /\ ~ Past(level, val[level]) /\ ~ firstTime
  /\ val' = Reset(level) /\ level' = 0
  /\ quick' = (IF o = "fail" THEN "fail" ELSE "ok")
  /\ Solves(o)
  /\ at' = "quick" /\ hyb' = 1 /\ stale' = stale \cup HybridSet
  /\ UNCHANGED <<opt, knobs, loc, result, out, node, changed, to_call, passes, firstime,
                 alternations, CKTtime, brk, save, firstTime, nest, inprogress,
                 runs, points, rows, spoiled>>

\* That will do if it converged and no hybrid changed an output.
QuickDone ==
  /\ at = "quick" /\ hyb > Len(Hybrids)
  /\ IF quick = "fail" \/ changed # {}
     THEN at' = "eval" /\ firstime' = TRUE
     ELSE at' = "solved" /\ UNCHANGED firstime
  /\ UNCHANGED <<opt, knobs, loc, result, solved, out, node, changed, to_call, passes, hyb,
                 alternations, stale, CKTtime, brk, dcvars>>

\* The point is put out, and the innermost level takes a step.  An operating
\* point (firstTime) is put out twice for a caller who wants event data: a row at
\* 0.0 comes before that of the point.
Dump ==
  /\ at = "solved"
  /\ points' = points + 1
  /\ rows' = (IF wantevtdata /\ firstTime THEN 2 ELSE 1)
  /\ CKTtime' = val[1]
  /\ firstTime' = FALSE
  /\ Advance(1)
  /\ UNCHANGED <<opt, knobs, loc, result, solved, events, brk,
                 save, inprogress, quick, runs, spoiled>>

\* An error ends the sweep as it is.
Fail ==
  /\ at = "failed"
  /\ at' = "idle" /\ inprogress' = FALSE
  /\ UNCHANGED <<opt, knobs, loc, result, solved, events, CKTtime, brk,
                 val, save, level, firstTime, nest, quick, runs, points, rows, spoiled>>

Internal ==
  \/ LevelDone \/ FirstPoint \/ QuickDone \/ Dump \/ Fail
  \/ \E o \in Outcome : NextPoint(o)
  \/ (EvtOpStep \/ AnalogStep \/ CKTopStep) /\ UNCHANGED dcvars

DCNext == Run \/ Resume \/ Internal

\* Once called an analysis goes on; nobody has to give a command.
DCSpec == DCInit /\ [][DCNext]_allvars /\ WF_allvars(Internal)

-----------------------------------------------------------------------------
(* Properties.                                                              *)

\* The state has the shape the code's types give it.
DCTypeOK ==
  /\ OpTypeOK /\ EvtOpTypeOK
  /\ val \in [Levels -> Int] /\ save \in [Levels -> Int]
  /\ level \in 0 .. Depth + 1 /\ nest \in Levels
  /\ inprogress \in BOOLEAN /\ firstTime \in BOOLEAN /\ quick \in {"ok", "fail"}

\* The points of the sweep are put out in order, none twice, however often the
\* sweep is interrupted and resumed.  Each has one row of the plot; only a caller
\* who wants event data gets a second one, at 0.0, and only for the first point
\* after a command and the first for each value of the level above.
PointsInOrder ==
  [][points' = points + 1 =>
       /\ points < Below[Depth + 1] /\ val = Point(points)
       /\ rows' = 1 \/ (wantevtdata /\ (rows = 0 \/ val[1] = Start[1]))]_allvars

\* A sweep that ends without an error has put out all of its points.
SweepComplete ==
  [][at = "test" /\ at' = "idle" /\ ~ inprogress' => points = Below[Depth + 1]]_allvars

\* "All done, lets put everything back": with no sweep in progress the sources
\* are what the netlist made them, unless a sweep was given up.
SourcesBack == at = "idle" /\ ~ inprogress /\ points = Below[Depth + 1] /\ ~ spoiled
                 => val = Given

\* A sweep ends, fails or pauses, whatever Newton iteration and the code models do.
SweepReturns == at # "idle" ~> at = "idle"
=============================================================================
