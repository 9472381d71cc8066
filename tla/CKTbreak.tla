------------------------------ MODULE CKTbreak ------------------------------
(***************************************************************************)
(* The breakpoint table of a circuit: CKTsetBreak (cktsetbk.c) and          *)
(* CKTclrBreak (cktclrbk.c) as operators on the table, a sequence of at     *)
(* least two times (CKTbreaks, CKTbreakSize).  Times are integers; "almost  *)
(* equal" is equality.                                                      *)
(***************************************************************************)
EXTENDS Integers, Sequences

CONSTANTS FinalTime,   \* CKTfinalTime
          MinBreak     \* CKTminBreak

ASSUME BreakAssumption == FinalTime \in Nat /\ MinBreak \in Nat

\* The index of the first breakpoint after time, or one past the end.
Passed(breaks, time) ==
  CHOOSE i \in 1 .. Len(breaks) + 1 :
    /\ i <= Len(breaks) => breaks[i] > time
    /\ \A j \in 1 .. i - 1 : breaks[j] <= time

Insert(breaks, i, time) ==
  [j \in 1 .. Len(breaks) + 1 |-> IF j < i THEN breaks[j]
                                  ELSE IF j = i THEN time ELSE breaks[j - 1]]

\* A mutant: the new breakpoint always goes to the end.
AppendBreak(breaks, now, time) ==
  IF time = now THEN breaks ELSE Append(breaks, time)

\* A breakpoint at time is asked for at the time now, not after it.  One that
\* is close to a later entry replaces it; one that is close to an earlier entry
\* is dropped.
CKTsetBreak(breaks, now, time) ==
  LET i == Passed(breaks, time)
      replaces == i <= Len(breaks) /\ breaks[i] - time <= MinBreak
      skipped == i > 1 /\ time - breaks[i - 1] <= MinBreak
  IN IF time = now THEN breaks
     ELSE IF replaces THEN [breaks EXCEPT ![i] = time]
     ELSE IF skipped THEN breaks
     ELSE Insert(breaks, i, time)

\* The table with the final time behind it, from which it is refilled.
Refilled(breaks) == breaks \o <<FinalTime, FinalTime>>

\* The first k breakpoints are deleted, one by one; the table keeps a size of
\* two, the final time taking the place of what is missing.
CKTclrBreaks(breaks, k) ==
  LET n == Len(breaks)
  IN SubSeq(Refilled(breaks), k + 1, IF k + 2 > n THEN k + 2 ELSE n)

CKTclrBreak(breaks) == CKTclrBreaks(breaks, 1)

Ordered(breaks) ==
  \A i, j \in 1 .. Len(breaks) : i <= j => breaks[i] <= breaks[j]
=============================================================================
