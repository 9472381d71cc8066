----------------------------- MODULE MCEvtRound -----------------------------
(* Instances of EvtRound: the delays each output uses, and its value.       *)
EXTENDS EvtRound, TLC

CONSTANTS o1, o2, n1

\* The first output rises slowly and falls fast; the second always has the
\* same delay, and the same value.
TwoDelays == (o1 :> {1, 3}) @@ (o2 :> {2})

RisesSlowly ==
  [o \in Outputs |-> [delay \in Time |-> IF delay > 1 THEN 1 ELSE 0]]

\* Both outputs drive one node.
OneNode == [o \in Outputs |-> n1]
=============================================================================
