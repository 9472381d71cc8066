------------------------------ MODULE EvtRound ------------------------------
(***************************************************************************)
(* The output queue with the nodes its events reach: EVTprocess_output of   *)
(* EVTdequeue (evtdeque.c), the node part of EVTiter in a transient         *)
(* analysis (evtiter.c), of EVTaccept (evtaccept.c) and of EVTbackup        *)
(* (evtbackup.c).                                                           *)
(*                                                                          *)
(* The queue and the nodes are rolled back each by its own rule: the queue  *)
(* by the times of its events, the nodes by lists of the values they had.   *)
(* rhs and rhsold, which code and comments keep equal here, are one         *)
(* variable: the value each output drives; what the inputs of instances see *)
(* is the resolution of those of a node, and resolution is left out.        *)
(***************************************************************************)
EXTENDS EvtOutputQueue

CONSTANTS Nodes, NodeOf,   \* event nodes, and the one each output drives
          Values,
          ValueOf,         \* ValueOf[o][delay]: the value o is posted with, by delay
          Saved,           \* nodes whose values are saved
          InitTime         \* the time from which they are

ASSUME NodeAssumption ==
  /\ NodeOf \in [Outputs -> Nodes]
  /\ ValueOf \in [Outputs -> [Time -> Values]]
  /\ Saved \subseteq Nodes /\ InitTime \in Nat

VARIABLES rhsold,         \* rhsold[o]: the value output o drives
          to_eval,        \* nodes with a changed output, not evaluated yet
          data,           \* data[n]: the values of node n from `head' to `tail'
          node_last,      \* node_last[n]: position of the entry `last_step' leads to
          node_modified   \* nodes evaluated since the last accepted timepoint

nodes == <<rhsold, to_eval, data, node_last, node_modified>>

LastOf(s) == s[Len(s)]

Driven(n) == {o \in Outputs : NodeOf[o] = n}

\* The value of an event.
ValueIn(o, e) == ValueOf[o][e.et - e.pt]

\* What EVTnode_copy copies.
NodeEntry(n) == [step |-> evt_step, val |-> [o \in Driven(n) |-> rhsold[o]]]

\* After the operating point: EVTop_save has made the first entry.
RoundInit ==
  /\ Init
  /\ rhsold \in [Outputs -> Values]
  /\ to_eval = {} /\ node_modified = {}
  /\ data = [n \in Nodes |-> <<NodeEntry(n)>>]
  /\ node_last = [n \in Nodes |-> 1]

\* EVTdequeue: an event whose value its output already has changes nothing.
Dequeue(time) ==
  /\ EventRound(time)
  /\ LET value(o) == ValueIn(o, list[o][current[o]])
         differ == {o \in changed' : value(o) # rhsold[o]} IN
       /\ rhsold' = [o \in Outputs |-> IF o \in differ THEN value(o) ELSE rhsold[o]]
       /\ to_eval' = {NodeOf[o] : o \in differ}
  /\ UNCHANGED <<data, node_last, node_modified>>

\* EVTiter puts the state of every node evaluated on its list.
EVTiter(t) ==
  /\ EndRound(t)
  /\ data' = [n \in Nodes |-> IF n \in to_eval THEN Append(data[n], NodeEntry(n))
                              ELSE data[n]]
  /\ node_modified' = node_modified \cup to_eval
  /\ to_eval' = {}
  /\ UNCHANGED <<rhsold, node_last>>

\* A node that is not saved, or not yet, keeps only its last value.
AcceptNodes ==
  /\ EVTaccept
  /\ LET keep == IF target >= InitTime THEN Saved ELSE {} IN
       /\ data' = [n \in Nodes |-> IF n \in node_modified \ keep THEN <<LastOf(data[n])>>
                                   ELSE data[n]]
       /\ node_last' = [n \in Nodes |-> IF n \in node_modified THEN Len(data'[n])
                                        ELSE node_last[n]]
  /\ node_modified' = {}
  /\ UNCHANGED <<rhsold, to_eval>>

\* A mutant: a value of new_time itself is cut off.
NodeCutAt(n, new_time) ==
  CHOOSE p \in node_last[n] .. Len(data[n]) :
    /\ p = Len(data[n]) \/ data[n][p + 1].step >= new_time
    /\ \A q \in node_last[n] .. p - 1 : data[n][q + 1].step < new_time

\* The position of the last entry kept: from the one at `last_step' on, the
\* first whose next is later than new_time.
NodeCut(n, new_time) ==
  CHOOSE p \in node_last[n] .. Len(data[n]) :
    /\ p = Len(data[n]) \/ data[n][p + 1].step > new_time
    /\ \A q \in node_last[n] .. p - 1 : data[n][q + 1].step <= new_time

\* A mutant: back to the accepted values, whatever came between.
BackupToAccepted(new_time) ==
  /\ Backup(new_time)
  /\ data' = [n \in Nodes |-> IF n \in node_modified
                              THEN SubSeq(data[n], 1, NodeCut(n, new_time)) ELSE data[n]]
  /\ rhsold' = [o \in Outputs |-> IF NodeOf[o] \in node_modified
                                  THEN data[NodeOf[o]][node_last[NodeOf[o]]].val[o]
                                  ELSE rhsold[o]]
  /\ node_modified' = {n \in node_modified : Len(data'[n]) > node_last[n]}
  /\ UNCHANGED <<to_eval, node_last>>

EVTbackup(new_time) ==
  /\ Backup(new_time)
  /\ data' = [n \in Nodes |-> IF n \in node_modified
                              THEN SubSeq(data[n], 1, NodeCut(n, new_time)) ELSE data[n]]
  /\ rhsold' = [o \in Outputs |-> IF NodeOf[o] \in node_modified
                                  THEN LastOf(data'[NodeOf[o]]).val[o] ELSE rhsold[o]]
  /\ node_modified' = {n \in node_modified : Len(data'[n]) > node_last[n]}
  /\ UNCHANGED <<to_eval, node_last>>

RoundNext ==
  \/ \E o \in Outputs : \E d \in Delays[o] : Post(o, d) /\ to_eval = {} /\ UNCHANGED nodes
  \/ \E t \in Time : \/ Dequeue(t) \/ EVTiter(t) \/ EVTbackup(t)
                     \/ StartStep(t) /\ UNCHANGED nodes
  \/ Solve /\ UNCHANGED nodes
  \/ AcceptNodes

RoundSpec == RoundInit /\ [][RoundNext]_<<vars, nodes>>

-----------------------------------------------------------------------------
(* Properties.                                                              *)

\* The state has the shape the code's types give it.
RoundTypeOK ==
  /\ TypeOK
  /\ rhsold \in [Outputs -> Values]
  /\ to_eval \subseteq Nodes /\ node_modified \subseteq Nodes
  /\ \A n \in Nodes :
       /\ data[n] \in Seq([step : Time, val : [Driven(n) -> Values]])
       /\ node_last[n] \in 1 .. Len(data[n])

\* Events of o delivered since the last accepted timepoint.
Delivered(o) ==
  At(list[o], {n \in last_step[o] .. current[o] - 1 : NotRemoved(list[o][n])})

\* The queue and the nodes, each rolled back by its own rule, agree: an output
\* drives the value of the last event delivered in this step or, with none, the
\* value it had at the last accepted timepoint.
NodesFollowQueue ==
  misled = {} =>
    \A o \in Outputs :
      rhsold[o] = IF Delivered(o) # <<>> THEN ValueIn(o, LastOf(Delivered(o)))
                  ELSE data[NodeOf[o]][node_last[NodeOf[o]]].val[o]

\* The lists of node values are the abstract record of them, as long as no
\* backup has left `current' at a removed event: delivering that one can take
\* the event time backwards.
NodeRecord ==
  INSTANCE EvtRecord WITH
    Keys <- Nodes, Values <- UNION {[Driven(n) -> Values] : n \in Nodes},
    MaxTime <- MaxTime, record <- data, clock <- evt_step, base <- last_time

NodeRecordSpec ==
  NodeRecord!Init /\ [][misled = {} => NodeRecord!Next]_<<data, evt_step, last_time>>
=============================================================================
