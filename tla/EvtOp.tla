-------------------------------- MODULE EvtOp --------------------------------
(***************************************************************************)
(* The operating point of a circuit with event-driven instances: EVTop      *)
(* (evtop.c), which alternates EVTiter (evtiter.c) and the analog solution  *)
(* until no output changes, EVTcall_hybrids (evtcall_hybrids.c), and        *)
(* EVTload with EVTprocess_output (evtload.c) in a DC analysis, where an    *)
(* output takes its value at once.                                          *)
(*                                                                          *)
(* Every instance has one output.  Code models are the environment: a call  *)
(* may put any value there.                                                 *)
(***************************************************************************)
EXTENDS CKTop, Sequences, FiniteSets

CONSTANTS Insts,      \* event-driven and hybrid instances
          Hybrids,    \* those with analog ports too, a sequence
          Nodes,
          NodeOf,     \* NodeOf[i]: the node the output of i drives
          Reads,      \* Reads[i]: the nodes i has inputs from
          Values, Fresh,        \* Fresh: the value a node has when it is created
          Resolve(_),           \* Resolve(vs): the value of a node driven with vs
          OpAlternate,          \* options.op_alternate
          MaxPasses,            \* limits.max_event_passes
          MaxAlternations,      \* limits.max_op_alternations
          NoTime                \* 1e30, past all times

ASSUME EvtOpAssumption ==
  /\ NodeOf \in [Insts -> Nodes] /\ Reads \in [Insts -> SUBSET Nodes]
  /\ Hybrids \in Seq(Insts)
  /\ \A is \in SUBSET Insts : \A vs \in [is -> Values] : Resolve(vs) \in Values
  /\ Fresh \in Values /\ OpAlternate \in BOOLEAN
  /\ MaxPasses \in Nat \ {0} /\ MaxAlternations \in Nat \ {0}
  /\ NoTime \in Int

VARIABLES out,        \* rhsold: the value each instance drives
          node,       \* rhsold: the value of each node
          changed,    \* instances whose output has changed
          to_call,
          passes, firstime, hyb,   \* EVTiter's passes, EVTop's firstime, next hybrid
          alternations,            \* statistics: op_alternations, up to the limit
          CKTtime,
          brk,        \* g_mif_info.breakpoint.current
          stale       \* history: instances whose inputs have changed since their call

events == <<out, node, changed, to_call, passes, firstime, hyb, alternations, stale>>
evtvars == <<opvars, events, CKTtime, brk>>

Drivers(n) == {i \in Insts : NodeOf[i] = n}

Shared(n) == Cardinality(Drivers(n)) > 1

Readers(ns) == {i \in Insts : Reads[i] \cap ns # {}}

HybridSet == {Hybrids[n] : n \in 1 .. Len(Hybrids)}

-----------------------------------------------------------------------------
(* EVTload: an output alone on its node changes the node as well.           *)

EVTprocess_output(i, v) ==
  /\ out' = [out EXCEPT ![i] = v]
  /\ changed' = IF v = out[i] THEN changed ELSE changed \cup {i}
  /\ IF Shared(NodeOf[i]) \/ v = out[i]
     THEN node' = node /\ stale' = stale \ {i}
     ELSE /\ node' = [node EXCEPT ![NodeOf[i]] = v]
          /\ stale' = (stale \ {i}) \cup Readers({NodeOf[i]})

-----------------------------------------------------------------------------
(* EVTiter.                                                                 *)

\* The value of node n, resolved if it has several drivers.
NodeValue(n) ==
  IF Shared(n) THEN Resolve([i \in Drivers(n) |-> out[i]]) ELSE node[n]

\* A pass begins: nodes with a changed output are resolved; the instances that
\* read one of a new value are to be called.  One with a single driver has it.
EvalNodes ==
  LET eval == {NodeOf[i] : i \in changed}
      differ == {n \in eval : ~ Shared(n) \/ NodeValue(n) # node[n]}
  IN
  /\ at = "eval"
  /\ changed' = {}
  /\ node' = [n \in Nodes |-> IF n \in differ THEN NodeValue(n) ELSE node[n]]
  /\ stale' = stale \cup Readers({n \in differ : Shared(n)})
  /\ to_call' = to_call \cup Readers(differ)
  /\ at' = "call"
  /\ UNCHANGED <<out, passes, firstime, hyb, alternations>>

EVTload(i, v) ==
  /\ at = "call" /\ i \in to_call
  /\ to_call' = to_call \ {i}
  /\ EVTprocess_output(i, v)
  /\ UNCHANGED <<at, passes, firstime, hyb, alternations>>

\* A pass ends: done when no output has changed, an error after too many.
EndPass ==
  /\ at = "call" /\ to_call = {}
  /\ at' = IF changed = {} THEN "analog"
           ELSE IF passes + 1 < MaxPasses THEN "eval" ELSE "failed"
  /\ passes' = IF changed = {} THEN 0 ELSE passes + 1
  /\ UNCHANGED <<out, node, changed, to_call, firstime, hyb, alternations, stale>>

-----------------------------------------------------------------------------
(* EVTop.                                                                   *)

\* The first analog solution is by CKTop, a later one only if NIiter fails.
FirstAnalog ==
  /\ at = "analog" /\ firstime
  /\ firstime' = FALSE
  /\ Call
  /\ UNCHANGED <<out, node, changed, to_call, passes, hyb, alternations, stale>>

NextAnalog(o) ==
  /\ at = "analog" /\ ~ firstime
  /\ IF o = "fail" THEN Call /\ UNCHANGED <<hyb, stale>>
     ELSE /\ Goto("hybrids", NoLocals) /\ Solves(o) /\ UNCHANGED knobs
          /\ hyb' = 1 /\ stale' = stale \cup HybridSet
  /\ UNCHANGED <<out, node, changed, to_call, passes, firstime, alternations>>

OpReturned ==
  /\ at = "returned"
  /\ IF result = "ok"
     THEN at' = "hybrids" /\ hyb' = 1 /\ stale' = stale \cup HybridSet
     ELSE at' = "failed" /\ UNCHANGED <<hyb, stale>>
  /\ UNCHANGED <<out, node, changed, to_call, passes, firstime, alternations>>

\* A mutant: only the first hybrid is called.
CallOneHybrid(v) ==
  /\ at \in {"hybrids", "quick"} /\ hyb <= Len(Hybrids)
  /\ EVTprocess_output(Hybrids[hyb], v)
  /\ hyb' = Len(Hybrids) + 1
  /\ UNCHANGED <<at, to_call, passes, firstime, alternations>>

\* EVTcall_hybrids: one after the other, until one has rejected the timestep.
CallHybrid(v) ==
  /\ at \in {"hybrids", "quick"} /\ hyb <= Len(Hybrids)
  /\ EVTprocess_output(Hybrids[hyb], v)
  /\ hyb' = IF brk < CKTtime THEN Len(Hybrids) + 1 ELSE hyb + 1
  /\ UNCHANGED <<at, to_call, passes, firstime, alternations>>

\* Once more if a hybrid has changed its output, unless that was too often.
Alternate ==
  /\ at = "hybrids" /\ hyb > Len(Hybrids)
  /\ alternations' = Least(alternations + 1, MaxAlternations)
  /\ at' = IF ~ OpAlternate \/ changed = {} THEN "solved"
           ELSE IF alternations' = MaxAlternations THEN "failed"
           ELSE "eval"
  /\ passes' = 0
  /\ UNCHANGED <<out, node, changed, to_call, firstime, hyb, stale>>

EvtOpStep ==
  /\ \/ \E v \in Values : (\E i \in Insts : EVTload(i, v)) \/ CallHybrid(v)
     \/ EvalNodes \/ EndPass \/ OpReturned \/ Alternate
  /\ UNCHANGED <<opt, knobs, loc, result, solved, CKTtime, brk>>

AnalogStep ==
  /\ FirstAnalog \/ \E o \in Outcome : NextAnalog(o)
  /\ UNCHANGED <<opt, CKTtime, brk>>

\* CKTop and its methods; a transient analysis leaves no breakpoint behind.
CKTopStep ==
  /\ OpStep
  /\ brk' = IF at = "optran" THEN NoTime ELSE brk
  /\ UNCHANGED <<events, CKTtime>>

-----------------------------------------------------------------------------
(* Properties.                                                              *)

\* The state has the shape the code's types give it.
EvtOpTypeOK ==
  /\ out \in [Insts -> Values] /\ node \in [Nodes -> Values]
  /\ changed \subseteq Insts /\ to_call \subseteq Insts /\ stale \subseteq Insts
  /\ passes \in 0 .. MaxPasses /\ hyb \in 1 .. Len(Hybrids) + 1
  /\ alternations \in 0 .. MaxAlternations /\ firstime \in BOOLEAN

\* A point that is solved is settled: every instance has been called with what
\* its inputs are now, and no change of an output is left over.
Settled == at = "solved" /\ OpAlternate => stale = {} /\ changed = {}
=============================================================================
