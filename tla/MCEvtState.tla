----------------------------- MODULE MCEvtState -----------------------------
(* Instances of EvtState: no block is different from another.               *)
EXTENDS EvtState, TLC

AnyBlock == Permutations(Blocks)
=============================================================================
