------------------------------ MODULE MCDCosim ------------------------------
(* The instance of DCosim for TLC: its outputs are interchangeable.          *)
EXTENDS DCosim, TLC

OutSymmetry == Permutations(Outs)
=============================================================================
