-------------------------- MODULE MCEvtOutputQueue --------------------------
(* Instances of EvtOutputQueue: what delays each output may use.            *)
EXTENDS EvtOutputQueue, TLC

CONSTANTS o1, o2

\* The first output rises slowly and falls fast, or the other way round; the
\* second always has the same delay.
TwoDelays == (o1 :> {1, 3}) @@ (o2 :> {2})
=============================================================================
