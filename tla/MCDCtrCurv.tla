----------------------------- MODULE MCDCtrCurv -----------------------------
(* Instances of DCtrCurv: a circuit, sweeps and option settings.            *)
EXTENDS DCtrCurv, TLC

CONSTANTS h1, h2, e, na, nb

\* Two hybrids drive one node; an event-driven instance reads it and drives
\* another, which the first hybrid reads.
MCHybrids == <<h1, h2>>
MCNodeOf == (h1 :> na) @@ (h2 :> na) @@ (e :> nb)
MCReads == (h1 :> {nb}) @@ (h2 :> {}) @@ (e :> {na})
WiredOr(vs) == IF \E i \in DOMAIN vs : vs[i] = 1 THEN 1 ELSE 0

\* One sweep up, with a stop value it does not hit, in another one down.
TwoStart == <<0, 3>>
TwoStop == <<3, 1>>
TwoStep == <<2, -2>>
TwoGiven == <<5, 7>>

\* Up through three values.
OneStart == <<0>>
OneStop == <<2>>
OneStep == <<1>>
OneGiven == <<5>>

\* A temperature within what is swept.
Within == <<1>>

Setting == [noOpIter |-> FALSE, numGminSteps |-> 1, numSrcSteps |-> 1,
            dyngmin |-> FALSE, optran |-> FALSE]

\* The defaults, and stepping as in spice3 with the transient analysis last.
MCOptions == {Setting,
              [Setting EXCEPT !.noOpIter = TRUE, !.numGminSteps = 2, !.numSrcSteps = 2,
                              !.optran = TRUE]}

Defaults == {Setting}
=============================================================================
