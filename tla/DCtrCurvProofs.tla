--------------------------- MODULE DCtrCurvProofs ---------------------------
(***************************************************************************)
(* Proofs about the operating point and the DC sweep: an operating point    *)
(* that is returned is one of the circuit as it is, and a point of the      *)
(* sweep is settled; all points are put out, in order, and the sources put  *)
(* back.                                                                    *)
(***************************************************************************)
EXTENDS DCtrCurv, NatLemmas

-----------------------------------------------------------------------------
(* CKTop.                                                                   *)

Limit == Most(Gmin, Gshunt)

Low(c) == c \in Nat /\ c <= Limit

\* Where CKTdiagGmin is high.
GminStepping == {"dynamic_gmin", "spice3_gmin", "zero_gmin"}

\* What the methods need of each other.
OpInv ==
  /\ opt \in Options
  /\ SourcesWhole
  /\ at # "new_gmin" => gmin \in {Gmin, Limit}
  /\ at = "new_gmin" => loc.start \in {Gmin, Limit}
  /\ at \notin GminStepping => Low(diag)
  /\ at = "raise" => loc.conv # Whole
  /\ at = "spice3_src" => /\ opt.numSrcSteps > 0 /\ loc.i \in Nat
                          /\ srcFact = (loc.i * Whole) \div opt.numSrcSteps
  /\ SolvesTheCircuit

LEMMA Conductances ==
  /\ Gmin \in Nat /\ Gshunt \in Nat /\ Whole \in Nat \ {0}
  /\ Limit \in Nat /\ Gmin <= Limit /\ Gshunt <= Limit /\ Low(Gmin) /\ Low(Gshunt)
  /\ \A c \in {Gmin, Limit} : Low(c) /\ Most(c, Gshunt) = Limit
BY OpAssumption DEF Limit, Low, Most

LEMMA WholeSteps ==
  ASSUME NEW n \in Nat, n > 0, NEW w \in Nat
  PROVE  (n * w) \div n = w /\ (0 * w) \div n = 0
OBVIOUS

\* The next method may be started wherever the sources are whole and the
\* conductances low.
LEMMA StartOptranKeeps ==
  ASSUME opt \in Options, opt' = opt, srcFact' = Whole, gmin' \in {Gmin, Limit},
         Low(diag'), StartOptran
  PROVE  OpInv'
<1>1. at' = "optran" \/ (at' = "returned" /\ result' = "fail")
  BY DEF StartOptran, Goto, Return
<1> QED BY <1>1 DEF OpInv, SourcesWhole, SourceStepping, SolvesTheCircuit, GminStepping, Low

LEMMA StartSrcKeeps ==
  ASSUME opt \in Options, opt' = opt, srcFact = Whole, gmin' \in {Gmin, Limit},
         Low(diag'), StartSrc
  PROVE  OpInv'
<1>1. opt.numSrcSteps \in Nat
  BY OpAssumption
<1>2. CASE opt.numSrcSteps = 0
  BY <1>2, StartOptranKeeps DEF StartSrc
<1>3. CASE opt.numSrcSteps = 1
  <2>1. at' = "zero" /\ srcFact' = 0
    BY <1>3 DEF StartSrc, Goto
  <2> QED BY <2>1 DEF OpInv, SourcesWhole, SourceStepping, SolvesTheCircuit, GminStepping, Low
<1>4. CASE opt.numSrcSteps > 1
  <2>1. at' = "spice3_src" /\ srcFact' = 0 /\ loc' = [i |-> 0]
    BY <1>1, <1>4 DEF StartSrc, Goto
  <2>2. loc'.i = 0 /\ srcFact' = (loc'.i * Whole) \div opt'.numSrcSteps
    BY <1>1, <1>4, <2>1, WholeSteps, Conductances
  <2> QED BY <1>1, <1>4, <2>1, <2>2
          DEF OpInv, SourcesWhole, SourceStepping, SolvesTheCircuit, GminStepping, Low
<1> QED BY <1>1, <1>2, <1>3, <1>4

LEMMA StartGminKeeps ==
  ASSUME opt \in Options, opt' = opt, srcFact = Whole, gmin \in {Gmin, Limit},
         Low(diag), StartGmin
  PROVE  OpInv'
<1>1. CASE opt.numGminSteps = 0
  BY <1>1, StartSrcKeeps DEF StartGmin
<1>2. CASE opt.numGminSteps # 0
  <2>1. gmin' = gmin /\ srcFact' = srcFact /\ at' \in {"dynamic_gmin", "spice3_gmin"}
    BY <1>2 DEF StartGmin, Goto
  <2> QED BY <2>1 DEF OpInv, SourcesWhole, SourceStepping, SolvesTheCircuit, GminStepping, Low
<1> QED BY <1>1, <1>2

LEMMA CallKeeps ==
  ASSUME OpInv, opt' = opt, at = "analog", Call PROVE OpInv'
<1>1. opt \in Options /\ srcFact = Whole /\ gmin \in {Gmin, Limit} /\ Low(diag)
  BY DEF OpInv, SourcesWhole, SourceStepping, GminStepping
<1>2. CASE opt.noOpIter
  BY <1>1, <1>2, StartGminKeeps DEF Call
<1>3. CASE ~ opt.noOpIter
  <2>1. at' = "direct" /\ UNCHANGED knobs
    BY <1>3 DEF Call, Goto
  <2> QED BY <1>1, <2>1
          DEF knobs, OpInv, SourcesWhole, SourceStepping, SolvesTheCircuit, GminStepping, Low
<1> QED BY <1>2, <1>3

\* A method that has found the solution returns it.
LEMMA ReturnKeeps ==
  ASSUME opt \in Options, opt' = opt, srcFact' = Whole, gmin' \in {Gmin, Limit},
         Low(diag'), Return("ok"), NEW d, Low(d),
         solved' = [gmin |-> gmin', diag |-> d, srcFact |-> Whole]
  PROVE  OpInv'
<1>1. at' = "returned"
  BY DEF Return
<1>2. Low(gmin') /\ Limit \in Nat
  BY Conductances
<1>3. SolvesTheCircuit'
  BY <1>2 DEF SolvesTheCircuit, Low, Limit
<1> QED BY <1>1, <1>3 DEF OpInv, SourcesWhole, SourceStepping, GminStepping

LEMMA DirectKeeps ==
  ASSUME OpInv, opt' = opt, NEW o \in Outcome, Direct(o) PROVE OpInv'
<1>1. at = "direct" /\ Solves(o)
  BY DEF Direct
<1>2. opt \in Options /\ srcFact = Whole /\ gmin \in {Gmin, Limit} /\ Low(diag)
  BY <1>1 DEF OpInv, SourcesWhole, SourceStepping, GminStepping
<1>3. CASE o = "fail"
  BY <1>2, <1>3, StartGminKeeps DEF Direct
<1>4. CASE o # "fail"
  BY <1>1, <1>2, <1>4, ReturnKeeps DEF Direct, Solves, knobs
<1> QED BY <1>3, <1>4

LEMMA DynamicGminKeeps ==
  ASSUME OpInv, opt' = opt, NEW o \in Outcome, DynamicGmin(o) PROVE OpInv'
<1>1. /\ at = "dynamic_gmin" /\ gmin' = gmin /\ srcFact' = srcFact
      /\ \/ at' = "dynamic_last" /\ diag' = Gshunt
         \/ at' = "dynamic_gmin"
  BY DEF DynamicGmin, Goto
<1>2. opt \in Options /\ srcFact = Whole /\ gmin \in {Gmin, Limit}
  BY <1>1 DEF OpInv, SourcesWhole, SourceStepping
<1>3. Low(Gshunt)
  BY Conductances
<1> QED BY <1>1, <1>2, <1>3
        DEF OpInv, SourcesWhole, SourceStepping, SolvesTheCircuit, GminStepping, Low

LEMMA DynamicLastKeeps ==
  ASSUME OpInv, opt' = opt, NEW o \in Outcome, DynamicLast(o) PROVE OpInv'
<1>1. at = "dynamic_last" /\ Solves(o)
  BY DEF DynamicLast
<1>2. opt \in Options /\ srcFact = Whole /\ gmin \in {Gmin, Limit} /\ Low(diag)
  BY <1>1 DEF OpInv, SourcesWhole, SourceStepping, GminStepping
<1>3. CASE o # "fail"
  BY <1>1, <1>2, <1>3, ReturnKeeps DEF DynamicLast, Solves, knobs
<1>4. CASE o = "fail" /\ opt.dyngmin
  BY <1>2, <1>4, StartSrcKeeps DEF DynamicLast
<1>5. CASE o = "fail" /\ ~ opt.dyngmin
  <2>1. /\ at' = "new_gmin" /\ loc'.start = gmin /\ UNCHANGED <<diag, srcFact>>
    BY <1>5 DEF DynamicLast, Goto
  <2> QED BY <1>2, <2>1
          DEF OpInv, SourcesWhole, SourceStepping, SolvesTheCircuit, GminStepping, Low
<1> QED BY <1>3, <1>4, <1>5

LEMMA NewGminKeeps ==
  ASSUME OpInv, opt' = opt, NEW o \in Outcome, NewGmin(o) PROVE OpInv'
<1>1. at = "new_gmin" /\ UNCHANGED <<diag, srcFact>>
  BY DEF NewGmin
<1>2. opt \in Options /\ srcFact = Whole /\ Low(diag)
      /\ loc.start \in {Gmin, Limit} /\ Most(loc.start, Gshunt) = Limit
  BY <1>1, Conductances DEF OpInv, SourcesWhole, SourceStepping, GminStepping
<1>3. \/ at' = "gmin_last" /\ gmin' = Limit
      \/ at' = "new_gmin" /\ loc'.start = loc.start
  BY <1>2 DEF NewGmin, Goto
<1> QED BY <1>1, <1>2, <1>3
        DEF OpInv, SourcesWhole, SourceStepping, SolvesTheCircuit, GminStepping, Low

LEMMA EqualGminKeeps ==
  ASSUME OpInv, opt' = opt, NEW o \in Outcome, Spice3Gmin(o) PROVE OpInv'
<1>1. /\ at = "spice3_gmin" /\ gmin' = gmin /\ srcFact' = srcFact
      /\ \/ at' = "gmin_last" /\ diag' = Gshunt
         \/ at' = "spice3_gmin"
  BY DEF Spice3Gmin, Goto
<1>2. opt \in Options /\ srcFact = Whole /\ gmin \in {Gmin, Limit}
  BY <1>1 DEF OpInv, SourcesWhole, SourceStepping
<1>3. Low(Gshunt)
  BY Conductances
<1> QED BY <1>1, <1>2, <1>3
        DEF OpInv, SourcesWhole, SourceStepping, SolvesTheCircuit, GminStepping, Low

LEMMA GminLastKeeps ==
  ASSUME OpInv, opt' = opt, NEW o \in Outcome, GminLast(o) PROVE OpInv'
<1>1. at = "gmin_last" /\ Solves(o)
  BY DEF GminLast
<1>2. opt \in Options /\ srcFact = Whole /\ gmin \in {Gmin, Limit} /\ Low(diag)
  BY <1>1 DEF OpInv, SourcesWhole, SourceStepping, GminStepping
<1>3. CASE o # "fail"
  BY <1>1, <1>2, <1>3, ReturnKeeps DEF GminLast, Solves, knobs
<1>4. CASE o = "fail"
  BY <1>2, <1>4, StartSrcKeeps DEF GminLast
<1> QED BY <1>3, <1>4

\* The sources begin to rise from zero.
LEMMA StartRaiseKeeps ==
  ASSUME opt \in Options, opt' = opt, gmin' \in {Gmin, Limit}, Low(diag'), StartRaise
  PROVE  OpInv'
<1>1. at' = "raise" /\ loc'.conv = 0
  BY DEF StartRaise, Goto
<1>2. 0 # Whole
  BY Conductances
<1> QED BY <1>1, <1>2
        DEF OpInv, SourcesWhole, SourceStepping, SolvesTheCircuit, GminStepping, Low

LEMMA ZeroKeeps ==
  ASSUME OpInv, opt' = opt, NEW o \in Outcome, Zero(o) PROVE OpInv'
<1>1. at = "zero" /\ gmin' = gmin
  BY DEF Zero
<1>2. opt \in Options /\ gmin \in {Gmin, Limit} /\ Low(diag)
  BY <1>1 DEF OpInv, GminStepping
<1>3. CASE o # "fail"
  BY <1>1, <1>2, <1>3, StartRaiseKeeps DEF Zero
<1>4. CASE o = "fail"
  <2>1. at' = "zero_gmin"
    BY <1>4 DEF Zero, Goto
  <2> QED BY <1>1, <1>2, <2>1
          DEF OpInv, SourcesWhole, SourceStepping, SolvesTheCircuit, GminStepping, Low
<1> QED BY <1>3, <1>4

LEMMA ZeroGminKeeps ==
  ASSUME OpInv, opt' = opt, NEW o \in Outcome, ZeroGmin(o) PROVE OpInv'
<1>1. at = "zero_gmin" /\ gmin' = gmin
  BY DEF ZeroGmin
<1>2. opt \in Options /\ gmin \in {Gmin, Limit} /\ Low(Gshunt)
  BY <1>1, Conductances DEF OpInv
<1>3. CASE o = "fail"
  BY <1>1, <1>2, <1>3, StartOptranKeeps DEF ZeroGmin, ZeroFails
<1>4. CASE o # "fail" /\ loc.i = Ten
  BY <1>1, <1>2, <1>4, StartRaiseKeeps DEF ZeroGmin
<1>5. CASE o # "fail" /\ loc.i # Ten
  <2>1. at' = "zero_gmin"
    BY <1>5 DEF ZeroGmin, Goto
  <2> QED BY <1>1, <1>2, <2>1
          DEF OpInv, SourcesWhole, SourceStepping, SolvesTheCircuit, GminStepping, Low
<1> QED BY <1>3, <1>4, <1>5

LEMMA RaiseSourcesKeeps ==
  ASSUME OpInv, opt' = opt, NEW o \in Outcome, RaiseSources(o) PROVE OpInv'
<1> DEFINE r == Raised(o)
<1>1. at = "raise" /\ gmin' = gmin /\ Solves(o)
  BY DEF RaiseSources
<1>2. opt \in Options /\ gmin \in {Gmin, Limit} /\ Low(diag) /\ loc.conv # Whole
      /\ Low(gmin)
  BY <1>1, Conductances DEF OpInv, GminStepping
<1>3. r.conv = IF o = "fail" THEN loc.conv ELSE srcFact
  BY DEF Raised
<1> HIDE DEF r
<1>4. CASE r.conv = Whole
  <2>1. o # "fail" /\ srcFact = Whole
    BY <1>2, <1>3, <1>4
  <2>2. diag' = gmin /\ srcFact' = Whole /\ Return("ok")
    BY <1>4 DEF RaiseSources, r
  <2>3. solved' = [gmin |-> gmin', diag |-> diag, srcFact |-> Whole]
    BY <1>1, <2>1 DEF Solves
  <2> QED BY <1>1, <1>2, <2>2, <2>3, ReturnKeeps
<1>5. CASE /\ r.conv # Whole
           /\ diag' = gmin /\ srcFact' = Whole /\ StartOptran
  BY <1>1, <1>2, <1>5, StartOptranKeeps
<1>6. CASE /\ r.conv # Whole
           /\ Goto("raise", [conv |-> r.conv, raise |-> r.raise]) /\ UNCHANGED diag
  <2>1. at' = "raise" /\ loc'.conv = r.conv
    BY <1>6 DEF Goto
  <2> QED BY <1>1, <1>2, <1>6, <2>1
          DEF OpInv, SourcesWhole, SourceStepping, SolvesTheCircuit, GminStepping, Low
<1>7. r.conv # Whole =>
        \/ diag' = gmin /\ srcFact' = Whole /\ StartOptran
        \/ Goto("raise", [conv |-> r.conv, raise |-> r.raise]) /\ UNCHANGED diag
  BY DEF RaiseSources, r
<1> QED BY <1>4, <1>5, <1>6, <1>7

LEMMA EqualSrcKeeps ==
  ASSUME OpInv, opt' = opt, NEW o \in Outcome, Spice3Src(o) PROVE OpInv'
<1>1. at = "spice3_src" /\ UNCHANGED <<gmin, diag>> /\ Solves(o)
  BY DEF Spice3Src
<1>2. /\ opt \in Options /\ gmin \in {Gmin, Limit} /\ Low(diag)
      /\ opt.numSrcSteps > 0 /\ loc.i \in Nat
      /\ srcFact = (loc.i * Whole) \div opt.numSrcSteps
  BY <1>1 DEF OpInv, GminStepping
<1>3. opt.numSrcSteps \in Nat
  BY <1>2, OpAssumption
<1>4. CASE o = "fail"
  BY <1>1, <1>2, <1>4, StartOptranKeeps DEF Spice3Src
<1>5. CASE o # "fail" /\ loc.i = opt.numSrcSteps
  <2>1. srcFact = Whole
    BY <1>2, <1>3, <1>5, WholeSteps, Conductances
  <2>2. srcFact' = Whole /\ Return("ok")
    BY <1>5 DEF Spice3Src
  <2>3. solved' = [gmin |-> gmin', diag |-> diag, srcFact |-> Whole]
    BY <1>1, <1>5, <2>1 DEF Solves
  <2> QED BY <1>1, <1>2, <2>2, <2>3, ReturnKeeps
<1>6. CASE o # "fail" /\ loc.i # opt.numSrcSteps
  <2>1. at' = "spice3_src" /\ loc'.i = loc.i + 1
        /\ srcFact' = ((loc.i + 1) * Whole) \div opt.numSrcSteps
    BY <1>6 DEF Spice3Src, Goto
  <2>2. loc'.i \in Nat /\ srcFact' = (loc'.i * Whole) \div opt'.numSrcSteps
    BY <1>2, <2>1
  <2> QED BY <1>1, <1>2, <2>1, <2>2
          DEF OpInv, SourcesWhole, SourceStepping, SolvesTheCircuit, GminStepping, Low
<1> QED BY <1>4, <1>5, <1>6

LEMMA OPtranKeeps ==
  ASSUME OpInv, opt' = opt, NEW o \in Outcome, OPtran(o) PROVE OpInv'
<1>1. at = "optran" /\ UNCHANGED knobs /\ Solves(o)
  BY DEF OPtran
<1>2. opt \in Options /\ srcFact = Whole /\ gmin \in {Gmin, Limit} /\ Low(diag)
  BY <1>1 DEF OpInv, SourcesWhole, SourceStepping, GminStepping
<1>3. CASE o # "fail"
  BY <1>1, <1>2, <1>3, ReturnKeeps DEF OPtran, Solves, knobs
<1>4. CASE o = "fail"
  <2>1. at' = "returned" /\ result' = "fail"
    BY <1>4 DEF OPtran, Return
  <2> QED BY <1>1, <1>2, <2>1
          DEF knobs, OpInv, SourcesWhole, SourceStepping, SolvesTheCircuit, GminStepping, Low
<1> QED BY <1>3, <1>4

LEMMA OpStepKeeps ==
  ASSUME OpInv, OpStep PROVE OpInv'
BY DirectKeeps, DynamicGminKeeps, DynamicLastKeeps, NewGminKeeps, EqualGminKeeps,
   GminLastKeeps, ZeroKeeps, ZeroGminKeeps, RaiseSourcesKeeps, EqualSrcKeeps,
   OPtranKeeps DEF OpStep

-----------------------------------------------------------------------------
(* The sweep around it.                                                     *)

\* All other steps leave the circuit's settings alone.
LEMMA ElsewhereKeeps ==
  ASSUME OpInv, UNCHANGED <<opt, diag, srcFact>>,
         gmin' = gmin \/ gmin' = Gmin,
         at \in {"idle", "test", "eval", "call", "analog", "hybrids", "returned", "solved",
                 "quick", "failed"},
         at' \in {"idle", "test", "eval", "call", "analog", "hybrids", "solved",
                  "quick", "failed"}
  PROVE  OpInv'
<1>1. opt \in Options /\ srcFact = Whole /\ gmin \in {Gmin, Limit} /\ Low(diag)
  BY DEF OpInv, SourcesWhole, SourceStepping, GminStepping
<1> QED BY <1>1 DEF OpInv, SourcesWhole, SourceStepping, SolvesTheCircuit, GminStepping, Low

LEMMA DCNextKeeps ==
  ASSUME OpInv, [DCNext]_allvars PROVE OpInv'
<1>1. CASE Run
  BY <1>1, ElsewhereKeeps DEF Run
<1>2. CASE Resume
  BY <1>2, ElsewhereKeeps DEF Resume
<1>3. CASE LevelDone
  BY <1>3, ElsewhereKeeps DEF LevelDone, Advance, knobs
<1>4. CASE FirstPoint
  BY <1>4, ElsewhereKeeps DEF FirstPoint, knobs
<1>5. CASE QuickDone
  BY <1>5, ElsewhereKeeps DEF QuickDone, knobs
<1>6. CASE Dump
  BY <1>6, ElsewhereKeeps DEF Dump, Advance, knobs
<1>7. CASE Fail
  BY <1>7, ElsewhereKeeps DEF Fail, knobs
<1>8. CASE \E o \in Outcome : NextPoint(o)
  BY <1>8, ElsewhereKeeps DEF NextPoint, knobs
<1>9. CASE EvtOpStep
  <2>1. /\ at \in {"eval", "call", "hybrids", "returned", "quick"}
        /\ at' \in {"eval", "call", "analog", "hybrids", "solved", "quick", "failed"}
    <3>1. CASE \E v \in Values : (\E i \in Insts : EVTload(i, v)) \/ CallHybrid(v)
      BY <3>1 DEF EVTload, CallHybrid
    <3>2. CASE EvalNodes \/ EndPass \/ OpReturned \/ Alternate
      BY <3>2 DEF EvalNodes, EndPass, OpReturned, Alternate
    <3> QED BY <1>9, <3>1, <3>2 DEF EvtOpStep
  <2> QED BY <1>9, <2>1, ElsewhereKeeps DEF EvtOpStep, knobs
<1>10. CASE AnalogStep
  <2>1. CASE Call /\ at = "analog"
    BY <1>10, <2>1, CallKeeps DEF AnalogStep
  <2>2. CASE at = "analog" /\ at' = "hybrids" /\ UNCHANGED knobs
    BY <1>10, <2>2, ElsewhereKeeps DEF AnalogStep, knobs
  <2> QED BY <1>10, <2>1, <2>2 DEF AnalogStep, FirstAnalog, NextAnalog, Goto
<1>11. CASE CKTopStep
  BY <1>11, OpStepKeeps DEF CKTopStep
<1>12. CASE UNCHANGED allvars
  BY <1>12 DEF allvars, evtvars, opvars, OpInv, SourcesWhole, SourceStepping,
               SolvesTheCircuit, GminStepping, Low
<1> QED BY <1>1, <1>2, <1>3, <1>4, <1>5, <1>6, <1>7, <1>8, <1>9, <1>10, <1>11, <1>12
        DEF DCNext, Internal

\* The inductive invariant of the operating point: every method starts from whole
\* sources and low conductances, whichever of those before it have failed.
THEOREM OpInvHolds == DCSpec => []OpInv
<1>1. DCInit => OpInv
  BY Conductances DEF DCInit, OpInv, SourcesWhole, SourceStepping, SolvesTheCircuit,
                      GminStepping, Low
<1>2. OpInv /\ [DCNext]_allvars => OpInv'
  BY DCNextKeeps
<1> QED BY <1>1, <1>2, PTL DEF DCSpec

\* CKTop leaves CKTsrcFact at 1 on every path out (SourcesWhole), for all settings
\* of the options and all behaviour of NIiter.
THEOREM OpSourcesWhole == DCSpec => []SourcesWhole
<1>1. OpInv => SourcesWhole
  BY DEF OpInv
<1> QED BY <1>1, OpInvHolds, PTL

\* An operating point that CKTop returns is one of the circuit as it is, without
\* the conductances and source factors of the stepping (SolvesTheCircuit).
THEOREM OpSolvesTheCircuit == DCSpec => []SolvesTheCircuit
<1>1. OpInv => SolvesTheCircuit
  BY DEF OpInv
<1> QED BY <1>1, OpInvHolds, PTL

-----------------------------------------------------------------------------
(* Event-driven instances.                                                  *)

\* The instances a changed output that is alone on its node is news for.
News(cs) == Readers({n \in Nodes : ~ Shared(n) /\ \E i \in cs : NodeOf[i] = n})

HybridsFrom(k) == {Hybrids[n] : n \in k .. Len(Hybrids)}

AnalogSteps == {"analog", "direct", "dynamic_gmin", "dynamic_last", "new_gmin",
                "spice3_gmin", "gmin_last", "zero", "zero_gmin", "raise", "spice3_src",
                "optran", "returned"}

\* An instance whose inputs are not what it was called with is about to be called,
\* or reads a node whose new value the next pass will find.
StaleInv ==
  /\ hyb \in Nat \ {0} /\ changed \subseteq Insts /\ stale \subseteq Insts
  /\ at \in AnalogSteps \cup {"idle", "test", "eval", "call", "hybrids", "quick",
                             "solved", "failed"}
  /\ at \in {"eval", "call"} => stale \subseteq to_call \cup News(changed)
  /\ at \in AnalogSteps => stale = {} /\ changed = {}
  /\ at \in {"hybrids", "quick"} => stale \subseteq HybridsFrom(hyb) \cup News(changed)
  /\ at = "solved" => stale = {} /\ changed = {}
  /\ at = "test" /\ ~ firstTime => stale = {} /\ changed = {}

LEMMA Hybrids1 == HybridSet = HybridsFrom(1) /\ HybridSet \subseteq Insts
<1>1. \A n \in 1 .. Len(Hybrids) : Hybrids[n] \in Insts
  BY EvtOpAssumption
<1> QED BY <1>1 DEF HybridSet, HybridsFrom

LEMMA HybridsOver ==
  ASSUME NEW k \in Nat, k > Len(Hybrids) PROVE HybridsFrom(k) = {}
<1>1. Len(Hybrids) \in Nat
  BY EvtOpAssumption
<1> QED BY <1>1 DEF HybridsFrom

LEMMA HybridsNext ==
  ASSUME NEW k \in Nat
  PROVE  HybridsFrom(k) \subseteq {Hybrids[k]} \cup HybridsFrom(k + 1)
<1>1. Len(Hybrids) \in Nat
  BY EvtOpAssumption
<1> QED BY <1>1 DEF HybridsFrom

LEMMA NoNews == News({}) = {}
BY DEF News, Readers

\* EVTprocess_output: who becomes stale hears of it.
LEMMA OutputNews ==
  ASSUME NEW i \in Insts, NEW v, changed \subseteq Insts, stale \subseteq Insts,
         EVTprocess_output(i, v)
  PROVE  /\ changed' \subseteq Insts /\ stale' \subseteq Insts
         /\ stale' \subseteq (stale \ {i}) \cup News(changed')
         /\ News(changed) \subseteq News(changed')
<1>1. changed \subseteq changed' /\ changed' \subseteq Insts
  BY DEF EVTprocess_output
<1>2. News(changed) \subseteq News(changed')
  BY <1>1 DEF News, Readers
<1>3. CASE Shared(NodeOf[i]) \/ v = out[i]
  BY <1>1, <1>2, <1>3 DEF EVTprocess_output
<1>4. CASE ~ (Shared(NodeOf[i]) \/ v = out[i])
  <2>1. changed' = changed \cup {i} /\ stale' = (stale \ {i}) \cup Readers({NodeOf[i]})
    BY <1>4 DEF EVTprocess_output
  <2>2. NodeOf[i] \in Nodes
    BY EvtOpAssumption
  <2>3. Readers({NodeOf[i]}) \subseteq News(changed')
    BY <1>4, <2>1, <2>2 DEF News, Readers
  <2>4. Readers({NodeOf[i]}) \subseteq Insts
    BY DEF Readers
  <2> QED BY <1>1, <1>2, <2>1, <2>3, <2>4
<1> QED BY <1>3, <1>4

LEMMA EvtStepStale ==
  ASSUME OpAlternate, StaleInv, ~ (brk < CKTtime), EvtOpStep, UNCHANGED dcvars
  PROVE  StaleInv'
<1>1. hyb \in Nat \ {0} /\ changed \subseteq Insts /\ stale \subseteq Insts
  BY DEF StaleInv
<1>2. ASSUME NEW v \in Values, NEW i \in Insts, EVTload(i, v) PROVE StaleInv'
  <2>1. /\ at = "call" /\ at' = "call" /\ to_call' = to_call \ {i} /\ hyb' = hyb
        /\ EVTprocess_output(i, v)
    BY <1>2 DEF EVTload
  <2>2. stale \subseteq to_call \cup News(changed)
    BY <2>1 DEF StaleInv
  <2>3. /\ changed' \subseteq Insts /\ stale' \subseteq Insts
        /\ stale' \subseteq (stale \ {i}) \cup News(changed')
        /\ News(changed) \subseteq News(changed')
    BY <1>1, <2>1, OutputNews
  <2>4. stale' \subseteq to_call' \cup News(changed')
    BY <2>1, <2>2, <2>3
  <2>5. stale' \subseteq to_call' \cup News(changed)'
    BY <2>4 DEF News
  <2> QED BY <1>1, <2>1, <2>3, <2>5 DEF StaleInv, AnalogSteps
<1>3. ASSUME NEW v \in Values, CallHybrid(v) PROVE StaleInv'
  <2>1. /\ at \in {"hybrids", "quick"} /\ at' = at /\ hyb <= Len(Hybrids)
        /\ hyb' = hyb + 1 /\ EVTprocess_output(Hybrids[hyb], v)
    BY <1>3 DEF CallHybrid
  <2>2. Len(Hybrids) \in Nat /\ Hybrids[hyb] \in Insts
    BY <1>1, <2>1, EvtOpAssumption
  <2>3. stale \subseteq HybridsFrom(hyb) \cup News(changed)
    BY <2>1 DEF StaleInv
  <2>4. /\ changed' \subseteq Insts /\ stale' \subseteq Insts
        /\ stale' \subseteq (stale \ {Hybrids[hyb]}) \cup News(changed')
        /\ News(changed) \subseteq News(changed')
    BY <1>1, <2>1, <2>2, OutputNews
  <2>5. HybridsFrom(hyb) \subseteq {Hybrids[hyb]} \cup HybridsFrom(hyb')
    BY <1>1, <2>1, HybridsNext
  <2>6. stale' \subseteq HybridsFrom(hyb') \cup News(changed')
    BY <2>3, <2>4, <2>5
  <2>7. stale' \subseteq HybridsFrom(hyb)' \cup News(changed)'
    BY <2>6 DEF HybridsFrom, News
  <2> QED BY <1>1, <2>1, <2>4, <2>7 DEF StaleInv, AnalogSteps
<1>4. CASE EvalNodes
  <2> DEFINE eval == {NodeOf[i] : i \in changed}
             differ == {n \in eval : ~ Shared(n) \/ NodeValue(n) # node[n]}
  <2>1. /\ at = "eval" /\ at' = "call" /\ changed' = {} /\ hyb' = hyb
        /\ stale' = stale \cup Readers({n \in differ : Shared(n)})
        /\ to_call' = to_call \cup Readers(differ)
    BY <1>4 DEF EvalNodes
  <2>2. News(changed) \subseteq Readers(differ)
    BY DEF News, Readers
  <2>3. Readers({n \in differ : Shared(n)}) \subseteq Readers(differ)
    BY DEF Readers
  <2> HIDE DEF differ
  <2>4. stale \subseteq to_call \cup News(changed)
    BY <2>1 DEF StaleInv
  <2>5. stale' \subseteq to_call' /\ stale' \subseteq Insts
    <3>1. Readers({n \in differ : Shared(n)}) \subseteq Insts
      BY DEF Readers
    <3> QED BY <1>1, <2>1, <2>2, <2>3, <2>4, <3>1
  <2> QED BY <1>1, <2>1, <2>5 DEF StaleInv, AnalogSteps
<1>5. CASE EndPass
  <2>1. /\ at = "call" /\ to_call = {} /\ UNCHANGED <<to_call, changed, stale, hyb>>
        /\ \/ at' = "analog" /\ changed = {}
           \/ at' \in {"eval", "failed"}
    BY <1>5 DEF EndPass
  <2>2. stale \subseteq News(changed)
    BY <2>1 DEF StaleInv
  <2>3. changed = {} => stale = {}
    BY <2>2, NoNews
  <2>4. News(changed)' = News(changed)
    BY <2>1 DEF News
  <2> QED BY <1>1, <2>1, <2>2, <2>3, <2>4 DEF StaleInv, AnalogSteps
<1>6. CASE OpReturned
  <2>1. /\ at = "returned" /\ UNCHANGED <<to_call, changed>>
        /\ \/ at' = "hybrids" /\ hyb' = 1 /\ stale' = stale \cup HybridSet
           \/ at' = "failed" /\ UNCHANGED <<hyb, stale>>
    BY <1>6 DEF OpReturned
  <2>2. stale = {}
    BY <2>1 DEF StaleInv, AnalogSteps
  <2>3. (at' = "hybrids" => stale' \subseteq HybridsFrom(hyb)') /\ stale' \subseteq Insts
    BY <2>1, <2>2, Hybrids1 DEF HybridsFrom
  <2> QED BY <1>1, <2>1, <2>3 DEF StaleInv, AnalogSteps
<1>7. CASE Alternate
  <2>1. /\ at = "hybrids" /\ hyb > Len(Hybrids) /\ UNCHANGED <<to_call, changed, stale, hyb>>
        /\ \/ at' = "solved" /\ changed = {}
           \/ at' \in {"eval", "failed"}
    BY <1>7 DEF Alternate
  <2>2. stale \subseteq News(changed)
    BY <1>1, <2>1, HybridsOver DEF StaleInv
  <2>3. changed = {} => stale = {}
    BY <2>2, NoNews
  <2>4. News(changed)' = News(changed)
    BY <2>1 DEF News
  <2> QED BY <1>1, <2>1, <2>2, <2>3, <2>4 DEF StaleInv, AnalogSteps
<1> QED BY <1>2, <1>3, <1>4, <1>5, <1>6, <1>7 DEF EvtOpStep

\* The analog solution changes nothing for the instances until it is found.
LEMMA AnalogStale ==
  ASSUME StaleInv, AnalogStep \/ CKTopStep, UNCHANGED dcvars
  PROVE  StaleInv'
<1>1. hyb \in Nat \ {0} /\ changed \subseteq Insts /\ stale \subseteq Insts
  BY DEF StaleInv
<1>2. ASSUME StartOptran PROVE at' \in AnalogSteps
  BY <1>2 DEF StartOptran, Goto, Return, AnalogSteps
<1>3. ASSUME StartSrc PROVE at' \in AnalogSteps
  BY <1>2, <1>3 DEF StartSrc, Goto, AnalogSteps
<1>4. ASSUME StartGmin PROVE at' \in AnalogSteps
  BY <1>3, <1>4 DEF StartGmin, Goto, AnalogSteps
<1>5. ASSUME Call PROVE at' \in AnalogSteps
  BY <1>4, <1>5 DEF Call, Goto, AnalogSteps
<1>6. CASE at \in AnalogSteps /\ at' \in AnalogSteps /\ UNCHANGED <<changed, stale, hyb>>
  BY <1>1, <1>6 DEF StaleInv, AnalogSteps
<1>7. ASSUME OpStep PROVE at \in AnalogSteps /\ at' \in AnalogSteps
  <2>1. ASSUME NEW o \in Outcome, Direct(o) \/ DynamicGmin(o) \/ DynamicLast(o) \/ NewGmin(o)
        PROVE  at \in AnalogSteps /\ at' \in AnalogSteps
    BY <1>3, <1>4, <2>1
       DEF Direct, DynamicGmin, DynamicLast, NewGmin, Goto, Return, AnalogSteps
  <2>2. ASSUME NEW o \in Outcome, Spice3Gmin(o) \/ GminLast(o) \/ Zero(o)
        PROVE  at \in AnalogSteps /\ at' \in AnalogSteps
    BY <1>3, <2>2 DEF Spice3Gmin, GminLast, Zero, StartRaise, Goto, Return, AnalogSteps
  <2>3. ASSUME NEW o \in Outcome, ZeroGmin(o) \/ RaiseSources(o)
        PROVE  at \in AnalogSteps /\ at' \in AnalogSteps
    BY <1>2, <2>3
       DEF ZeroGmin, RaiseSources, ZeroFails, StartRaise, Goto, Return, AnalogSteps
  <2>4. ASSUME NEW o \in Outcome, Spice3Src(o) \/ OPtran(o)
        PROVE  at \in AnalogSteps /\ at' \in AnalogSteps
    BY <1>2, <2>4 DEF Spice3Src, OPtran, Goto, Return, AnalogSteps
  <2> QED BY <1>7, <2>1, <2>2, <2>3, <2>4 DEF OpStep
<1>8. CASE CKTopStep
  BY <1>6, <1>7, <1>8 DEF CKTopStep, events
<1>9. CASE FirstAnalog
  BY <1>5, <1>6, <1>9 DEF FirstAnalog, AnalogSteps
<1>10. ASSUME NEW o \in Outcome, NextAnalog(o) PROVE StaleInv'
  <2>1. CASE Call
    BY <1>5, <1>6, <1>10, <2>1 DEF NextAnalog, AnalogSteps, Goto, Call
  <2>2. CASE at' = "hybrids" /\ hyb' = 1 /\ stale' = stale \cup HybridSet
    <3>1. stale = {} /\ changed' = changed
      BY <1>10 DEF NextAnalog, StaleInv, AnalogSteps
    <3>2. stale' \subseteq HybridsFrom(hyb)' /\ stale' \subseteq Insts
      BY <2>2, <3>1, Hybrids1 DEF HybridsFrom
    <3> QED BY <1>1, <2>2, <3>1, <3>2 DEF StaleInv, AnalogSteps
  <2> QED BY <1>6, <1>10, <1>5, <2>2 DEF NextAnalog, Goto, AnalogSteps
<1> QED BY <1>8, <1>9, <1>10 DEF AnalogStep

LEMMA DCNextStale ==
  ASSUME OpAlternate, StaleInv, ~ (brk < CKTtime), [DCNext]_allvars PROVE StaleInv'
<1>0. hyb \in Nat \ {0} /\ changed \subseteq Insts /\ stale \subseteq Insts
  BY DEF StaleInv
<1>1. CASE Run
  BY <1>1 DEF Run, StaleInv, AnalogSteps
<1>2. CASE Resume
  BY <1>0, <1>2 DEF Resume, events, StaleInv, AnalogSteps
<1>3. CASE LevelDone
  <2>1. at' \in {"idle", "test"} /\ firstTime' = TRUE
        /\ UNCHANGED <<hyb, changed, stale>>
    BY <1>3 DEF LevelDone, Advance, events
  <2> QED BY <1>0, <2>1 DEF StaleInv, AnalogSteps
<1>4. CASE FirstPoint
  <2>1. /\ at' = "eval" /\ to_call' = Insts /\ UNCHANGED <<hyb, changed, stale>>
    BY <1>4 DEF FirstPoint
  <2> QED BY <1>0, <2>1, <1>0 DEF StaleInv, AnalogSteps
<1>5. CASE QuickDone
  <2>1. /\ at = "quick" /\ hyb > Len(Hybrids) /\ UNCHANGED <<hyb, changed, stale, to_call>>
        /\ \/ at' = "solved" /\ changed = {}
           \/ at' = "eval"
    BY <1>5 DEF QuickDone
  <2>2. stale \subseteq News(changed)
    BY <1>0, <2>1, HybridsOver DEF StaleInv
  <2>3. changed = {} => stale = {}
    BY <2>2, NoNews
  <2>4. News(changed)' = News(changed)
    BY <2>1 DEF News
  <2> QED BY <1>0, <2>1, <2>2, <2>3, <2>4 DEF StaleInv, AnalogSteps
<1>6. CASE Dump
  <2>1. /\ at = "solved" /\ at' \in {"test", "idle"} /\ UNCHANGED <<hyb, changed, stale>>
    BY <1>6 DEF Dump, Advance, events
  <2> QED BY <1>0, <2>1 DEF StaleInv, AnalogSteps
<1>7. CASE Fail
  BY <1>0, <1>7 DEF Fail, events, StaleInv, AnalogSteps
<1>8. ASSUME NEW o \in Outcome, NextPoint(o) PROVE StaleInv'
  <2>1. /\ at = "test" /\ ~ firstTime /\ at' = "quick" /\ hyb' = 1 /\ changed' = changed
        /\ stale' = stale \cup HybridSet
    BY <1>8 DEF NextPoint
  <2>2. stale = {}
    BY <2>1 DEF StaleInv
  <2>3. stale' \subseteq HybridsFrom(hyb)' /\ stale' \subseteq Insts
    BY <2>1, <2>2, Hybrids1 DEF HybridsFrom
  <2> QED BY <1>0, <2>1, <2>3 DEF StaleInv, AnalogSteps
<1>9. CASE EvtOpStep /\ UNCHANGED dcvars
  BY <1>9, EvtStepStale
<1>10. CASE (AnalogStep \/ CKTopStep) /\ UNCHANGED dcvars
  BY <1>10, AnalogStale
<1>11. CASE UNCHANGED allvars
  <2>1. UNCHANGED <<at, hyb, changed, stale, to_call, firstTime>>
    BY <1>11 DEF allvars, evtvars, opvars, events, dcvars
  <2>2. News(changed)' = News(changed) /\ HybridsFrom(hyb)' = HybridsFrom(hyb)
    BY <2>1 DEF News, HybridsFrom
  <2> QED BY <2>1, <2>2 DEF StaleInv
<1> QED BY <1>1, <1>2, <1>3, <1>4, <1>5, <1>6, <1>7, <1>8, <1>9, <1>10, <1>11
        DEF DCNext, Internal

\* The inductive invariant of the events: nobody is forgotten whose inputs change.
THEOREM StaleInvHolds ==
  ASSUME OpAlternate PROVE DCSpec /\ [](~ (brk < CKTtime)) => []StaleInv
<1>1. DCInit => StaleInv
  BY DEF DCInit, StaleInv, AnalogSteps
<1>2. StaleInv /\ ~ (brk < CKTtime) /\ [DCNext]_allvars => StaleInv'
  BY DCNextStale
<1> QED BY <1>1, <1>2, PTL DEF DCSpec

\* Every point that is put out is settled (Settled), for every circuit and every
\* sweep, as long as no breakpoint is left in the past, which would make
\* EVTcall_hybrids pass over hybrids.
THEOREM SweepSettled ==
  ASSUME OpAlternate PROVE DCSpec /\ [](~ (brk < CKTtime)) => []Settled
<1>1. StaleInv => Settled
  BY DEF StaleInv, Settled
<1> QED BY <1>1, StaleInvHolds, PTL

-----------------------------------------------------------------------------
(* The points of the sweep.                                                 *)

\* Every level has a first value.
NoEmptyLevel == \A l \in Levels : ~ Past(l, Start[l])

Total == Below[Depth + 1]

\* A level takes the values before its stop value, as many as Count says.
LEMMA Counted ==
  ASSUME NEW l \in Levels, ~ Past(l, Start[l])
  PROVE  /\ Count(l) \in Nat \ {0}
         /\ \A n \in Nat : Past(l, Start[l] + n * Step[l]) <=> n >= Count(l)
<1>1. Start[l] \in Int /\ Stop[l] \in Int /\ Step[l] \in Int \ {0}
  BY SweepAssumption
<1> DEFINE a == Start[l]
           z == Stop[l]
           s == Step[l]
<1>2. CASE s > 0
  <2> DEFINE span == z - a
  <2>1. span \in Nat /\ s \in Nat \ {0} /\ Count(l) = span \div s + 1
    BY <1>1, <1>2 DEF Past, Count
  <2>2. ASSUME NEW n \in Nat
        PROVE  Count(l) \in Nat \ {0} /\ (Past(l, a + n * s) <=> n >= Count(l))
    <3>1. Count(l) \in Nat \ {0} /\ (n * s > span <=> n >= Count(l))
      <4> HIDE DEF a, z, s, span
      <4> QED BY <2>1, Multiples
    <3>2. Past(l, a + n * s) <=> a + n * s > z
      BY <1>2 DEF Past
    <3> DEFINE ns == n * s
    <3>3. ns \in Int
      BY <1>1
    <3> HIDE DEF ns, a, z, s
    <3>4. a + ns > z <=> ns > span
      BY <1>1, <3>3 DEF a, z
    <3> HIDE DEF span
    <3> QED BY <3>1, <3>2, <3>4 DEF ns
  <2> QED BY <2>2
<1>3. CASE s < 0
  <2> DEFINE span == a - z
             m == - s
  <2>1. span \in Nat /\ m \in Nat \ {0} /\ Count(l) = span \div m + 1
    BY <1>1, <1>3 DEF Past, Count
  <2>2. ASSUME NEW n \in Nat
        PROVE  Count(l) \in Nat \ {0} /\ (Past(l, a + n * s) <=> n >= Count(l))
    <3>1. Count(l) \in Nat \ {0} /\ (n * m > span <=> n >= Count(l))
      <4> HIDE DEF a, z, s, span, m
      <4> QED BY <2>1, Multiples
    <3>2. n * s \in Int /\ n * m = - (n * s)
      BY <1>1
    <3>3. Past(l, a + n * s) <=> a + n * s < z
      BY <1>1, <1>3 DEF Past
    <3> DEFINE ns == n * s
               nm == n * m
    <3> HIDE DEF ns, nm, a, z, s, m
    <3>4. a + ns < z <=> nm > span
      BY <1>1, <3>2 DEF ns, nm, a, z
    <3> HIDE DEF span
    <3> QED BY <3>1, <3>3, <3>4 DEF ns, nm
  <2> QED BY <2>2
<1> QED BY <1>1, <1>2, <1>3

-----------------------------------------------------------------------------
(* How many points the levels below one take.                               *)

\* f counts them for the levels up to n.
BelowUpTo(f, n) ==
  f = [l \in 1 .. n |-> IF l = 1 THEN 1 ELSE f[l - 1] * Count(l - 1)]

\* There is such a function, however many levels there are.
LEMMA BelowExists ==
  ASSUME NEW n \in Nat PROVE \E f : BelowUpTo(f, n)
<1> DEFINE T == {m \in Nat : ~ \E f : BelowUpTo(f, m)}
<1> SUFFICES ASSUME T # {} PROVE FALSE
  OBVIOUS
<1>1. PICK x \in T : \A y \in T : x <= y
  <2>1. T \subseteq Nat
    OBVIOUS
  <2> HIDE DEF T
  <2> QED BY <2>1, LeastNumber
<1>2. x # 0
  <2>1. BelowUpTo(<<>>, 0)
    BY DEF BelowUpTo
  <2> QED BY <1>1, <2>1
<1>3. x - 1 \in Nat /\ x - 1 \notin T
  BY <1>1, <1>2
<1>4. PICK f : BelowUpTo(f, x - 1)
  BY <1>3
<1> DEFINE g == [l \in 1 .. x |-> IF l = 1 THEN 1 ELSE f[l - 1] * Count(l - 1)]
<1>5. \A l \in 1 .. x - 1 : g[l] = f[l]
  <2> SUFFICES ASSUME NEW l \in 1 .. x - 1 PROVE g[l] = f[l]
    OBVIOUS
  <2>1. f[l] = IF l = 1 THEN 1 ELSE f[l - 1] * Count(l - 1)
    BY <1>4, Zenon DEF BelowUpTo
  <2> QED BY <1>1, <2>1
<1>6. BelowUpTo(g, x)
  <2>1. \A l \in 1 .. x : l # 1 => l - 1 \in 1 .. x - 1
    BY <1>1
  <2>2. g = [l \in 1 .. x |-> IF l = 1 THEN 1 ELSE g[l - 1] * Count(l - 1)]
    BY <1>5, <2>1
  <2> HIDE DEF g
  <2> QED BY <2>2 DEF BelowUpTo
<1> QED BY <1>1, <1>6

LEMMA BelowIs ==
  /\ Depth \in Nat \ {0} /\ Levels = 1 .. Depth
  /\ Below[1] = 1
  /\ \A l \in Levels : Below[l + 1] = Below[l] * Count(l)
<1>1. Depth \in Nat \ {0} /\ Levels = 1 .. Depth
  BY SweepAssumption
<1>2. \E f : BelowUpTo(f, Depth + 1)
  BY <1>1, BelowExists
<1>3. Below = CHOOSE f : BelowUpTo(f, Depth + 1)
  BY Zenon DEF Below, BelowUpTo
<1>4. BelowUpTo(Below, Depth + 1)
  BY <1>2, <1>3
<1>5. \A l \in 1 .. Depth + 1 : Below[l] = IF l = 1 THEN 1 ELSE Below[l - 1] * Count(l - 1)
  BY <1>4, Zenon DEF BelowUpTo
<1>6. Below[1] = 1
  BY <1>1, <1>5
<1>7. ASSUME NEW l \in Levels PROVE Below[l + 1] = Below[l] * Count(l)
  <2>1. l + 1 \in 1 .. Depth + 1 /\ l + 1 # 1 /\ (l + 1) - 1 = l
    BY <1>1
  <2> QED BY <1>5, <2>1
<1> QED BY <1>1, <1>6, <1>7

LEMMA BelowPositive ==
  ASSUME NoEmptyLevel PROVE \A l \in 1 .. Depth + 1 : Below[l] \in Nat \ {0}
<1> DEFINE T == {l \in 1 .. Depth + 1 : ~ (Below[l] \in Nat \ {0})}
<1> SUFFICES ASSUME T # {} PROVE FALSE
  OBVIOUS
<1>1. PICK x \in T : \A y \in T : x <= y
  <2>1. T \subseteq Nat
    BY BelowIs
  <2> HIDE DEF T
  <2> QED BY <2>1, LeastNumber
<1>2. x \in 1 .. Depth + 1 /\ x # 1
  BY BelowIs
<1>3. x - 1 \in Levels /\ x - 1 \notin T
  BY <1>1, <1>2, BelowIs
<1>4. Below[x - 1] \in Nat \ {0}
  BY <1>3, BelowIs
<1>5. Below[x] = Below[x - 1] * Count(x - 1)
  <2>1. (x - 1) + 1 = x
    BY <1>2, BelowIs
  <2> QED BY <1>3, <2>1, BelowIs
<1>6. Count(x - 1) \in Nat \ {0}
  BY <1>3, Counted DEF NoEmptyLevel
<1> QED BY <1>4, <1>5, <1>6, Products

\* Each of these counts is a multiple of those before it.
LEMMA BelowDivides ==
  ASSUME NoEmptyLevel, NEW l \in 1 .. Depth + 1, NEW h \in l .. Depth + 1
  PROVE  \E t \in Nat \ {0} : Below[h] = t * Below[l]
<1> DEFINE T == {m \in l .. Depth + 1 : ~ \E t \in Nat \ {0} : Below[m] = t * Below[l]}
<1> SUFFICES ASSUME T # {} PROVE FALSE
  OBVIOUS
<1>0. Depth \in Nat /\ Levels = 1 .. Depth /\ Below[l] \in Nat \ {0}
  BY BelowIs, BelowPositive
<1>1. PICK x \in T : \A y \in T : x <= y
  <2>1. T \subseteq Nat
    BY <1>0
  <2> HIDE DEF T
  <2> QED BY <2>1, LeastNumber
<1>2. x \in l .. Depth + 1 /\ x # l
  <2>1. Below[l] = 1 * Below[l]
    BY <1>0
  <2> QED BY <2>1
<1>3. x - 1 \in Levels /\ x - 1 \in l .. Depth + 1 /\ x - 1 \notin T
  BY <1>0, <1>1, <1>2
<1>4. PICK t \in Nat \ {0} : Below[x - 1] = t * Below[l]
  BY <1>3
<1>5. Below[x] = Below[x - 1] * Count(x - 1)
  <2>1. (x - 1) + 1 = x
    BY <1>0, <1>2
  <2> QED BY <1>3, <2>1, BelowIs
<1>6. Count(x - 1) \in Nat \ {0}
  BY <1>3, Counted DEF NoEmptyLevel
<1>7. /\ Below[x] = (t * Count(x - 1)) * Below[l] /\ t * Count(x - 1) \in Nat \ {0}
  <2> DEFINE b == Below[l]
             c == Count(x - 1)
  <2>1. b \in Nat /\ c \in Nat \ {0} /\ t \in Nat \ {0} /\ Below[x] = (t * b) * c
    BY <1>0, <1>4, <1>5, <1>6
  <2> HIDE DEF b, c
  <2>2. (t * b) * c = (t * c) * b
    BY <2>1
  <2>3. t * c \in Nat \ {0}
    BY <2>1, Products
  <2> QED BY <2>1, <2>2, <2>3 DEF b, c
<1> QED BY <1>2, <1>7

-----------------------------------------------------------------------------
(* Rows of points: those of a level l that follow each other while the      *)
(* levels from l on keep their values.  Row d of level l begins at point    *)
(* d * Below[l].                                                            *)

RowStart(l, d) == Point(d * Below[l])

LEMMA PointIs ==
  ASSUME NEW k \in Nat, NEW l \in Levels
  PROVE  Point(k)[l] = Start[l] + ((k \div Below[l]) % Count(l)) * Step[l]
BY DEF Point

\* At the start of a row the levels below are at their first values.
LEMMA RowLower ==
  ASSUME NoEmptyLevel, NEW l \in 1 .. Depth + 1, NEW d \in Nat, NEW m \in Levels, m < l
  PROVE  RowStart(l, d)[m] = Start[m]
<1>1. Depth \in Nat /\ Levels = 1 .. Depth /\ m + 1 \in 1 .. Depth + 1
      /\ l \in m + 1 .. Depth + 1 /\ m \in 1 .. Depth + 1
  BY BelowIs
<1> DEFINE b == Below[m]
           c == Count(m)
<1>2. b \in Nat \ {0} /\ c \in Nat \ {0} /\ Below[m + 1] = b * c
  BY <1>1, BelowIs, BelowPositive, Counted DEF NoEmptyLevel
<1>3. PICK t \in Nat \ {0} : Below[l] = t * Below[m + 1]
  BY <1>1, BelowDivides
<1> DEFINE n == d * t
           w == n * c
<1>4. n \in Nat /\ w \in Nat
  BY <1>2, <1>3, Products
<1>5. d * Below[l] = w * b
  <2> HIDE DEF b, c
  <2>1. Below[l] = t * (b * c)
    BY <1>2, <1>3
  <2>2. d * (t * (b * c)) = ((d * t) * c) * b
    BY <1>2, <1>3
  <2> QED BY <2>1, <2>2
<1>6. (w * b + 0) \div b = w /\ (n * c + 0) % c = 0
  <2> HIDE DEF b, c, n, w
  <2> QED BY <1>2, <1>4, Quotient
<1>7. w * b + 0 = d * Below[l] /\ n * c + 0 = w /\ d * Below[l] \in Nat
  <2>1. w * b \in Nat
    BY <1>2, <1>4, Products
  <2> HIDE DEF b, c, n
  <2> QED BY <1>4, <1>5, <2>1
<1>8. (d * Below[l]) \div b = w /\ w % c = 0
  BY <1>6, <1>7, Zenon
<1>9. Point(d * Below[l])[m] = Start[m] + (((d * Below[l]) \div b) % c) * Step[m]
  BY <1>7, PointIs
<1>10. Point(d * Below[l])[m] = Start[m] + 0 * Step[m]
  BY <1>8, <1>9, Zenon
<1>11. Start[m] + 0 * Step[m] = Start[m]
  BY SweepAssumption
<1> QED BY <1>10, <1>11 DEF RowStart

\* Row d of level l is at value r of that level, in row e of the level above.
LEMMA RowUpper ==
  ASSUME NoEmptyLevel, NEW l \in Levels, NEW e \in Nat, NEW r \in 0 .. Count(l) - 1,
         NEW d \in Nat, d = e * Count(l) + r
  PROVE  /\ d * Below[l] = e * Below[l + 1] + r * Below[l]
         /\ d * Below[l] \in Nat /\ e * Below[l + 1] \in Nat
         /\ r * Below[l] \in 0 .. Below[l + 1] - Below[l]
         /\ RowStart(l, d)[l] = Start[l] + r * Step[l]
         /\ \A m \in Levels : m > l => RowStart(l, d)[m] = RowStart(l + 1, e)[m]
<1> DEFINE b == Below[l]
           c == Count(l)
           bb == Below[l + 1]
           eb == e * bb
           rb == r * b
           db == d * b
<1>1. Depth \in Nat /\ Levels = 1 .. Depth /\ l \in 1 .. Depth + 1 /\ l + 1 \in 1 .. Depth + 1
  BY BelowIs
<1>2. b \in Nat \ {0} /\ c \in Nat \ {0} /\ bb = b * c /\ bb \in Nat \ {0}
  BY <1>1, BelowIs, BelowPositive, Counted DEF NoEmptyLevel
<1>3. r \in Nat /\ r <= c - 1 /\ c - 1 \in Nat
  BY <1>2
<1>4. eb \in Nat /\ rb \in Nat /\ db \in Nat
  <2> HIDE DEF b, c, bb
  <2> QED BY <1>2, <1>3, Products
<1>5. db = eb + rb
  <2> HIDE DEF b, c, bb
  <2>1. (e * c + r) * b = e * (b * c) + r * b
    BY <1>2, <1>3
  <2>2. d = e * c + r
    BY DEF c
  <2> QED BY <1>2, <2>1, <2>2, Zenon
<1>6. rb <= bb - b
  <2> HIDE DEF b, c, bb
  <2>1. r * b <= (c - 1) * b
    BY <1>2, <1>3, Products
  <2>2. (c - 1) * b = b * c - b
    BY <1>2
  <2> QED BY <1>2, <2>1, <2>2
<1>7. RowStart(l, d)[l] = Start[l] + r * Step[l]
  <2>1. (d * b + 0) \div b = d /\ d % c = r
    <3>1. d = e * c + r
      OBVIOUS
    <3> HIDE DEF b, c
    <3>2. (e * c + r) % c = r
      <4>1. r \in 0 .. c - 1
        BY DEF c
      <4> QED BY <1>2, <4>1, Quotient
    <3>3. 0 \in 0 .. b - 1
      BY <1>2
    <3>4. (d * b + 0) \div b = d
      BY <1>2, <3>3, Quotient
    <3> QED BY <3>1, <3>2, <3>4, Zenon
  <2>2. d * b + 0 = d * b
    <3> HIDE DEF db
    <3>1. db + 0 = db
      BY <1>4
    <3> QED BY <3>1 DEF db
  <2>3. RowStart(l, d)[l] = Start[l] + ((db \div b) % c) * Step[l]
    BY <1>4, PointIs DEF RowStart
  <2> QED BY <2>1, <2>2, <2>3, Zenon
<1>8. ASSUME NEW m \in Levels, m > l
      PROVE  RowStart(l, d)[m] = RowStart(l + 1, e)[m]
  <2>1. m \in l + 1 .. Depth + 1
    BY <1>1, <1>8
  <2>2. PICK t \in Nat \ {0} : Below[m] = t * bb
    BY <1>1, <2>1, BelowDivides
  <2>3. (eb + rb) \div (t * bb) = e \div t /\ (eb + 0) \div (t * bb) = e \div t
    <3>1. rb \in 0 .. bb - 1 /\ 0 \in 0 .. bb - 1
      <4> HIDE DEF b, bb, rb
      <4> QED BY <1>2, <1>4, <1>6
    <3> HIDE DEF b, bb, rb
    <3>2. \A x \in 0 .. bb - 1 : (e * bb + x) \div (t * bb) = e \div t
      <4> SUFFICES ASSUME NEW x \in 0 .. bb - 1 PROVE (e * bb + x) \div (t * bb) = e \div t
        OBVIOUS
      <4>1. bb \in Nat \ {0} /\ e \in Nat /\ t \in Nat \ {0}
        BY <1>2
      <4> QED BY <4>1, RowQuotient, Zenon
    <3> QED BY <3>1, <3>2, Zenon DEF eb
  <2>4. eb + 0 = eb
    <3> HIDE DEF eb
    <3> QED BY <1>4
  <2>5. db \div Below[m] = eb \div Below[m]
    BY <1>5, <2>2, <2>3, <2>4, Zenon
  <2>6. /\ RowStart(l, d)[m] = Start[m] + ((db \div Below[m]) % Count(m)) * Step[m]
        /\ RowStart(l + 1, e)[m] = Start[m] + ((eb \div Below[m]) % Count(m)) * Step[m]
    <3>1. db \in Nat /\ eb \in Nat
      BY <1>4
    <3>2. /\ Point(db)[m] = Start[m] + ((db \div Below[m]) % Count(m)) * Step[m]
          /\ Point(eb)[m] = Start[m] + ((eb \div Below[m]) % Count(m)) * Step[m]
      <4> HIDE DEF db, eb
      <4> QED BY <3>1, PointIs
    <3> QED BY <3>2, Zenon DEF RowStart
  <2> QED BY <2>5, <2>6, Zenon
<1> HIDE DEF b, bb, c
<1>9. rb \in 0 .. bb - b
  BY <1>2, <1>4, <1>6
<1> QED BY <1>4, <1>5, <1>7, <1>8, <1>9 DEF b, bb, c

\* A row that begins within the sweep ends within it.
LEMMA RowEnds ==
  ASSUME NoEmptyLevel, NEW l \in 1 .. Depth + 1, NEW e \in Nat, e * Below[l] < Total
  PROVE  (e + 1) * Below[l] <= Total /\ (l = Depth + 1 => e = 0)
<1> DEFINE b == Below[l]
<1>1. Depth \in Nat /\ Depth + 1 \in l .. Depth + 1 /\ b \in Nat \ {0}
  BY BelowIs, BelowPositive
<1>2. PICK t \in Nat \ {0} : Total = t * b
  BY <1>1, BelowDivides DEF Total
<1>3. e < t
  <2> HIDE DEF b
  <2>1. t <= e => t * b <= e * b
    BY <1>1, Products
  <2>2. t * b \in Nat /\ e * b \in Nat /\ e * b < t * b
    BY <1>1, <1>2, Products DEF b
  <2> QED BY <2>1, <2>2
<1>4. (e + 1) * b <= t * b
  <2> HIDE DEF b
  <2> QED BY <1>1, <1>3, Products
<1>5. CASE l = Depth + 1
  <2>1. Total = b
    BY <1>5 DEF Total
  <2>2. 1 <= e => 1 * b <= e * b
    <3> HIDE DEF b
    <3> QED BY <1>1, Products
  <2>3. e * b \in Nat /\ 1 * b = b /\ e * b < b
    BY <1>1, <2>1, Products
  <2> HIDE DEF b
  <2> QED BY <1>1, <1>2, <1>4, <2>2, <2>3 DEF b
<1> QED BY <1>2, <1>4, <1>5

-----------------------------------------------------------------------------
(* The sweep goes through the rows.                                         *)

\* Level l has just stepped past row d of it, all of whose points are put out; or
\* the sweep begins.
Stepped(l) ==
  \/ points = 0 /\ l = 1 /\ val = Start
  \/ \E d \in Nat : /\ points = (d + 1) * Below[l] /\ d * Below[l] < Total
                    /\ val[l] = RowStart(l, d)[l] + Step[l]
                    /\ \A m \in Levels : m > l => val[m] = RowStart(l, d)[m]

\* The next point is the one to be put out, or is being solved.
NextUp(v) == points < Total /\ v = Point(points)

CountInv ==
  /\ val \in [Levels -> Int] /\ points \in Nat
  /\ at = "test" => level \in Levels /\ Stepped(level)
  /\ at = "idle" /\ inprogress => nest \in Levels /\ Stepped(nest)
  /\ at \notin {"idle", "test"} => NextUp(val)

\* What is saved is what the netlist gave, and is put back after the last point.
BackInv ==
  /\ save \in [Levels -> Int]
  /\ at # "idle" => inprogress
  /\ inprogress /\ ~ spoiled => save = Given
  /\ SourcesBack

SweepInv == CountInv /\ BackInv

\* A sweep of a temperature runs to its end without a pause.
NoTempPaused == at = "idle" /\ inprogress => Temps = {}

LEMMA TotalIs ==
  ASSUME NoEmptyLevel
  PROVE  Total \in Nat \ {0} /\ Total = Below[Depth + 1] /\ 1 \in Levels
         /\ Levels = 1 .. Depth /\ Depth \in Nat \ {0} /\ Below[1] = 1
BY BelowIs, BelowPositive DEF Total

\* Numbers of a row, for a level that has stepped.
LEMMA SteppedRow ==
  ASSUME NoEmptyLevel, NEW l \in Levels, NEW d \in Nat, d * Below[l] < Total
  PROVE  \E e \in Nat, r \in 0 .. Count(l) - 1 :
           /\ d = e * Count(l) + r
           /\ RowStart(l, d)[l] + Step[l] = Start[l] + (r + 1) * Step[l]
           /\ \A m \in Levels : m > l => RowStart(l, d)[m] = RowStart(l + 1, e)[m]
           /\ e * Below[l + 1] < Total
           /\ r + 1 < Count(l) =>
                /\ (d + 1) * Below[l] < Total
                /\ RowStart(l, d + 1)[l] = Start[l] + (r + 1) * Step[l]
                /\ \A m \in Levels : m > l => RowStart(l, d + 1)[m] = RowStart(l, d)[m]
           /\ r + 1 >= Count(l) =>
                /\ (d + 1) * Below[l] = (e + 1) * Below[l + 1]
                /\ l = Depth => (d + 1) * Below[l] = Total
<1> DEFINE b == Below[l]
           c == Count(l)
           bb == Below[l + 1]
           e == d \div c
           r == d % c
<1>1. /\ Depth \in Nat /\ Levels = 1 .. Depth /\ l + 1 \in 1 .. Depth + 1
      /\ b \in Nat \ {0} /\ c \in Nat \ {0} /\ bb = b * c /\ bb \in Nat \ {0}
      /\ Start[l] \in Int /\ Step[l] \in Int /\ Total \in Nat
  <2>1. /\ Depth \in Nat /\ Levels = 1 .. Depth /\ l + 1 \in 1 .. Depth + 1
        /\ l \in 1 .. Depth + 1 /\ Total \in Nat
    BY TotalIs
  <2>2. b \in Nat \ {0} /\ bb = b * c /\ bb \in Nat \ {0}
    BY <2>1, BelowIs, BelowPositive
  <2>3. c \in Nat \ {0}
    BY Counted DEF NoEmptyLevel
  <2>4. Start[l] \in Int /\ Step[l] \in Int
    BY SweepAssumption
  <2> QED BY <2>1, <2>2, <2>3, <2>4
<1>2. e \in Nat /\ r \in 0 .. c - 1 /\ d = e * c + r
  <2> HIDE DEF c
  <2> QED BY <1>1, Divided
<1> HIDE DEF e, r
<1>3. /\ d * b = e * bb + r * b /\ e * bb \in Nat /\ r * b \in 0 .. bb - b /\ d * b \in Nat
      /\ RowStart(l, d)[l] = Start[l] + r * Step[l]
      /\ \A m \in Levels : m > l => RowStart(l, d)[m] = RowStart(l + 1, e)[m]
  BY <1>2, RowUpper
<1>4. e * bb < Total
  <2> DEFINE eb == e * bb
             rb == r * b
             db == d * b
  <2>1. db = eb + rb /\ eb \in Nat /\ rb \in Nat /\ db < Total
    BY <1>1, <1>3
  <2> HIDE DEF eb, rb, db
  <2>2. eb < Total
    BY <1>1, <2>1
  <2> QED BY <2>2 DEF eb
<1>5. (e + 1) * bb <= Total /\ (l = Depth => e = 0)
  BY <1>1, <1>2, <1>4, RowEnds
<1>6. (r + 1) * Step[l] = r * Step[l] + Step[l] /\ r * Step[l] \in Int
  <2> DEFINE s == Step[l]
  <2>1. s \in Int /\ r \in Nat
    BY <1>1, <1>2
  <2> HIDE DEF s, b, bb, c
  <2>2. (r + 1) * s = r * s + s /\ r * s \in Int
    BY <2>1
  <2> QED BY <2>2 DEF s
<1>7. RowStart(l, d)[l] + Step[l] = Start[l] + (r + 1) * Step[l]
  <2> DEFINE x == r * Step[l]
             y == (r + 1) * Step[l]
  <2>1. x \in Int /\ y = x + Step[l] /\ RowStart(l, d)[l] = Start[l] + x
    BY <1>3, <1>6
  <2> DEFINE from == RowStart(l, d)[l]
             start == Start[l]
             s == Step[l]
  <2>2. from = start + x /\ y = x + s /\ x \in Int /\ start \in Int /\ s \in Int
    BY <1>1, <2>1
  <2> HIDE DEF x, y, from, start, s
  <2>3. from + s = start + y
    BY <2>2
  <2> QED BY <2>3 DEF y, from, start, s
<1>8. (e + 1) * bb = e * bb + bb /\ (d + 1) * b = d * b + b
  <2> HIDE DEF b, bb, c
  <2>1. e \in Nat /\ bb \in Nat /\ b \in Nat
    BY <1>1, <1>2
  <2>2. (e + 1) * bb = e * bb + bb /\ (d + 1) * b = d * b + b
    BY <2>1, NextProduct, Zenon
  <2> QED BY <2>2
<1>9. ASSUME r + 1 < c
      PROVE  /\ (d + 1) * b < Total
             /\ RowStart(l, d + 1)[l] = Start[l] + (r + 1) * Step[l]
             /\ \A m \in Levels : m > l => RowStart(l, d + 1)[m] = RowStart(l, d)[m]
  <2>1. r + 1 \in 0 .. c - 1 /\ d + 1 = e * c + (r + 1)
    <3> DEFINE ec == e * c
    <3>1. ec \in Nat /\ d = ec + r
      BY <1>1, <1>2, Products
    <3> HIDE DEF ec, c
    <3>2. r + 1 \in 0 .. c - 1 /\ d + 1 = ec + (r + 1)
      BY <1>1, <1>2, <1>9, <3>1
    <3> QED BY <3>2 DEF ec
  <2>2. /\ (d + 1) * b = e * bb + (r + 1) * b /\ (r + 1) * b \in 0 .. bb - b
        /\ RowStart(l, d + 1)[l] = Start[l] + (r + 1) * Step[l]
        /\ \A m \in Levels : m > l => RowStart(l, d + 1)[m] = RowStart(l + 1, e)[m]
    <3> DEFINE n == r + 1
               f == d + 1
    <3>1. n \in 0 .. c - 1 /\ f = e * c + n
      BY <2>1
    <3> HIDE DEF n, f
    <3>2. /\ f * b = e * bb + n * b /\ n * b \in 0 .. bb - b
          /\ RowStart(l, f)[l] = Start[l] + n * Step[l]
          /\ \A m \in Levels : m > l => RowStart(l, f)[m] = RowStart(l + 1, e)[m]
      <4>1. e \in Nat /\ f \in Nat
        BY <1>2 DEF f
      <4> QED BY <3>1, <4>1, RowUpper
    <3> QED BY <3>2 DEF n, f
  <2>3. (d + 1) * b < Total
    <3> DEFINE eb == e * bb
               rb == (r + 1) * b
               fb == (e + 1) * bb
    <3>1. /\ eb \in Nat /\ rb \in 0 .. bb - b /\ (d + 1) * b = eb + rb
          /\ fb = eb + bb /\ fb <= Total
      <4>1. eb \in Nat /\ fb <= Total
        BY <1>3, <1>5, Zenon
      <4>2. fb = eb + bb
        BY <1>8, Zenon
      <4>3. rb \in 0 .. bb - b /\ (d + 1) * b = eb + rb
        BY <2>2, Zenon
      <4> QED BY <4>1, <4>2, <4>3, Zenon
    <3> HIDE DEF eb, rb, fb, b, bb
    <3>2. eb + rb < Total
      BY <1>1, <3>1
    <3> QED BY <3>1, <3>2 DEF b
  <2> QED BY <1>3, <2>2, <2>3
<1>10. ASSUME r + 1 >= c
       PROVE  (d + 1) * b = (e + 1) * bb /\ (l = Depth => (d + 1) * b = Total)
  <2>1. r = c - 1
    <3> HIDE DEF b, bb, c
    <3> QED BY <1>1, <1>2, <1>10
  <2>2. d + 1 = (e + 1) * c
    <3> DEFINE ec == e * c
               gc == (e + 1) * c
    <3>1. d = ec + r /\ gc = ec + 1 * c /\ 1 * c = c /\ ec \in Nat
      <4> HIDE DEF b, bb, c
      <4> QED BY <1>1, <1>2, Products
    <3> HIDE DEF ec, gc, c
    <3>2. d + 1 = gc
      BY <1>1, <2>1, <3>1
    <3> QED BY <3>2 DEF gc
  <2>3. ((e + 1) * c) * b = (e + 1) * (b * c)
    <3> HIDE DEF b, c
    <3> QED BY <1>1, <1>2
  <2>4. (d + 1) * b = (e + 1) * bb
    BY <1>1, <2>2, <2>3
  <2>5. ASSUME l = Depth PROVE (d + 1) * b = Total
    <3>1. e = 0 /\ bb = Total
      BY <1>5, <2>5 DEF Total
    <3>2. (e + 1) * bb = bb
      <4> HIDE DEF bb
      <4> QED BY <1>1, <3>1
    <3> QED BY <2>4, <3>1, <3>2
  <2> QED BY <2>4, <2>5
<1> QED BY <1>2, <1>3, <1>4, <1>7, <1>9, <1>10

\* Not past its stop value, the level with those below it at their first values is
\* at the next point.
LEMMA ResetReaches ==
  ASSUME NoEmptyLevel, CountInv, NEW l \in Levels, Stepped(l), ~ Past(l, val[l])
  PROVE  NextUp(Reset(l))
<1>1. Total \in Nat \ {0} /\ 1 \in Levels /\ Levels = 1 .. Depth /\ Depth \in Nat
  BY TotalIs
<1>2. CASE points = 0 /\ l = 1 /\ val = Start
  <2>1. Reset(l) = Start
    <3>1. Reset(l) = [m \in Levels |-> Start[m]]
      BY <1>2 DEF Reset
    <3> QED BY <3>1, SweepAssumption
  <2>2. \A m \in Levels : Point(0)[m] = Start[m]
    <3> SUFFICES ASSUME NEW m \in Levels PROVE Point(0)[m] = Start[m]
      OBVIOUS
    <3>1. Depth + 1 \in 1 .. Depth + 1 /\ m < Depth + 1
      BY <1>1
    <3>2. RowStart(Depth + 1, 0)[m] = Start[m]
      BY <3>1, RowLower
    <3>3. 0 * Below[Depth + 1] = 0
      BY <1>1 DEF Total
    <3> QED BY <3>2, <3>3 DEF RowStart
  <2>3. Point(0) = Start
    BY <2>2, SweepAssumption DEF Point
  <2> QED BY <1>1, <1>2, <2>1, <2>3 DEF NextUp
<1>3. ASSUME NEW d \in Nat, points = (d + 1) * Below[l], d * Below[l] < Total,
             val[l] = RowStart(l, d)[l] + Step[l],
             \A m \in Levels : m > l => val[m] = RowStart(l, d)[m]
      PROVE  NextUp(Reset(l))
  <2>1. PICK e \in Nat, r \in 0 .. Count(l) - 1 :
           /\ RowStart(l, d)[l] + Step[l] = Start[l] + (r + 1) * Step[l]
           /\ r + 1 < Count(l) =>
                /\ (d + 1) * Below[l] < Total
                /\ RowStart(l, d + 1)[l] = Start[l] + (r + 1) * Step[l]
                /\ \A m \in Levels : m > l => RowStart(l, d + 1)[m] = RowStart(l, d)[m]
    BY <1>3, SteppedRow
  <2>2. r + 1 < Count(l)
    <3>1. Count(l) \in Nat /\ r \in Nat
      BY Counted DEF NoEmptyLevel
    <3>2. ~ Past(l, Start[l] + (r + 1) * Step[l])
      BY <1>3, <2>1
    <3> DEFINE n == r + 1
    <3>3. n \in Nat
      BY <3>1
    <3> HIDE DEF n
    <3>4. ~ (n >= Count(l))
      BY <3>2, <3>3, Counted DEF NoEmptyLevel, n
    <3> QED BY <3>1, <3>4 DEF n
  <2>3. \A m \in Levels : Reset(l)[m] = RowStart(l, d + 1)[m]
    <3> SUFFICES ASSUME NEW m \in Levels PROVE Reset(l)[m] = RowStart(l, d + 1)[m]
      OBVIOUS
    <3>1. CASE m < l
      <4>1. l \in 1 .. Depth + 1 /\ d + 1 \in Nat
        BY <1>1
      <4> QED BY <3>1, <4>1, RowLower DEF Reset
    <3>2. CASE m = l
      BY <1>1, <1>3, <2>1, <2>2, <3>2 DEF Reset
    <3>3. CASE m > l
      <4>1. ~ (m < l)
        BY <1>1, <3>3
      <4> QED BY <1>3, <2>1, <2>2, <3>3, <4>1 DEF Reset
    <3> QED BY <1>1, <3>1, <3>2, <3>3
  <2>4. Reset(l) = RowStart(l, d + 1)
    BY <2>3 DEF Reset, RowStart, Point
  <2> QED BY <1>3, <2>1, <2>2, <2>4 DEF NextUp, RowStart
<1> QED BY <1>2, <1>3 DEF Stepped

\* Past its stop value, all of its points are put out: the next level steps, or
\* the sweep is over.
LEMMA LevelOver ==
  ASSUME NoEmptyLevel, CountInv, NEW l \in Levels, Stepped(l), Past(l, val[l])
  PROVE  /\ l = Depth => points = Total
         /\ l # Depth => \E e \in Nat :
              /\ points = (e + 1) * Below[l + 1] /\ e * Below[l + 1] < Total
              /\ \A m \in Levels : m > l => val[m] = RowStart(l + 1, e)[m]
<1>1. ~ (points = 0 /\ l = 1 /\ val = Start)
  BY DEF NoEmptyLevel
<1>2. PICK d \in Nat : /\ points = (d + 1) * Below[l] /\ d * Below[l] < Total
                      /\ val[l] = RowStart(l, d)[l] + Step[l]
                      /\ \A m \in Levels : m > l => val[m] = RowStart(l, d)[m]
  BY <1>1 DEF Stepped
<1>3. PICK e \in Nat, r \in 0 .. Count(l) - 1 :
           /\ RowStart(l, d)[l] + Step[l] = Start[l] + (r + 1) * Step[l]
           /\ \A m \in Levels : m > l => RowStart(l, d)[m] = RowStart(l + 1, e)[m]
           /\ e * Below[l + 1] < Total
           /\ r + 1 >= Count(l) =>
                /\ (d + 1) * Below[l] = (e + 1) * Below[l + 1]
                /\ l = Depth => (d + 1) * Below[l] = Total
  BY <1>2, SteppedRow
<1>4. r + 1 >= Count(l)
  <2>1. Count(l) \in Nat /\ r \in Nat
    BY Counted DEF NoEmptyLevel
  <2>2. Past(l, Start[l] + (r + 1) * Step[l])
    BY <1>2, <1>3
  <2> DEFINE n == r + 1
  <2>3. n \in Nat
    BY <2>1
  <2> HIDE DEF n
  <2>4. n >= Count(l)
    BY <2>2, <2>3, Counted DEF NoEmptyLevel, n
  <2> QED BY <2>4 DEF n
<1> QED BY <1>2, <1>3, <1>4

\* A level steps, and the sweep goes on or pauses there.
LEMMA AdvanceStepped ==
  ASSUME NoEmptyLevel, CountInv, NEW l \in Levels, Advance(l), points' \in Nat,
         NEW d \in Nat, points' = (d + 1) * Below[l], d * Below[l] < Total,
         \A m \in Levels : m >= l => val[m] = RowStart(l, d)[m]
  PROVE  CountInv'
<1>1. Levels = 1 .. Depth /\ Depth \in Nat
  BY TotalIs
<1>2. /\ val \in [Levels -> Int] /\ Step[l] \in Int
      /\ val' = [val EXCEPT ![l] = val[l] + Step[l]]
  BY SweepAssumption DEF CountInv, Advance
<1>3. val' \in [Levels -> Int] /\ val'[l] = val[l] + Step[l]
      /\ \A m \in Levels : m > l => val'[m] = val[m]
  BY <1>1, <1>2
<1>4. Stepped(l)'
  <2>1. val'[l] = RowStart(l, d)[l] + Step[l]
    BY <1>1, <1>3
  <2>2. \A m \in Levels : m > l => val'[m] = RowStart(l, d)[m]
    BY <1>1, <1>3
  <2> QED BY <2>1, <2>2 DEF Stepped
<1>5. \/ at' = "test" /\ level' = l
      \/ at' = "idle" /\ nest' = l
  BY DEF Advance
<1> QED BY <1>3, <1>4, <1>5 DEF CountInv

LEMMA DumpCounts ==
  ASSUME NoEmptyLevel, CountInv, Dump PROVE CountInv'
<1>1. /\ points < Total /\ val = Point(points) /\ points' = points + 1
      /\ points \in Nat /\ Advance(1)
  BY DEF Dump, CountInv, NextUp
<1>2. 1 \in Levels /\ Below[1] = 1
  BY TotalIs
<1>3. points * Below[1] = points /\ (points + 1) * Below[1] = points + 1 /\ points' \in Nat
  BY <1>1, <1>2
<1>4. \A m \in Levels : val[m] = RowStart(1, points)[m]
  BY <1>1, <1>3 DEF RowStart
<1> QED BY <1>1, <1>2, <1>3, <1>4, AdvanceStepped

LEMMA LevelDoneCounts ==
  ASSUME NoEmptyLevel, CountInv, LevelDone, save \in [Levels -> Int] PROVE CountInv'
<1>1. /\ level \in Levels /\ Stepped(level) /\ Past(level, val[level])
      /\ points' = points /\ points \in Nat
  BY DEF LevelDone, CountInv
<1>2. CASE level = Depth
  BY <1>1, <1>2 DEF LevelDone, CountInv
<1>3. CASE level # Depth
  <2>1. level + 1 \in Levels /\ \A m \in Levels : m >= level + 1 => m > level
    BY <1>1, <1>3, TotalIs
  <2>2. PICK e \in Nat :
              /\ points = (e + 1) * Below[level + 1] /\ e * Below[level + 1] < Total
              /\ \A m \in Levels : m > level => val[m] = RowStart(level + 1, e)[m]
    BY <1>1, <1>3, LevelOver
  <2>3. Advance(level + 1)
    BY <1>3 DEF LevelDone
  <2> DEFINE h == level + 1
  <2> HIDE DEF h
  <2>4. h \in Levels /\ Advance(h) /\ points' = (e + 1) * Below[h] /\ e * Below[h] < Total
        /\ \A m \in Levels : m >= h => val[m] = RowStart(h, e)[m]
    BY <1>1, <2>1, <2>2, <2>3 DEF h
  <2> QED BY <1>1, <2>4, AdvanceStepped
<1> QED BY <1>2, <1>3

LEMMA PointCounts ==
  ASSUME NoEmptyLevel, CountInv, FirstPoint \/ \E o \in Outcome : NextPoint(o)
  PROVE  CountInv'
<1>1. /\ level \in Levels /\ Stepped(level) /\ ~ Past(level, val[level])
      /\ points' = points /\ points \in Nat /\ val' = Reset(level)
      /\ at' \in {"eval", "quick"}
  BY DEF FirstPoint, NextPoint, CountInv
<1>2. NextUp(Reset(level))
  BY <1>1, ResetReaches
<1>3. Reset(level) \in [Levels -> Int]
  BY SweepAssumption DEF Reset, CountInv
<1> QED BY <1>1, <1>2, <1>3 DEF CountInv, NextUp

\* The steps of an operating point do not touch the sweep.
LEMMA PointSteps ==
  ASSUME QuickDone \/ ((EvtOpStep \/ AnalogStep \/ CKTopStep) /\ UNCHANGED dcvars)
  PROVE  /\ at \notin {"idle", "test"} /\ at' \notin {"idle", "test"}
         /\ UNCHANGED dcvars
<1>1. CASE QuickDone
  BY <1>1 DEF QuickDone
<1>2. CASE EvtOpStep /\ UNCHANGED dcvars
  <2>1. CASE \E v \in Values : (\E i \in Insts : EVTload(i, v)) \/ CallHybrid(v)
    BY <1>2, <2>1 DEF EVTload, CallHybrid
  <2>2. CASE EvalNodes \/ EndPass \/ OpReturned \/ Alternate
    BY <1>2, <2>2 DEF EvalNodes, EndPass, OpReturned, Alternate
  <2> QED BY <1>2, <2>1, <2>2 DEF EvtOpStep
<1>3. CASE AnalogStep /\ UNCHANGED dcvars
  BY <1>3 DEF AnalogStep, FirstAnalog, NextAnalog, Call, StartGmin, StartSrc, StartOptran,
              Goto, Return
<1>4. CASE CKTopStep /\ UNCHANGED dcvars
  <2>1. PICK o \in Outcome :
       \/ Direct(o) \/ DynamicGmin(o) \/ DynamicLast(o) \/ NewGmin(o)
       \/ Spice3Gmin(o) \/ GminLast(o)
       \/ Zero(o) \/ ZeroGmin(o) \/ RaiseSources(o) \/ Spice3Src(o)
       \/ OPtran(o)
    BY <1>4 DEF CKTopStep, OpStep
  <2>2. CASE Direct(o) \/ DynamicGmin(o) \/ DynamicLast(o) \/ NewGmin(o)
             \/ Spice3Gmin(o) \/ GminLast(o)
    BY <1>4, <2>2 DEF Direct, DynamicGmin, DynamicLast, NewGmin, Spice3Gmin, GminLast,
                 StartGmin, StartSrc, StartOptran, Goto, Return
  <2>3. CASE Zero(o) \/ ZeroGmin(o) \/ RaiseSources(o) \/ Spice3Src(o) \/ OPtran(o)
    BY <1>4, <2>3 DEF Zero, ZeroGmin, RaiseSources, Spice3Src, OPtran, StartRaise, ZeroFails,
                 StartOptran, Goto, Return
  <2> QED BY <2>1, <2>2, <2>3
<1> QED BY <1>1, <1>2, <1>3, <1>4

LEMMA SweepInvKept ==
  ASSUME NoEmptyLevel, SweepInv, NoTempPaused, [DCNext]_allvars PROVE SweepInv'
<1>1. CASE Run
  <2>1. /\ at' = "test" /\ level' = 1 /\ val' = Start /\ points' = 0 /\ inprogress'
        /\ save' = TaskVal /\ spoiled' = (spoiled \/ val # Given)
    BY <1>1 DEF Run, Saved
  <2>2. CountInv'
    BY <2>1, SweepAssumption, TotalIs DEF CountInv, Stepped
  <2>3. val = Given => TaskVal = Given
    BY SweepAssumption DEF TaskVal
  <2>4. TaskVal \in [Levels -> Int]
    BY SweepAssumption DEF TaskVal, SweepInv, CountInv
  <2> QED BY <2>1, <2>2, <2>3, <2>4 DEF SweepInv, BackInv, SourcesBack
<1>2. CASE Resume
  <2>1. /\ at = "idle" /\ inprogress /\ at' = "test" /\ level' = nest /\ val' = TaskVal
        /\ UNCHANGED <<save, inprogress, points, spoiled>>
    BY <1>2 DEF Resume
  <2>2. TaskVal = val
    BY <2>1 DEF TaskVal, NoTempPaused, SweepInv, CountInv
  <2> QED BY <2>1, <2>2 DEF SweepInv, BackInv, SourcesBack, CountInv, Stepped
<1>3. CASE LevelDone
  <2>1. CountInv'
    BY <1>3, LevelDoneCounts DEF SweepInv, BackInv
  <2>2. at = "test" /\ inprogress /\ UNCHANGED <<save, points, spoiled>>
    BY <1>3 DEF LevelDone, SweepInv, BackInv
  <2>3. \/ val' = save /\ at' = "idle" /\ ~ inprogress'
        \/ inprogress'
    BY <1>3, <2>2 DEF LevelDone
  <2> QED BY <2>1, <2>2, <2>3 DEF SweepInv, BackInv, SourcesBack
<1>4. CASE FirstPoint \/ \E o \in Outcome : NextPoint(o)
  <2>1. CountInv'
    BY <1>4, PointCounts DEF SweepInv
  <2>2. at = "test" /\ at' # "idle" /\ UNCHANGED <<save, inprogress, spoiled>>
    BY <1>4 DEF FirstPoint, NextPoint
  <2> QED BY <2>1, <2>2 DEF SweepInv, BackInv, SourcesBack
<1>5. CASE QuickDone \/ ((EvtOpStep \/ AnalogStep \/ CKTopStep) /\ UNCHANGED dcvars)
  BY <1>5, PointSteps DEF SweepInv, CountInv, BackInv, SourcesBack, NextUp, dcvars
<1>6. CASE Dump
  <2>1. CountInv'
    BY <1>6, DumpCounts DEF SweepInv
  <2>2. at = "solved" /\ UNCHANGED <<save, inprogress, spoiled>>
    BY <1>6 DEF Dump
  <2> QED BY <2>1, <2>2 DEF SweepInv, BackInv, SourcesBack
<1>7. CASE Fail
  <2>1. /\ at = "failed" /\ at' = "idle" /\ ~ inprogress' /\ points < Total /\ points \in Nat
        /\ UNCHANGED <<val, save, points, spoiled>>
    BY <1>7 DEF Fail, SweepInv, CountInv, NextUp
  <2>2. Total \in Nat /\ points # Total
    BY <2>1, TotalIs
  <2> QED BY <2>1, <2>2 DEF SweepInv, CountInv, BackInv, SourcesBack, Total
<1>8. CASE UNCHANGED allvars
  BY <1>8 DEF allvars, evtvars, opvars, dcvars, SweepInv, CountInv, BackInv, SourcesBack,
              Stepped, NextUp
<1> QED BY <1>1, <1>2, <1>3, <1>4, <1>5, <1>6, <1>7, <1>8 DEF DCNext, Internal

LEMMA InitSweep == DCInit => SweepInv
BY SweepAssumption DEF DCInit, SweepInv, CountInv, BackInv, SourcesBack

\* The counting invariant of the sweep holds: rows of points are put out one after
\* the other, through all pauses.
THEOREM SweepInvHolds ==
  ASSUME NoEmptyLevel PROVE DCSpec /\ []NoTempPaused => []SweepInv
<1>1. SweepInv /\ NoTempPaused /\ [DCNext]_allvars => SweepInv'
  BY SweepInvKept
<1> QED BY <1>1, InitSweep, PTL DEF DCSpec

\* An operating point is the first after a command, or the levels below one that
\* has stepped start again.
RowInv ==
  /\ at = "test" /\ firstTime => rows = 0 \/ level > 1
  /\ at \notin {"idle", "test"} /\ firstTime => rows = 0 \/ val[1] = Start[1]

LEMMA RowInvKept ==
  ASSUME SweepInv, RowInv, [DCNext]_allvars PROVE RowInv'
<1>1. CASE Run \/ Resume
  BY <1>1 DEF Run, Resume, RowInv
<1>2. CASE LevelDone
  <2>1. level \in Nat /\ level > 0 /\ at = "test" /\ at' \in {"idle", "test"}
    <3>1. at = "test" /\ at' \in {"idle", "test"}
      BY <1>2 DEF LevelDone, Advance
    <3>2. level \in Levels
      BY <3>1 DEF SweepInv, CountInv
    <3>3. \A l \in Levels : l \in Nat /\ l > 0
      BY SweepAssumption
    <3> QED BY <3>1, <3>2, <3>3
  <2>2. at' = "test" => level' = level + 1
    BY <1>2 DEF LevelDone, Advance
  <2>3. at' = "test" => level' > 1
    BY <2>1, <2>2
  <2> QED BY <2>1, <2>3 DEF RowInv
<1>3. CASE FirstPoint
  <2>1. /\ at = "test" /\ at' = "eval" /\ UNCHANGED rows
        /\ firstTime /\ val' = Reset(level)
    BY <1>3 DEF FirstPoint
  <2>2. level > 1 => Reset(level)[1] = Start[1]
    BY SweepAssumption DEF Reset
  <2> QED BY <2>1, <2>2 DEF RowInv
<1>4. CASE \E o \in Outcome : NextPoint(o)
  BY <1>4 DEF NextPoint, RowInv
<1>5. CASE QuickDone \/ ((EvtOpStep \/ AnalogStep \/ CKTopStep) /\ UNCHANGED dcvars)
  BY <1>5, PointSteps DEF RowInv, dcvars
<1>6. CASE Dump
  BY <1>6 DEF Dump, Advance, RowInv
<1>7. CASE Fail
  BY <1>7 DEF Fail, RowInv
<1>8. CASE UNCHANGED allvars
  BY <1>8 DEF allvars, evtvars, opvars, dcvars, RowInv
<1> QED BY <1>1, <1>2, <1>3, <1>4, <1>5, <1>6, <1>7, <1>8 DEF DCNext, Internal

\* The points are put out in order, none twice, for any levels and values, however
\* often the sweep is interrupted, and a caller who wants event data has a second
\* row only for the first after a command or in a row of points (PointsInOrder).
THEOREM SweepInOrder ==
  ASSUME NoEmptyLevel PROVE DCSpec /\ []NoTempPaused => PointsInOrder
<1>1. ASSUME SweepInv, RowInv, [DCNext]_allvars, points' = points + 1
      PROVE  /\ points < Below[Depth + 1] /\ val = Point(points)
             /\ rows' = 1 \/ (wantevtdata /\ (rows = 0 \/ val[1] = Start[1]))
  <2>1. points \in Nat /\ points' # points /\ points' # 0
    BY <1>1 DEF SweepInv, CountInv
  <2>2. ~ UNCHANGED dcvars /\ points' # points
    BY <2>1 DEF dcvars
  <2>3. Dump
    <3>1. ~ (Run \/ Resume \/ LevelDone \/ FirstPoint \/ Fail \/ \E o \in Outcome : NextPoint(o))
      BY <2>1 DEF Run, Resume, LevelDone, FirstPoint, Fail, NextPoint
    <3>2. ~ QuickDone
      BY <2>2 DEF QuickDone
    <3> QED BY <1>1, <2>2, <3>1, <3>2 DEF DCNext, Internal, allvars
  <2>4. points < Below[Depth + 1] /\ val = Point(points)
    BY <1>1, <2>3 DEF Dump, SweepInv, CountInv, NextUp, Total
  <2>5. rows' = 1 \/ (wantevtdata /\ (rows = 0 \/ val[1] = Start[1]))
    BY <1>1, <2>3 DEF Dump, RowInv
  <2> QED BY <2>4, <2>5
<1>2. SweepInv /\ RowInv /\ [DCNext]_allvars =>
        [points' = points + 1 =>
           /\ points < Below[Depth + 1] /\ val = Point(points)
           /\ rows' = 1 \/ (wantevtdata /\ (rows = 0 \/ val[1] = Start[1]))]_allvars
  BY <1>1
<1>3. DCInit => RowInv
  BY DEF DCInit, RowInv
<1>4. SweepInv /\ RowInv /\ [DCNext]_allvars => RowInv'
  BY RowInvKept
<1> QED BY <1>2, <1>3, <1>4, SweepInvHolds, PTL DEF DCSpec, PointsInOrder

\* A sweep that ends without an error has put out all of its points
\* (SweepComplete).
THEOREM SweepsComplete ==
  ASSUME NoEmptyLevel PROVE DCSpec /\ []NoTempPaused => SweepComplete
<1>1. ASSUME SweepInv, [DCNext]_allvars, at = "test", at' = "idle", ~ inprogress'
      PROVE  points = Below[Depth + 1]
  <2>1. inprogress
    BY <1>1 DEF SweepInv, BackInv
  <2>2. LevelDone
    <3>1. ~ (Run \/ Resume \/ FirstPoint \/ Fail \/ Dump \/ \E o \in Outcome : NextPoint(o))
      BY <1>1 DEF Run, Resume, FirstPoint, Fail, Dump, NextPoint
    <3>2. ~ (QuickDone \/ ((EvtOpStep \/ AnalogStep \/ CKTopStep) /\ UNCHANGED dcvars))
      BY <1>1, PointSteps
    <3>3. ~ UNCHANGED allvars
      BY <1>1 DEF allvars, evtvars, opvars
    <3> QED BY <1>1, <3>1, <3>2, <3>3 DEF DCNext, Internal
  <2>3. level = Depth
    BY <1>1, <2>1, <2>2 DEF LevelDone
  <2> QED BY <1>1, <2>2, <2>3, LevelOver DEF LevelDone, SweepInv, CountInv, Total
<1>2. SweepInv /\ [DCNext]_allvars =>
        [at = "test" /\ at' = "idle" /\ ~ inprogress' => points = Below[Depth + 1]]_allvars
  BY <1>1
<1> QED BY <1>2, SweepInvHolds, PTL DEF DCSpec, SweepComplete

\* Then the sources are what the netlist made them, unless a sweep was given up
\* (SourcesBack).
THEOREM SweepPutsBack ==
  ASSUME NoEmptyLevel PROVE DCSpec /\ []NoTempPaused => []SourcesBack
<1>1. SweepInv => SourcesBack
  BY DEF SweepInv, BackInv
<1> QED BY <1>1, SweepInvHolds, PTL
=============================================================================
