-------------------------------- MODULE CKTop --------------------------------
(***************************************************************************)
(* The analog operating point: CKTop and the methods it tries one after the *)
(* other when Newton iteration does not converge (cktop.c): gmin stepping,  *)
(* source stepping, and last a transient analysis (optran.c).               *)
(*                                                                          *)
(* NIiter is the environment: a call of it converges in few, some or many   *)
(* iterations, or not.  A conductance is its logarithm in whole units, 0    *)
(* standing for no conductance at all; so a factor is a number of units,    *)
(* its square root half of them.  The source factor is a number of equal    *)
(* steps.  What matters of a solution is the circuit it was found for.      *)
(***************************************************************************)
EXTENDS Integers

CONSTANTS Options,  \* the option settings considered
          Gmin,     \* .option gmin
          Gshunt,   \* .option gshunt
          Top,      \* 1e-2
          Factor,   \* CKTgminFactor, and the ten of gillespie_src
          Eps,      \* 1.00005, below which a factor is too small (at least 4: its fourth root counts)
          Three,    \* the least factor of new_gmin after many iterations
          Whole,    \* a source factor of 1
          Raise,    \* the first step of gillespie_src
          Ten       \* gmin steps of gillespie_src for sources at zero

ASSUME OpAssumption ==
  /\ Options \subseteq [noOpIter : BOOLEAN, numGminSteps : Nat, numSrcSteps : Nat,
                        dyngmin : BOOLEAN, optran : BOOLEAN]
  /\ Gmin \in Nat \ {0} /\ Gshunt \in Nat
  /\ Factor \in Nat /\ Eps \in 4 .. Factor /\ Three \in Eps .. Factor
  /\ Top \in Nat /\ Gmin < Top - Factor /\ Gshunt < Top - Factor
  /\ Whole \in Nat \ {0} /\ Raise \in 1 .. Whole /\ Ten \in Nat

VARIABLES opt,       \* the options
          at,        \* the NIiter call that is next
          gmin, diag, srcFact,   \* CKTgmin, CKTdiagGmin, CKTsrcFact
          loc,       \* local variables of the method running
          result,    \* what CKTop returned last
          solved     \* history: the settings of the last NIiter that converged

knobs == <<gmin, diag, srcFact>>
opvars == <<opt, at, gmin, diag, srcFact, loc, result, solved>>

Outcome == {"fast", "even", "slow", "fail"}   \* of NIiter

Least(a, b) == IF a < b THEN a ELSE b
Most(a, b) == IF a < b THEN b ELSE a

NoLocals == [factor |-> 0]

\* NIiter has found a solution, or not, of the circuit as it is set.
Solves(out) ==
  solved' = IF out = "fail" THEN solved
            ELSE [gmin |-> gmin, diag |-> diag, srcFact |-> srcFact]

Return(r) == at' = "returned" /\ result' = r /\ loc' = NoLocals

Goto(next, locals) == at' = next /\ loc' = locals /\ UNCHANGED result

-----------------------------------------------------------------------------
(* The methods in the order CKTop tries them.                               *)

\* OPtran; without it the result is that of the method before it.
StartOptran == IF opt.optran THEN Goto("optran", NoLocals) ELSE Return("fail")

\* Sources at zero, or at the first of equal steps.  The caller sets gmin, diag.
StartSrc ==
  IF opt.numSrcSteps = 0 THEN StartOptran /\ srcFact' = srcFact
  ELSE /\ srcFact' = 0
       /\ IF opt.numSrcSteps = 1 THEN Goto("zero", [conv |-> 0, raise |-> Raise])
          ELSE Goto("spice3_src", [i |-> 0])

GminLocals == [factor |-> Factor, old |-> Top]

StartGmin ==
  /\ UNCHANGED gmin
  /\ IF opt.numGminSteps = 0 THEN StartSrc /\ diag' = diag
     ELSE /\ UNCHANGED srcFact
          /\ IF opt.numGminSteps = 1
             THEN diag' = Top - Factor /\ Goto("dynamic_gmin", GminLocals)
             ELSE /\ diag' = (IF Gshunt = 0 THEN gmin ELSE Gshunt)
                                + opt.numGminSteps * Factor
                  /\ Goto("spice3_gmin", [i |-> 0])

\* CKTop is called.
Call ==
  /\ UNCHANGED solved
  /\ IF opt.noOpIter THEN StartGmin
     ELSE Goto("direct", NoLocals) /\ UNCHANGED knobs

Direct(out) ==
  /\ at = "direct"
  /\ Solves(out)
  /\ IF out = "fail" THEN StartGmin ELSE Return("ok") /\ UNCHANGED knobs

-----------------------------------------------------------------------------
(* dynamic_gmin lowers CKTdiagGmin, new_gmin CKTgmin, each to its target:   *)
(* in larger steps where it is easy, in smaller ones where it is not.       *)

\* The step and the conductance after NIiter, with `knob' the present one.
Adapt(knob, out, target, least) ==
  LET f == CASE out = "fast" -> Least(loc.factor + loc.factor \div 2, Factor)
             [] out = "slow" -> Most(loc.factor \div 2, least)
             [] out = "even" -> loc.factor
             [] out = "fail" -> loc.factor \div 4
  IN IF out = "fail" THEN [factor |-> f, old |-> loc.old, knob |-> loc.old - f]
     ELSE IF knob < f + target
          THEN [factor |-> knob - target, old |-> knob, knob |-> target]
     ELSE [factor |-> f, old |-> knob, knob |-> knob - f]

\* A mutant: a step too small is no reason to stop.
NeverOver(knob, out, target) == out # "fail" /\ knob <= target

\* The stepping is over: at the target, or the step was too small already.
Over(knob, out, target) == IF out = "fail" THEN loc.factor < Eps ELSE knob <= target

DynamicGmin(out) ==
  LET target == Most(gmin, Gshunt)
      a == Adapt(diag, out, target, Eps)
  IN
  /\ at = "dynamic_gmin"
  /\ Solves(out)
  /\ IF Over(diag, out, target)
     THEN diag' = Gshunt /\ Goto("dynamic_last", NoLocals)
     ELSE /\ diag' = a.knob
          /\ Goto("dynamic_gmin", [factor |-> a.factor, old |-> a.old])
  /\ UNCHANGED <<gmin, srcFact>>

\* Gmin stepping is followed by a last NIiter, at the settings reached.
DynamicLast(out) ==
  /\ at = "dynamic_last"
  /\ Solves(out)
  /\ IF out # "fail" THEN Return("ok") /\ UNCHANGED knobs
     ELSE IF opt.dyngmin THEN StartSrc /\ UNCHANGED <<gmin, diag>>
     ELSE /\ gmin' = Top - Factor
          /\ Goto("new_gmin", [factor |-> Factor, old |-> Top, start |-> gmin])
          /\ UNCHANGED <<diag, srcFact>>

NewGmin(out) ==
  LET target == Most(loc.start, Gshunt)
      a == Adapt(gmin, out, target, Three)
  IN
  /\ at = "new_gmin"
  /\ Solves(out)
  /\ IF Over(gmin, out, target)
     THEN gmin' = target /\ Goto("gmin_last", NoLocals)
     ELSE /\ gmin' = a.knob
          /\ Goto("new_gmin", [factor |-> a.factor, old |-> a.old, start |-> loc.start])
  /\ UNCHANGED <<diag, srcFact>>

\* A mutant: CKTdiagGmin is left where the steps ended.
Spice3GminKeeps(out) ==
  /\ at = "spice3_gmin"
  /\ Solves(out)
  /\ IF out = "fail" \/ loc.i = opt.numGminSteps
     THEN diag' = diag /\ Goto("gmin_last", NoLocals)
     ELSE diag' = diag - Factor /\ Goto("spice3_gmin", [i |-> loc.i + 1])
  /\ UNCHANGED <<gmin, srcFact>>

Spice3Gmin(out) ==
  /\ at = "spice3_gmin"
  /\ Solves(out)
  /\ IF out = "fail" \/ loc.i = opt.numGminSteps
     THEN diag' = Gshunt /\ Goto("gmin_last", NoLocals)
     ELSE diag' = diag - Factor /\ Goto("spice3_gmin", [i |-> loc.i + 1])
  /\ UNCHANGED <<gmin, srcFact>>

GminLast(out) ==
  /\ at = "gmin_last"
  /\ Solves(out)
  /\ IF out # "fail" THEN Return("ok") /\ UNCHANGED knobs
     ELSE StartSrc /\ UNCHANGED <<gmin, diag>>

-----------------------------------------------------------------------------
(* gillespie_src: sources at zero, if need be with gmin stepping; then up,  *)
(* in steps that adapt.                                                     *)

StartRaise ==
  srcFact' = Raise /\ Goto("raise", [conv |-> 0, raise |-> Raise])

ZeroFails ==
  srcFact' = Whole /\ StartOptran

Zero(out) ==
  /\ at = "zero"
  /\ Solves(out)
  /\ IF out # "fail" THEN StartRaise /\ UNCHANGED diag
     ELSE /\ diag' = (IF Gshunt = 0 THEN gmin ELSE Gshunt) + Ten * Factor
          /\ Goto("zero_gmin", [i |-> 0])
          /\ UNCHANGED srcFact
  /\ UNCHANGED gmin

ZeroGmin(out) ==
  /\ at = "zero_gmin"
  /\ Solves(out)
  /\ IF out = "fail" THEN diag' = Gshunt /\ ZeroFails
     ELSE IF loc.i = Ten THEN diag' = Gshunt /\ StartRaise
     ELSE /\ diag' = diag - Factor
          /\ Goto("zero_gmin", [i |-> loc.i + 1]) /\ UNCHANGED srcFact
  /\ UNCHANGED gmin

\* The step after NIiter, and where it leads.
Raised(out) ==
  LET up == CASE out = "fast" -> loc.raise + (loc.raise + 1) \div 2
              [] out = "slow" -> loc.raise \div 2
              [] out = "even" -> loc.raise
              [] out = "fail" -> loc.raise \div 4
  IN IF out = "fail" THEN [conv |-> loc.conv, raise |-> up, to |-> loc.conv]
     ELSE [conv |-> srcFact, raise |-> up, to |-> Least(srcFact + loc.raise, Whole)]

RaiseSources(out) ==
  LET r == Raised(out)
      stop == \/ out = "fail" /\ srcFact = loc.conv
              \/ r.raise = 0 \/ r.conv = Whole
  IN
  /\ at = "raise"
  /\ Solves(out)
  /\ IF ~ stop
     THEN /\ srcFact' = r.to
          /\ Goto("raise", [conv |-> r.conv, raise |-> r.raise])
          /\ UNCHANGED diag
     ELSE /\ diag' = gmin
          /\ srcFact' = Whole
          /\ IF r.conv = Whole THEN Return("ok") ELSE StartOptran
  /\ UNCHANGED gmin

\* A mutant: a failed source step leaves the sources where they were.
Spice3SrcKeeps(out) ==
  /\ at = "spice3_src"
  /\ Solves(out)
  /\ IF out = "fail" THEN srcFact' = srcFact /\ StartOptran
     ELSE IF loc.i = opt.numSrcSteps THEN srcFact' = Whole /\ Return("ok")
     ELSE /\ srcFact' = ((loc.i + 1) * Whole) \div opt.numSrcSteps
          /\ Goto("spice3_src", [i |-> loc.i + 1])
  /\ UNCHANGED <<gmin, diag>>

Spice3Src(out) ==
  /\ at = "spice3_src"
  /\ Solves(out)
  /\ IF out = "fail" THEN srcFact' = Whole /\ StartOptran
     ELSE IF loc.i = opt.numSrcSteps THEN srcFact' = Whole /\ Return("ok")
     ELSE /\ srcFact' = ((loc.i + 1) * Whole) \div opt.numSrcSteps
          /\ Goto("spice3_src", [i |-> loc.i + 1])
  /\ UNCHANGED <<gmin, diag>>

\* OPtran as a whole, without supply ramping.
OPtran(out) ==
  /\ at = "optran"
  /\ Solves(out)
  /\ Return(IF out = "fail" THEN "fail" ELSE "ok")
  /\ UNCHANGED knobs

OpStep ==
  /\ \E out \in Outcome :
       \/ Direct(out) \/ DynamicGmin(out) \/ DynamicLast(out) \/ NewGmin(out)
       \/ Spice3Gmin(out) \/ GminLast(out)
       \/ Zero(out) \/ ZeroGmin(out) \/ RaiseSources(out) \/ Spice3Src(out)
       \/ OPtran(out)
  /\ UNCHANGED opt

-----------------------------------------------------------------------------
(* Properties.                                                              *)

\* The state has the shape the code's types give it.
OpTypeOK ==
  /\ opt \in Options
  /\ gmin \in Nat /\ diag \in Nat /\ srcFact \in 0 .. Whole
  /\ result \in {"ok", "fail"}
  /\ solved \in [gmin : Nat, diag : Nat, srcFact : 0 .. Whole]

SourceStepping == at \in {"zero", "zero_gmin", "raise", "spice3_src"}

\* "Note that no path out of this code allows ckt->CKTsrcFact to be anything but
\* 1.00000": outside source stepping the sources have their normal values.
SourcesWhole == SourceStepping \/ srcFact = Whole

\* An operating point that is returned is one of the circuit as it is: the last
\* NIiter that converged had all of the sources, and no conductance in it that
\* helped to get there, but gmin, which source stepping may leave in CKTdiagGmin.
SolvesTheCircuit ==
  at = "returned" /\ result = "ok" =>
    /\ solved.srcFact = Whole
    /\ solved.gmin = gmin /\ gmin <= Most(Gmin, Gshunt)
    /\ solved.diag <= Most(Gmin, Gshunt)
=============================================================================
