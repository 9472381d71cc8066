----------------------------- MODULE EvtRecord -----------------------------
(***************************************************************************)
(* What the event side promises to remember of what it keeps by time (the   *)
(* state of an instance, the value of a node): for each key a sequence of   *)
(* values with the event time of each.  Writing adds to it, going back to a *)
(* time takes away exactly what was written later, and accepting a          *)
(* timepoint may forget what came before the value that holds.              *)
(***************************************************************************)
EXTENDS Integers, Sequences

CONSTANTS Keys, Values,
          MaxTime   \* bound on simulation time

VARIABLES record,   \* record[k]: entries, oldest first
          clock,    \* the event time
          base      \* the last accepted timepoint

vars == <<record, clock, base>>

Time == 0 .. MaxTime

Entry == [step : Time, val : Values]

\* How many entries of s are not later than t.
CountBy(s, t) ==
  CHOOSE n \in 1 .. Len(s) : /\ s[n].step <= t
                             /\ n = Len(s) \/ s[n + 1].step > t

Upto(s, t) == SubSeq(s, 1, CountBy(s, t))

Init ==
  /\ record \in [Keys -> {<<e>> : e \in [step : {0}, val : Values]}]
  /\ clock = 0 /\ base = 0

\* The keys in the domain of new get a value each.
Write(new) ==
  /\ record' = [k \in Keys |->
                  IF k \in DOMAIN new
                  THEN Append(record[k], [step |-> clock, val |-> new[k]])
                  ELSE record[k]]
  /\ UNCHANGED <<clock, base>>

Advance(t) ==
  /\ clock <= t
  /\ clock' = t
  /\ UNCHANGED <<record, base>>

\* The clock's time is accepted; of the keys in ks only the last entry is kept.
Accept(ks) ==
  /\ base' = clock
  /\ record' = [k \in Keys |-> IF k \in ks THEN <<record[k][Len(record[k])]>>
                                ELSE record[k]]
  /\ UNCHANGED clock

Retract(t) ==
  /\ base < t /\ t < clock
  /\ clock' = t
  /\ record' = [k \in Keys |-> Upto(record[k], t)]
  /\ UNCHANGED base

Next ==
  \/ \E ks \in SUBSET Keys : \E new \in [ks -> Values] : Write(new)
  \/ \E t \in Time : Advance(t) \/ Retract(t)
  \/ \E ks \in SUBSET Keys : Accept(ks)

Spec == Init /\ [][Next]_vars
=============================================================================
