------------------------------ MODULE DynamicPasses ------------------------------
(***************************************************************************)
(* The passes over the run block: measurements put off past the if that    *)
(* reads them, ifs side by side made one, and what the OpenQASM emitter    *)
(* accepts of the result.  A deferred measurement keeps the bit of the one *)
(* it replaces: the code makes a new value that nobody reads.              *)
(***************************************************************************)
EXTENDS Circuits, FiniteSets, FiniteSetsExt

IsIf(op) == op.op = "if"
IsMeasure(op) == op.op = "measure"

\* A gate rebuilt from its name and targets, without its angle.
Moved(gate, offset) == Gate(gate.name, [i \in DOMAIN gate.on |-> gate.on[i] + offset])
MovedAll(gates, offset) == [i \in DOMAIN gates |-> Moved(gates[i], offset)]

---------------------------------------------------------------------------------
\* measurement_deferral

\* The gates of a sequence that have one of the names.
Named(gates, names) ==
  LET found[i \in 0 .. Len(gates)] ==
        IF i = 0 THEN <<>>
        ELSE IF gates[i].name \in names THEN Append(found[i - 1], gates[i]) ELSE found[i - 1]
  IN found[Len(gates)]

\* Then after the inverse of else; an inverse that has an angle is left out.
ComposeUVDagger(then, else) ==
  LET invertible == Named(else, DOMAIN InverseOf \ Parametric)
  IN LET g(i) == invertible[Len(invertible) + 1 - i]
     IN [i \in DOMAIN invertible |-> Gate(InverseOf[g(i).name], g(i).on)] \o then

Controllable(gate) == Len(gate.on) = 1 /\ gate.name \in {"X", "Z"}
ControlledGate(gate) == Gate(IF gate.name = "X" THEN "CNOT" ELSE "CZ", <<1>> \o gate.on)

\* The only if that reads the bit, if nothing else does; 0 otherwise.
ReaderOf(body, bit) ==
  LET readers == {i \in DOMAIN body : IsIf(body[i]) /\ body[i].bit = bit}
  IN IF Cardinality(readers) = 1 THEN CHOOSE i \in readers : TRUE ELSE 0

DeferMeasurement(body, bit) ==
  LET at == CHOOSE i \in DOMAIN body : IsMeasure(body[i]) /\ body[i].bit = bit
      measure == body[at]
      reader == ReaderOf(body, bit)
      branch == body[reader]
      then == MovedAll(branch.then, 1)
      else == MovedAll(branch.else, 1)
      corrections == Named(ComposeUVDagger(then, else), DOMAIN InverseOf \ {"I"})
      region == Region(measure.on \o branch.on,
                       else \o [i \in DOMAIN corrections |-> ControlledGate(corrections[i])])
  IN IF reader # 0 /\ \A i \in DOMAIN corrections : Controllable(corrections[i])
     THEN RemoveAt(ReplaceAt(InsertAt(body, reader + 1, measure), reader, region), at)
     ELSE body

\* The measurements the block starts with, from the last to the first.
MeasurementDeferral(body) ==
  LET deferred[i \in 0 .. Len(body)] ==
        IF i = 0 THEN body
        ELSE LET op == body[Len(body) + 1 - i]
             IN IF IsMeasure(op) THEN DeferMeasurement(deferred[i - 1], op.bit) ELSE deferred[i - 1]
  IN deferred[Len(body)]

---------------------------------------------------------------------------------
\* classical_region_fusion

OnlyGates(branch) == \A i \in DOMAIN branch : branch[i].op = "gate"
Simple(branch) == OnlyGates(branch.then) /\ OnlyGates(branch.else)

\* The condition of neither is measured inside the other: branches never measure.
CanFuse(first, second) ==
  /\ IsIf(first) /\ IsIf(second)
  /\ Range(first.on) \cap Range(second.on) = {}

FuseSame(first, second) ==
  LET n == Len(first.on)
      Joined(left, right) == MovedAll(left, 0) \o MovedAll(right, n)
  IN If(first.bit, first.on \o second.on,
        Joined(first.then, second.then), Joined(first.else, second.else))

\* The second if inside both branches of the first.
FuseIndependent(first, second) ==
  LET n == Len(first.on)
      inner == If(second.bit, [i \in DOMAIN second.on |-> n + i],
                  MovedAll(second.then, 0), MovedAll(second.else, 0))
      Nesting(branch) == Append(MovedAll(branch, 0), inner)
  IN If(first.bit, first.on \o second.on, Nesting(first.then), Nesting(first.else))

\* Mutant: the nested shape also for ifs on one bit.
FusePairNested(first, second) == FuseIndependent(first, second)

FusePair(first, second) ==
  IF first.bit = second.bit THEN FuseSame(first, second) ELSE FuseIndependent(first, second)

\* Pairs that can be fused; a branch that holds more than gates is an error and
\* its pair is left.
FusablePairs(body) ==
  {i \in 1 .. Len(body) - 1 :
     CanFuse(body[i], body[i + 1]) /\ Simple(body[i]) /\ Simple(body[i + 1])}

FuseFirst(body) ==
  LET i == Min(FusablePairs(body))
  IN RemoveAt(ReplaceAt(body, i, FusePair(body[i], body[i + 1])), i + 1)

\* Every fusion takes one operation away, and the scan starts again after it.
ClassicalRegionFusion(body) ==
  LET fused[i \in 0 .. Len(body)] ==
        IF i = 0 THEN body
        ELSE IF FusablePairs(fused[i - 1]) = {} THEN fused[i - 1] ELSE FuseFirst(fused[i - 1])
  IN fused[Len(body)]

---------------------------------------------------------------------------------
\* Emission of OpenQASM.  Gates of the run block itself are skipped, so the value
\* they produce has no qubit and a later use of it is an error; an if inside a
\* branch is an unexpected operation; a gate without a keyword is not native.

NoKeyword == {"iSWAP"}

Unassigned(body) ==
  \E i \in DOMAIN body : body[i].op = "gate" /\
    \E j \in i + 1 .. Len(body) : body[j].op # "gate" /\ Wires(body[j]) \cap Wires(body[i]) # {}

EmitsGates(gates) == \A i \in DOMAIN gates : gates[i].op = "gate" /\ gates[i].name \notin NoKeyword

Emits(body) ==
  /\ ~Unassigned(body)
  /\ \A i \in DOMAIN body :
       /\ body[i].op = "region" => EmitsGates(body[i].gates)
       /\ IsIf(body[i]) => EmitsGates(body[i].then) /\ EmitsGates(body[i].else)
=================================================================================
