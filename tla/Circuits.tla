-------------------------------- MODULE Circuits --------------------------------
(***************************************************************************)
(* Gates, the part of the gate registry the passes read, programs of the   *)
(* quantum.dynamic dialect, and what they mean.  SSA values are abstracted *)
(* to wires: a gate's results continue its operands, so a value is known   *)
(* by its wire and its place in the order.  Angles are in units of pi/4.   *)
(*                                                                         *)
(* The meaning is exact.  An amplitude <<a, b, c, d>> stands for           *)
(* a + b w + c w^2 + d w^3 with w the eighth root of unity; Hadamards are  *)
(* left unnormalised and counted.  A program has one operator for each     *)
(* assignment of outcomes to its bits.                                     *)
(***************************************************************************)
EXTENDS Integers, Sequences, SequencesExt

CONSTANT None  \* the angle of a gate without one

Gate(name, on) == [op |-> "gate", name |-> name, on |-> on, angle |-> None]

Rotation(name, wire, angle) == [Gate(name, <<wire>>) EXCEPT !.angle = angle]

\* The inverse column of the registry, iSWAP as the code has it.
InverseOf ==
  [I |-> "I", X |-> "X", Y |-> "Y", Z |-> "Z", H |-> "H", S |-> "S_dag", S_dag |-> "S",
   T |-> "T_dag", T_dag |-> "T", CNOT |-> "CNOT", CZ |-> "CZ", SWAP |-> "SWAP",
   iSWAP |-> "iSWAP", Rx |-> "Rx", Ry |-> "Ry", Rz |-> "Rz"]

Parametric == {"Rx", "Ry", "Rz"}

IsInversePair(a, b) ==
  /\ {a, b} \cap Parametric = {}
  /\ InverseOf[a] = b /\ InverseOf[b] = a

Wires(gate) == Range(gate.on)

Arity(name) == IF name \in {"CNOT", "CZ", "SWAP", "iSWAP"} THEN 2 ELSE 1

\* The gates on wires of ws that satisfy the registry.
GatesOn(ws) ==
  {g \in [op : {"gate"}, name : DOMAIN InverseOf, on : Seq(ws), angle : Int \cup {None}] :
     Len(g.on) = Arity(g.name)}

\* Operations of the run block.  The gates of a region and of the branches of
\* an if name their operands by position in on.
Region(on, gates) == [op |-> "region", on |-> on, gates |-> gates]
Measure(wire, bit) == [op |-> "measure", on |-> <<wire>>, bit |-> bit]
If(bit, on, then, else) == [op |-> "if", bit |-> bit, on |-> on, then |-> then, else |-> else]

\* Operations as lowering makes them: a gate inside names positions there are.
Positions(op) == 1 .. Len(op.on)
Ops ==
  GatesOn(Nat)
    \cup {op \in [op : {"measure"}, on : Seq(Nat), bit : STRING] : Len(op.on) = 1}
    \cup {op \in [op : {"region"}, on : Seq(Nat), gates : Seq(GatesOn(Nat))] :
           op.gates \in Seq(GatesOn(Positions(op)))}
    \cup {op \in [op : {"if"}, bit : STRING, on : Seq(Nat),
                  then : Seq(GatesOn(Nat)), else : Seq(GatesOn(Nat))] :
           {op.then, op.else} \subseteq Seq(GatesOn(Positions(op)))}

At(gate, on) == [gate EXCEPT !.on = [i \in DOMAIN @ |-> on[@[i]]]]
Placed(gates, on) == [i \in DOMAIN gates |-> At(gates[i], on)]

---------------------------------------------------------------------------------
\* The gates and measurements that are executed if the bits come out as o says.

Taken(op, o) == IF o[op.bit] THEN op.then ELSE op.else

\* Branches hold gates, and after fusion ifs whose branches do.
InBranch(op, on, o) ==
  IF op.op = "if" THEN Placed(Taken(op, o), At(op, on).on) ELSE <<At(op, on)>>

Executed(ops, on, o) ==
  LET Steps(op) ==
        CASE op.op \in {"gate", "measure"} -> <<At(op, on)>>
          [] op.op = "region" -> Placed(op.gates, At(op, on).on)
          [] op.op = "if" ->
               LET branch == Taken(op, o)
               IN FlattenSeq([i \in DOMAIN branch |-> InBranch(branch[i], At(op, on).on, o)])
  IN FlattenSeq([i \in DOMAIN ops |-> Steps(ops[i])])

Turned(z, k) ==
  LET n == k % 4
      sign == IF k % 8 >= 4 THEN -1 ELSE 1
  IN [i \in 1 .. 4 |-> IF i > n THEN sign * z[i - n] ELSE -sign * z[i - n + 4]]

Plus(y, z) == [i \in 1 .. 4 |-> y[i] + z[i]]
TimesRoot2(z) == Plus(Turned(z, 1), Turned(z, 7))
Zero == <<0, 0, 0, 0>>
One == <<1, 0, 0, 0>>

\* A state: an amplitude for each set of wires that are 1.
Hadamard(v, w) ==
  [x \in DOMAIN v |-> IF w \in x THEN Plus(v[x \ {w}], Turned(v[x], 4))
                      ELSE Plus(v[x], v[x \cup {w}])]
Phase(v, ws, k) == [x \in DOMAIN v |-> IF ws \subseteq x THEN Turned(v[x], k) ELSE v[x]]
Flipped(x, w) == IF w \in x THEN x \ {w} ELSE x \cup {w}
Controlled(v, c, t) == [x \in DOMAIN v |-> v[IF c \in x THEN Flipped(x, t) ELSE x]]
Swapped(v, a, b) ==
  [x \in DOMAIN v |-> v[IF a \in x <=> b \in x THEN x ELSE Flipped(Flipped(x, a), b)]]

Turns == [Z |-> 4, S |-> 2, S_dag |-> 6, T |-> 1, T_dag |-> 7]
AngleOf(gate) == IF gate.angle = None THEN 0 ELSE gate.angle

\* Up to a global phase; an angle that is missing is read as 0 by the emitter.
Apply(v, gate) ==
  LET w == gate.on[1]
      u == gate.on[Len(gate.on)]
  IN CASE gate.name = "I" -> v
       [] gate.name = "H" -> Hadamard(v, w)
       [] gate.name \in DOMAIN Turns -> Phase(v, {w}, Turns[gate.name])
       [] gate.name = "X" -> [x \in DOMAIN v |-> v[Flipped(x, w)]]
       [] gate.name = "Y" -> LET z == Phase(v, {w}, 4) IN [x \in DOMAIN v |-> z[Flipped(x, w)]]
       [] gate.name = "Rz" -> Phase(v, {w}, AngleOf(gate))
       [] gate.name = "Rx" -> Hadamard(Phase(Hadamard(v, w), {w}, AngleOf(gate)), w)
       [] gate.name = "Ry" ->
            Phase(Hadamard(Phase(Hadamard(Phase(v, {w}, 6), w), {w}, AngleOf(gate)), w), {w}, 2)
       [] gate.name = "CNOT" -> Controlled(v, w, u)
       [] gate.name = "CZ" -> Phase(v, {w, u}, 4)
       [] gate.name = "SWAP" -> Swapped(v, w, u)
       [] gate.name = "iSWAP" -> Phase(Phase(Phase(Swapped(v, w, u), {w}, 2), {u}, 2), {w, u}, 4)

Project(v, wire, one) == [x \in DOMAIN v |-> IF wire \in x <=> one THEN v[x] ELSE Zero]

\* The operator of the executed steps, by columns, and its Hadamards.
Columns(steps, ws, o) ==
  LET Step(v, step) == IF step.op = "gate" THEN Apply(v, step)
                       ELSE Project(v, step.on[1], o[step.bit])
      Basis(x) == [y \in SUBSET ws |-> IF y = x THEN One ELSE Zero]
  IN [x \in SUBSET ws |-> FoldLeft(Step, Basis(x), steps)]

HadamardsIn(steps) ==
  LET Of(step) == IF step.op # "gate" THEN 0
                  ELSE CASE step.name = "H" -> 1
                         [] step.name \in {"Rx", "Ry"} -> 2
                         [] OTHER -> 0
  IN FoldLeft(LAMBDA n, step : n + Of(step), 0, steps)

ScaledBy(z, n) == FoldLeft(LAMBDA y, i : TimesRoot2(y), z, [i \in 1 .. n |-> i])

SameOperator(p, q, ws, o) ==
  LET more == HadamardsIn(q) - HadamardsIn(p)
      P == Columns(p, ws, o)
      Q == Columns(q, ws, o)
  IN \E k \in 0 .. 7 : \A x, y \in SUBSET ws :
       ScaledBy(P[x][y], more) = Turned(ScaledBy(Q[x][y], -more), k)

\* Two programs on the wires ws do the same: for each outcome of the bits the
\* same operator, up to a phase nobody can observe.
SameMeaning(p, q, ws, bits) ==
  LET on == [w \in ws |-> w]
  IN \A o \in [bits -> BOOLEAN] : SameOperator(Executed(p, on, o), Executed(q, on, o), ws, o)
=================================================================================
