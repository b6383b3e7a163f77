-------------------------------- MODULE MCPasses --------------------------------
(***************************************************************************)
(* Model-checking instances of the pipeline: every short circuit over a    *)
(* few alphabets, as a definition and inlined into the run block, longer   *)
(* ones that undo themselves, and run blocks of up to three measurements   *)
(* with ifs on one or two of the other wires.                              *)
(***************************************************************************)
EXTENDS CircuitPipeline

CONSTANTS MaxGates,     \* bound: gates of a circuit
          MaxConjugate, \* bound: gates around the one a longer circuit undoes
          AnyBranch     \* whether a branch may rotate by an angle

On(wire, names) == {Gate(name, <<wire>>) : name \in names}
Both(names) == {Gate(name, <<1, 2>>) : name \in names} \cup {Gate("CNOT", <<2, 1>>)}

CliffordGates == On(1, {"H", "S", "X"}) \cup On(2, {"H", "S_dag", "Z"}) \cup Both({"CNOT", "SWAP"})
SwapGates == On(1, {"S", "H"}) \cup On(2, {"S_dag"}) \cup Both({"CNOT", "SWAP"})
PhaseGates == On(1, {"T", "H"}) \cup On(2, {"T", "T_dag"}) \cup Both({"CNOT"})
AxisGates == On(1, {"X", "Z", "H"}) \cup {Rotation("Rz", 1, 3), Rotation("Rz", 1, 5),
                                          Rotation("Rx", 1, 2), Rotation("Ry", 1, -1)}

Circuits(gates, n) == UNION {[1 .. k -> gates] : k \in 0 .. n}

Undone(gates) == [i \in DOMAIN gates |->
  LET g == gates[Len(gates) + 1 - i] IN Gate(InverseOf[g.name], g.on)]

Conjugates == {w \o <<g>> \o Undone(w) :
  w \in Circuits(CliffordGates, MaxConjugate), g \in On(1, {"X", "Y"}) \cup On(2, {"Z", "S"})}
Nested == {w \o Undone(w) : w \in Circuits(CliffordGates, MaxConjugate + 1)}

\* A definition, applied to the wires 1 .. n of the run block.
Inlined(clifford, n, gates) ==
  [func |-> [clifford |-> clifford, wires |-> n, gates |-> gates],
   body |-> <<Region([w \in 1 .. n |-> w], gates)>>]

CircuitSources ==
  {Inlined(TRUE, 2, c) : c \in Circuits(CliffordGates, MaxGates - 1)
                             \cup Circuits(SwapGates, MaxGates) \cup Conjugates \cup Nested}
    \cup {Inlined(FALSE, 2, c) : c \in Circuits(PhaseGates, MaxGates)}
    \cup {Inlined(FALSE, 1, c) : c \in Circuits(AxisGates, MaxGates)}

RunBlock(ops) == [func |-> [clifford |-> TRUE, wires |-> 1, gates |-> <<>>], body |-> ops]

OneWire ==
  {<<>>, <<Gate("X", <<1>>)>>, <<Gate("Z", <<1>>)>>, <<Gate("H", <<1>>)>>, <<Gate("I", <<1>>)>>,
   <<Gate("X", <<1>>), Gate("Z", <<1>>)>>}
    \cup IF AnyBranch THEN {<<Rotation("Rz", 1, 1)>>} ELSE {}
TwoWires ==
  {<<>>, <<Gate("X", <<1>>), Gate("Z", <<2>>)>>, <<Gate("CNOT", <<2, 1>>)>>,
   <<Gate("S", <<2>>), Gate("T", <<2>>), Gate("T", <<2>>)>>}

Ifs(bit, on) == {If(bit, on, t, e) : t, e \in IF Len(on) = 1 THEN OneWire ELSE TwoWires}

\* Measured once, read once, twice, or by ifs around another operation.
OneBit ==
  {<<Measure(1, "a"), i>> : i \in Ifs("a", <<2>>) \cup Ifs("a", <<3, 2>>)}
    \cup {<<Measure(1, "a"), i, j>> : i \in Ifs("a", <<2>>), j \in Ifs("a", <<3>>)}
    \cup {<<Measure(1, "a"), i, j>> : i \in Ifs("a", <<3, 2>>), j \in {If("a", <<2>>, <<>>, <<Gate("X", <<1>>)>>)}}
    \cup {<<Measure(1, "a"), i, Region(<<2>>, <<Gate("H", <<1>>)>>), j>> :
            i \in {If("a", <<3>>, <<Gate("X", <<1>>)>>, <<Gate("Z", <<1>>)>>)}, j \in Ifs("a", <<2>>)}

\* Two bits, each read by an if of its own; the second may be read twice.
TwoBits ==
  LET first == {If("a", <<3>>, t, e) : t \in {<<>>, <<Gate("H", <<1>>)>>}, e \in OneWire}
      second == {If("b", <<w>>, t, <<Gate("X", <<1>>)>>) : t \in OneWire, w \in 3 .. 4}
      reads == {<<i, j>> : i \in first, j \in second} \cup {<<j, i>> : i \in first, j \in second}
      measured == {<<Measure(1, "a"), Measure(2, "b")>>}
      between == {<<Measure(1, "a"), i, Measure(2, "b"), j>> : i \in first, j \in second}
  IN between \cup {m \o r : m \in measured, r \in reads}
       \cup {m \o r \o <<If("b", <<4>>, <<>>, <<Gate("Z", <<1>>)>>)>> : m \in measured, r \in reads}

\* Three bits, one of them measured between two ifs, where deferral takes it from.
ThreeBits ==
  {<<Measure(1, "a"), Measure(6, "c"), If("a", <<3>>, <<>>, t), Measure(2, "b"), If("c", <<4>>, <<>>, u),
     Region(<<3>>, <<Gate("H", <<1>>)>>), If("b", <<5>>, <<>>, v)>> :
       t, u, v \in {<<Gate("X", <<1>>)>>, <<Gate("H", <<1>>)>>}}

\* A qubit prepared by init_plus, whose gate stands in the run block.
Prepared == {<<Gate("H", <<1>>), Measure(1, "a"), i>> : i \in Ifs("a", <<2>>)}

RunSources == {RunBlock(ops) : ops \in OneBit \cup TwoBits \cup ThreeBits \cup Prepared}

MCSources == IF AnyBranch THEN RunSources ELSE CircuitSources \cup RunSources
=================================================================================
