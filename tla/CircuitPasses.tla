----------------------------- MODULE CircuitPasses -----------------------------
(***************************************************************************)
(* The optimisation passes over quantum.circ: what each makes of the gates *)
(* of one block.  A pass that works on pairs scans the block again after   *)
(* each rewrite; the last gate of every wire is what a gate can meet, and  *)
(* taking it away uncovers gates that met their successors before, so one  *)
(* walk with the kept gates as a stack gives the same block.               *)
(***************************************************************************)
EXTENDS Circuits, FiniteSets, FiniteSetsExt

\* The index of the last gate on a wire, the producer of the wire's value.
Producer(gates, wire) == Max({0} \cup {i \in DOMAIN gates : wire \in Wires(gates[i])})

\* The gate whose results are the operands of gate, one for one; 0 if none is.
Predecessor(gates, gate) ==
  LET i == Producer(gates, gate.on[1])
  IN IF i # 0 /\ gates[i].on = gate.on /\ \A w \in Wires(gate) : Producer(gates, w) = i
     THEN i ELSE 0

---------------------------------------------------------------------------------
\* gate_cancellation

CancelInto(kept, gate) ==
  LET i == Predecessor(kept, gate)
  IN IF i # 0 /\ IsInversePair(kept[i].name, gate.name)
     THEN RemoveAt(kept, i) ELSE Append(kept, gate)

\* Mutant: at most one pair in a call, with no second scan.
GateCancellationOnce(gates) ==
  LET Step(acc, gate) ==
        LET kept == CancelInto(acc.kept, gate)
        IN IF acc.cancelled THEN [acc EXCEPT !.kept = Append(@, gate)]
           ELSE [kept |-> kept, cancelled |-> Len(kept) < Len(acc.kept)]
  IN FoldLeft(Step, [kept |-> <<>>, cancelled |-> FALSE], gates).kept

GateCancellation(gates) ==
  LET kept[i \in 0 .. Len(gates)] == IF i = 0 THEN <<>> ELSE CancelInto(kept[i - 1], gates[i])
  IN kept[Len(gates)]

---------------------------------------------------------------------------------
\* rotation_merging: the angles add up and are not normalised.

IsRotation(gate) == gate.name \in Parametric /\ gate.angle # None

MergeInto(kept, gate) ==
  LET i == Predecessor(kept, gate)
      merges == i # 0 /\ IsRotation(gate) /\ IsRotation(kept[i]) /\ kept[i].name = gate.name
      total == kept[i].angle + gate.angle
  IN CASE ~merges -> Append(kept, gate)
       [] merges /\ total % 8 = 0 -> RemoveAt(kept, i)
       [] OTHER -> Append(RemoveAt(kept, i), [gate EXCEPT !.angle = total])

RotationMerging(gates) ==
  LET kept[i \in 0 .. Len(gates)] == IF i = 0 THEN <<>> ELSE MergeInto(kept[i - 1], gates[i])
  IN kept[Len(gates)]

---------------------------------------------------------------------------------
\* clifford_t_opt, Clifford branch.  A row of the tableau is the Pauli that X
\* or Z of one wire has become: the wires with an X part, with a Z part, a sign.

TableauGates == {"I", "H", "S", "S_dag", "X", "Y", "Z", "CNOT", "SWAP"}

With(ws, w, is) == IF is THEN ws \cup {w} ELSE ws \ {w}

\* Mutant: the sign flips whenever control X meets target Z.
CnotRowAlwaysSigned(row, c, t) ==
  LET xc == c \in row.x   xt == t \in row.x   zc == c \in row.z   zt == t \in row.z
  IN [x |-> With(row.x, t, xt # xc), z |-> With(row.z, c, zc # zt),
      negative |-> row.negative # (xc /\ zt)]

CnotRow(row, c, t) ==
  LET xc == c \in row.x   xt == t \in row.x   zc == c \in row.z   zt == t \in row.z
  IN [x |-> With(row.x, t, xt # xc), z |-> With(row.z, c, zc # zt),
      negative |-> row.negative # (xc /\ zt /\ xt = zc)]

RowAfter(row, gate) ==
  LET k == gate.on[1]
      u == gate.on[Len(gate.on)]
      x == k \in row.x
      z == k \in row.z
      Signed(flip) == [row EXCEPT !.negative = @ # flip]
  IN CASE gate.name = "I" -> row
       [] gate.name = "H" -> [Signed(x /\ z) EXCEPT !.x = With(@, k, z), !.z = With(@, k, x)]
       [] gate.name = "S" -> [Signed(x /\ z) EXCEPT !.z = With(@, k, z # x)]
       [] gate.name = "S_dag" -> [Signed(x /\ ~z) EXCEPT !.z = With(@, k, z # x)]
       [] gate.name = "X" -> Signed(z)
       [] gate.name = "Y" -> Signed(x # z)
       [] gate.name = "Z" -> Signed(x)
       [] gate.name = "CNOT" -> CnotRow(row, k, u)
       [] gate.name = "SWAP" -> CnotRow(CnotRow(CnotRow(row, k, u), u, k), k, u)

Start(kind, w) == [x |-> IF kind = "X" THEN {w} ELSE {}, z |-> IF kind = "Z" THEN {w} ELSE {},
                   negative |-> FALSE]

Tableau(gates, n) ==
  [kind \in {"X", "Z"}, w \in 1 .. n |-> FoldLeft(RowAfter, Start(kind, w), gates)]

IsSinglePauli(tableau, n) ==
  \A kind \in {"X", "Z"}, w \in 1 .. n :
    tableau[kind, w] = [Start(kind, w) EXCEPT !.negative = tableau[kind, w].negative]

\* The gates of a tableau that only has signs; none for the identity.
PauliGates(tableau, n) ==
  LET Of(w) == LET rx == tableau["X", w].negative   rz == tableau["Z", w].negative
               IN CASE rx /\ rz -> <<Gate("Y", <<w>>)>>
                    [] rx /\ ~rz -> <<Gate("Z", <<w>>)>>
                    [] ~rx /\ rz -> <<Gate("X", <<w>>)>>
                    [] OTHER -> <<>>
      upTo[w \in 0 .. n] == IF w = 0 THEN <<>> ELSE upTo[w - 1] \o Of(w)
  IN upTo[n]

OptimizeClifford(gates, n) ==
  LET tableau == Tableau(gates, n)
      pauli == PauliGates(tableau, n)
  IN IF IsSinglePauli(tableau, n) /\ (pauli = <<>> \/ Len(pauli) < Len(gates))
     THEN pauli ELSE gates

---------------------------------------------------------------------------------
\* clifford_t_opt, phase polynomials.  A parity is the set of input wires whose
\* sum a wire holds; a T adds one, a T_dag takes one from its coefficient.

BlockGates == {"CNOT", "T", "T_dag"}
TGates == {"T", "T_dag"}
TCount(gates) == Cardinality({i \in DOMAIN gates : gates[i].op = "gate" /\ gates[i].name \in TGates})

ParityAfter(parity, gate) ==
  IF gate.name # "CNOT" THEN parity
  ELSE [parity EXCEPT ![gate.on[2]] = SymDiff(@, parity[gate.on[1]])]

\* The parities before each gate, and behind the last.
Parities(block, n) ==
  LET parity[i \in 0 .. Len(block)] ==
        IF i = 0 THEN [w \in 1 .. n |-> {w}] ELSE ParityAfter(parity[i - 1], block[i])
  IN parity

\* The parity gate i turns.
ParityAt(parities, block, i) == parities[i - 1][block[i].on[1]]

Polynomial(parities, block, n) ==
  LET coeff[i \in 0 .. Len(block)] ==
        IF i = 0 THEN [p \in SUBSET (1 .. n) |-> 0]
        ELSE IF block[i].name = "CNOT" THEN coeff[i - 1]
        ELSE [coeff[i - 1] EXCEPT ![ParityAt(parities, block, i)] =
                (@ + IF block[i].name = "T" THEN 1 ELSE 7) % 8]
  IN coeff[Len(block)]

CoeffGates ==
  [c \in 0 .. 7 |-> <<<<>>, <<"T">>, <<"S">>, <<"S", "T">>, <<"Z">>, <<"Z", "T">>,
                      <<"S_dag">>, <<"T_dag">>>>[c + 1]]

\* Mutant: the coefficient again at every T of its parity.
SeenNever(parities, block, i) == FALSE
Seen(parities, block, i) ==
  \E j \in 1 .. i - 1 : block[j].name # "CNOT"
                         /\ ParityAt(parities, block, j) = ParityAt(parities, block, i)

\* At the first T of a parity the gates of its whole coefficient; no T later.
Resynthesized(parities, poly, block, i) ==
  LET names == CoeffGates[poly[ParityAt(parities, block, i)]]
  IN CASE block[i].name = "CNOT" -> <<block[i]>>
       [] block[i].name # "CNOT" /\ Seen(parities, block, i) -> <<>>
       [] OTHER -> [k \in DOMAIN names |-> Gate(names[k], block[i].on)]

Synthesize(parities, poly, block) ==
  LET gates[i \in 0 .. Len(block)] ==
        IF i = 0 THEN <<>> ELSE gates[i - 1] \o Resynthesized(parities, poly, block, i)
  IN gates[Len(block)]

OptimizeBlock(block, n) ==
  LET parities == Parities(block, n)
      poly == Polynomial(parities, block, n)
      odd == {p \in DOMAIN poly : poly[p] % 2 = 1}
  IN IF Cardinality(odd) < TCount(block) THEN Synthesize(parities, poly, block) ELSE block

\* Blocks end at the gates of other kinds.
OptimizeTCount(gates, n) ==
  LET Step(acc, gate) ==
        IF gate.name \in BlockGates THEN [acc EXCEPT !.block = Append(@, gate)]
        ELSE [done |-> Append(acc.done \o OptimizeBlock(acc.block, n), gate), block |-> <<>>]
      walk[i \in 0 .. Len(gates)] ==
        IF i = 0 THEN [done |-> <<>>, block |-> <<>>] ELSE Step(walk[i - 1], gates[i])
      end == walk[Len(gates)]
  IN end.done \o OptimizeBlock(end.block, n)

\* The func is rebuilt from names and wires: every gate loses its angle.
Rebuilt(old, new) == IF new = old THEN old ELSE [i \in DOMAIN new |-> Gate(new[i].name, new[i].on)]

CliffordTOpt(clifford, gates, n) ==
  CASE ~clifford -> Rebuilt(gates, OptimizeTCount(gates, n))
    [] clifford /\ \A i \in DOMAIN gates : gates[i].name \in TableauGates ->
         Rebuilt(gates, OptimizeClifford(gates, n))
    [] OTHER -> gates

---------------------------------------------------------------------------------
\* zx_simplification.  On one wire a diagram without Hadamard edges is a chain
\* of spiders: neighbours of a colour fuse, and what is left with phase 0 goes.

ZxEncodable == {"H", "X", "Z", "Rx", "Rz", "CNOT"}

Spider(gate) ==
  [colour |-> IF gate.name \in {"Z", "Rz"} THEN "Z" ELSE "X",
   phase |-> IF gate.name \in {"X", "Z"} THEN 4 ELSE AngleOf(gate)]

Trimmed(chain) == IF chain # <<>> /\ Last(chain).phase = 0 THEN Front(chain) ELSE chain

FuseInto(chain, spider) ==
  LET below == IF chain # <<>> /\ Last(chain).colour = spider.colour THEN chain ELSE Trimmed(chain)
  IN IF below # <<>> /\ Last(below).colour = spider.colour
     THEN Append(Front(below), [spider EXCEPT !.phase = (@ + Last(below).phase) % 8])
     ELSE Append(below, spider)

Simplified(gates) ==
  LET chains[i \in 0 .. Len(gates)] ==
        IF i = 0 THEN <<>> ELSE FuseInto(chains[i - 1], Spider(gates[i]))
      chain == Trimmed(chains[Len(gates)])
  IN [i \in DOMAIN chain |->
        Rotation(IF chain[i].colour = "Z" THEN "Rz" ELSE "Rx", 1, chain[i].phase)]

ZxSimplification(gates, n) ==
  LET names == {gates[i].name : i \in DOMAIN gates}
      new == Simplified(gates)
  IN IF /\ n = 1 /\ Len(gates) >= 2
        /\ names \subseteq ZxEncodable /\ "H" \notin names
        /\ new # <<>> /\ Len(new) < Len(gates)
     THEN new ELSE gates
=================================================================================
