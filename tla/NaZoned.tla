-------------------------------- MODULE NaZoned --------------------------------
(***************************************************************************)
(* The zoned backend (quon_na/src/zoned.rs): for each layer of the program *)
(* its gates are assigned to entanglement pairs, their atoms are moved     *)
(* there in groups one AOD can carry, and the gates that find no pair are  *)
(* put off to a stage of their own.  Measured, reset and reused atoms are  *)
(* shuttled into the readout zone first.                                   *)
(*                                                                         *)
(* The cost models only choose among legal pairs, orientations and splits  *)
(* of a layer, so any legal assignment may be chosen here.                 *)
(***************************************************************************)
EXTENDS NaCompaction

CONSTANTS X, Y,         \* the coordinates of each site
          MinSep,       \* least separation of two AOD rows or columns
          Pairs,        \* the left and right site of each entanglement pair
          ReadoutSites  \* the readout zone

Reversed == {<<p[2], p[1]>> : p \in Pairs}
PairSites(p) == {p[1], p[2]}

ASSUME ZonedAssumption ==
  /\ Atoms \subseteq Nat /\ IsFiniteSet(Atoms) /\ Sites \subseteq Nat /\ None \notin Atoms
  /\ X \in [Sites -> Int] /\ Y \in [Sites -> Int] /\ MinSep \in Nat
  /\ Pairs \subseteq Sites \X Sites /\ \A p \in Pairs : p[1] # p[2]
  /\ ReadoutSites \subseteq Sites /\ ReadoutSites # {}
  /\ \A a, b \in Atoms : Start[a] = Start[b] => a = b

VARIABLES step,     \* "ready", "gates", "moving" or "readout"
          at,       \* the site each atom is planned to be at
          holder,   \* the atom each site is planned to hold
          todo,     \* gates of the layer that no stage runs yet, by number
          moves,    \* moves of the stage that no group carries yet, by number
          last,     \* the operations the stage moves its atoms for
          readouts, \* readout operations of the layer, by kind
          out       \* the layers emitted

zvars == <<step, at, holder, todo, moves, last, readouts, out>>

\* Occupancy as the layout's bindings give it.
FromLayout(where) ==
  [s \in Sites |-> IF \E a \in Atoms : where[a] = s
                   THEN CHOOSE a \in Atoms : where[a] = s ELSE None]

ZonedInit ==
  /\ step = "ready" /\ at = Start /\ holder = FromLayout(Start)
  /\ todo = <<>> /\ moves = <<>> /\ last = {} /\ readouts = <<>> /\ out = <<>>

--------------------------------------------------------------------------------

Refuse == stage' = "refused" /\ UNCHANGED <<input, deps, asap, layers, report>> /\ UNCHANGED zvars

\* A layer without a gate is passed through.
PassLayer(layer) ==
  /\ step = "ready"
  /\ out' = Append(out, layer)
  /\ UNCHANGED <<step, at, holder, todo, moves, last, readouts>>

\* "InsufficientPairs": more gates than pairs.
TooManyGates(gates) ==
  /\ step = "ready" /\ Len(gates) > Cardinality(Pairs)
  /\ Refuse

\* The other operations of the layer go with its first stage.
GateLayer(gates, rest) ==
  /\ step = "ready" /\ gates # <<>> /\ Len(gates) <= Cardinality(Pairs)
  /\ todo' = gates /\ last' = rest
  /\ step' = "gates"
  /\ UNCHANGED <<at, holder, moves, readouts, out>>

PairsConflict(p, q) == \E s \in PairSites(p), t \in PairSites(q) : {s, t} \in Close

\* Each site of the pair is free, or holds an atom of the gate itself.
PairOccupancyOk(p, gate) ==
  \A s \in PairSites(p) : holder[s] \in {None, gate[1], gate[2]}

\* The gates of the indices S to distinct pairs, each in one of its orientations.
Legal(f) ==
  /\ \A i \in DOMAIN f : PairOccupancyOk(f[i], todo[i])
  /\ \A i, j \in DOMAIN f : i # j =>
       PairSites(f[i]) # PairSites(f[j]) /\ ~PairsConflict(f[i], f[j])
Assignments ==
  {f \in UNION {[S -> Pairs \cup Reversed] : S \in (SUBSET DOMAIN todo) \ {{}}} : Legal(f)}

Displacement(atom, s) == [atom |-> atom, from |-> at[atom], to |-> s]
Displaced(m) == m.from # m.to

\* In gate order, the first atom of a gate before the second.
MovesFor(f) ==
  LET move(k) == LET i == (k + 1) \div 2
                     j == 2 - (k % 2)
                 IN Displacement(todo[i][j], f[i][j])
  IN [k \in {n \in UNION {{2 * i - 1, 2 * i} : i \in DOMAIN f} : Displaced(move(n))} |-> move(k)]

\* Where the atoms are after the moves, and which atom each site holds: a move
\* frees the site it leaves unless another atom was given that site before.
\* Mutant: the planner forgets that the atoms have moved.
AfterForgotten(ms) == at
After(ms) ==
  [a \in Atoms |-> IF \E k \in DOMAIN ms : ms[k].atom = a
                   THEN ms[CHOOSE k \in DOMAIN ms : ms[k].atom = a].to ELSE at[a]]
\* Mutant: sites are taken and never given back.
HolderAfterClaims(ms) ==
  [s \in Sites |-> IF \E k \in DOMAIN ms : ms[k].to = s
                   THEN ms[CHOOSE k \in DOMAIN ms : ms[k].to = s].atom ELSE holder[s]]
HolderAfter(ms) ==
  [s \in Sites |-> IF \E k \in DOMAIN ms : ms[k].to = s
                   THEN ms[CHOOSE k \in DOMAIN ms : ms[k].to = s].atom
                   ELSE IF \E k \in DOMAIN ms : ms[k].from = s /\ ms[k].atom = holder[s]
                   THEN None ELSE holder[s]]
Displace(ms) == moves' = ms /\ at' = After(ms) /\ holder' = HolderAfter(ms)

\* Place some of the gates; those left over form the next stage.
\* Mutant: the gates that were placed are put off with the others.
DeferredAll(f) == todo
Deferred(f) == Restrict(todo, DOMAIN todo \ DOMAIN f)

AssignPairs ==
  /\ step = "gates"
  /\ \E f \in Assignments :
       /\ Displace(MovesFor(f))
       /\ last' = last \cup {Act("entangle", {todo[i][1], todo[i][2]}) : i \in DOMAIN f}
       /\ todo' = Deferred(f)
  /\ step' = "moving"
  /\ UNCHANGED <<readouts, out>>

\* "NoLegalPair": parked atoms block every pair.
NoLegalPair == step = "gates" /\ Assignments = {} /\ Refuse

--------------------------------------------------------------------------------

\* One axis of coupled motion: a row moves as a whole, rows keep their order and
\* end apart.
AxisCompatible(fromA, toA, fromB, toB) ==
  IF fromA = fromB THEN toA = toB
  ELSE IF fromA < fromB THEN toA < toB /\ toB - toA >= MinSep
  ELSE toB < toA /\ toA - toB >= MinSep
AodCompatible(m, n) ==
  /\ AxisCompatible(Y[m.from], Y[m.to], Y[n.from], Y[n.to])
  /\ AxisCompatible(X[m.from], X[m.to], X[n.from], X[n.to])

\* First fit: the moves that join the group the first of them opens.
FirstGroup(joined) ==
  \A k \in DOMAIN moves :
    k \in joined <=> \A j \in joined : j < k => AodCompatible(moves[j], moves[k])

\* A group is loaded, moved and stored in a layer each.
EmitGroup ==
  /\ step = "moving" /\ DOMAIN moves # {}
  /\ \E joined \in {S \in SUBSET DOMAIN moves : FirstGroup(S)} :
       LET group == {moves[k] : k \in joined}
       IN /\ out' = out \o <<{ActAt("load", m.atom, m.from) : m \in group},
                             {ActAt("move", m.atom, m.to) : m \in group},
                             {ActAt("store", m.atom, m.to) : m \in group}>>
          /\ moves' = Restrict(moves, DOMAIN moves \ joined)
  /\ UNCHANGED <<step, at, holder, todo, last, readouts>>

\* The atoms are in place: emit what they were moved for.
EmitLast ==
  /\ step = "moving" /\ DOMAIN moves = {}
  /\ out' = Append(out, last) /\ last' = {}
  /\ step' = IF DOMAIN todo # {} THEN "gates" ELSE IF DOMAIN readouts # {} THEN "readout" ELSE "ready"
  /\ UNCHANGED <<at, holder, todo, moves, readouts>>

--------------------------------------------------------------------------------

OfKind(acts, op) == {x \in acts : x.op = op}

\* Place the readout operations of a layer: what else it has goes first, then the
\* measures, the resets and the reuses.
ReadoutKinds == <<"measure", "reset", "reuse">>
ReadoutLayer(acts) ==
  LET kinds == {k \in DOMAIN ReadoutKinds : OfKind(acts, ReadoutKinds[k]) # {}}
      others == {x \in acts : x.op \notin Range(ReadoutKinds)}
  IN /\ step = "ready" /\ kinds # {}
     /\ out' = IF others = {} THEN out ELSE Append(out, others)
     /\ holder' = FromLayout(at)
     /\ readouts' = [k \in kinds |-> OfKind(acts, ReadoutKinds[k])] /\ step' = "readout"
     /\ UNCHANGED <<at, todo, moves, last>>

\* The kind that is next, and its operations.
NextKind == CHOOSE k \in DOMAIN readouts : \A l \in DOMAIN readouts : k <= l
ToRead == readouts[NextKind]

FreeReadout == {s \in ReadoutSites : holder[s] = None}
Movers == {a \in LayerAtoms(ToRead) : at[a] \notin ReadoutSites}
ReadoutFits ==
  /\ Cardinality(LayerAtoms(ToRead)) <= Cardinality(ReadoutSites)
  /\ Cardinality(Movers) <= Cardinality(FreeReadout)

Square(n) == n * n
Nearer(a, s, t) ==
  LET d(u) == Square(X[u] - X[at[a]]) + Square(Y[u] - Y[at[a]])
  IN d(s) < d(t) \/ (d(s) = d(t) /\ s <= t)

\* Each atom, in the order of the atoms, takes the nearest site still free.
ReadoutSitesFor(site) ==
  \A a \in Movers :
    LET free == FreeReadout \ {site[b] : b \in {c \in Movers : c < a}}
    IN site[a] \in free /\ \A t \in free : Nearer(a, site[a], t)

MoveToReadout ==
  /\ step = "readout" /\ ReadoutFits
  /\ \E site \in [Movers -> FreeReadout] :
       /\ ReadoutSitesFor(site)
       /\ Displace([a \in Movers |-> Displacement(a, site[a])])
  /\ last' = ToRead /\ readouts' = Restrict(readouts, DOMAIN readouts \ {NextKind})
  /\ step' = "moving"
  /\ UNCHANGED <<todo, out>>

\* "InsufficientReadout".
ReadoutFull == step = "readout" /\ ~ReadoutFits /\ Refuse

ZonedStep == AssignPairs \/ EmitGroup \/ EmitLast \/ MoveToReadout
ZonedRefusal == NoLegalPair \/ ReadoutFull

ZonedTypeOK ==
  /\ step \in {"ready", "gates", "moving", "readout"}
  /\ at \in [Atoms -> Sites] /\ holder \in [Sites -> Atoms \cup {None}]
  /\ \A i \in DOMAIN todo : todo[i] \in Atoms \X Atoms
  /\ \A k \in DOMAIN moves : moves[k] \in [atom : Atoms, from : Sites, to : Sites]
  /\ last \subseteq Action
  /\ \A k \in DOMAIN readouts : readouts[k] \subseteq Action
  /\ \A k \in DOMAIN out : out[k] \subseteq Action
================================================================================
