-------------------------------- MODULE NaReplay --------------------------------
(***************************************************************************)
(* The verifier of emitted neutral-atom schedules, as the machine that     *)
(* reads a schedule and stops at the first thing it rejects: the layer     *)
(* walk of quon_na/src/dialect.rs (occupancy claims, AOD bindings, AOD     *)
(* legality, entangling geometry) together with the forward replay of      *)
(* quon_na/src/replay.rs (atom positions, trap ownership, site holders).   *)
(*                                                                         *)
(* The code runs the walk over all layers and then the replay.  Neither    *)
(* reads the other's state and an error of either rejects the schedule, so *)
(* a schedule is accepted exactly when this machine can read all of it.    *)
(***************************************************************************)
EXTENDS Integers, Sequences, FiniteSets

CONSTANTS
  Atoms, Sites,
  Traps,       \* AOD traps, records with fields aod, row and col
  X, Y,        \* the coordinates of each site
  Slm,         \* "no AOD trap": held by the static trap of its site
  NoAtom,      \* the holder of an empty site
  Start,       \* the declared initial bindings, all in static traps
  RydbergSites, \* the sites in an entanglement zone
  Reach, Spacing, Separation, \* the limits of the target (range, spacing, AOD)
  MaxLayers    \* bound: layers of a schedule

ASSUME ReplayAssumption ==
  /\ X \in [Sites -> Int] /\ Y \in [Sites -> Int]
  /\ Slm \notin Traps /\ NoAtom \notin Atoms
  /\ Start \in [Atoms -> Sites]
  /\ \A a, b \in Atoms : a # b => Start[a] # Start[b]
  /\ RydbergSites \subseteq Sites
  /\ Reach \in Nat /\ Spacing \in Nat /\ Separation \in Nat \ {0}
  /\ MaxLayers \in Nat

VARIABLES
  site,      \* the site of each atom
  trap,      \* the AOD trap that carries each atom, or Slm
  holder,    \* the atom at each site
  bindings,  \* the trap each atom was loaded into, as the layer walk knows it
  moves,     \* the moves of the layer being read, in order
  transfers, \* the transfers of the layer being read
  pairs,     \* the entangled pairs of the layer being read
  layers     \* how many layers have been read

replayVars == <<site, trap, holder>>
layerVars == <<moves, transfers, pairs>>
vars == <<replayVars, bindings, layerVars, layers>>

MoveSpec == [atom : Atoms, from : Sites, to : Sites, trap : Traps]
TransferSpec ==
  [atom : Atoms, site : Sites, trap : Traps, dir : {"slm_to_aod", "aod_to_slm"}]
PairSpec == {p \in [lhs : Atoms, rhs : Atoms, lsite : Sites, rsite : Sites] :
               p.lhs # p.rhs}

TypeOK ==
  /\ site \in [Atoms -> Sites]
  /\ trap \in [Atoms -> Traps \cup {Slm}]
  /\ holder \in [Sites -> Atoms \cup {NoAtom}]
  /\ bindings \in [Atoms -> Traps \cup {Slm}]
  /\ moves \in Seq(MoveSpec)
  /\ transfers \subseteq TransferSpec
  /\ pairs \subseteq PairSpec
  /\ layers \in 0 .. MaxLayers

Init ==
  /\ site = Start
  /\ trap = [a \in Atoms |-> Slm]
  /\ holder = [s \in Sites |-> IF \E a \in Atoms : Start[a] = s
                               THEN CHOOSE a \in Atoms : Start[a] = s
                               ELSE NoAtom]
  /\ bindings = [a \in Atoms |-> Slm]
  /\ moves = <<>> /\ transfers = {} /\ pairs = {}
  /\ layers = 0

--------------------------------------------------------------------------------
(* Geometry.                                                                   *)

Abs(n) == IF n < 0 THEN -n ELSE n
Square(n) == n * n
Within(s, t, d) == Square(X[s] - X[t]) + Square(Y[s] - Y[t]) <= Square(d)
SamePosition(s, t) == X[s] = X[t] /\ Y[s] = Y[t]

Elems(g) == {g[i] : i \in DOMAIN g}

\* verify_coupled_motion: the moves of a row have one vertical displacement,
\* those of a column one horizontal displacement.
CoupledMoves(ms) ==
  \A m, n \in Elems(ms) :
    m.trap.aod = n.trap.aod =>
      /\ m.trap.row = n.trap.row => Y[m.to] - Y[m.from] = Y[n.to] - Y[n.from]
      /\ m.trap.col = n.trap.col => X[m.to] - X[m.from] = X[n.to] - X[n.from]

\* One axis: two lines of an AOD keep their order and end up apart.
KeepApart(from1, to1, from2, to2) ==
  /\ from1 < from2 <=> to1 < to2
  /\ from1 > from2 <=> to1 > to2
  /\ Abs(to1 - to2) >= Separation

\* A line of an AOD is represented by the first of its moves.
RowLeaders(ms) ==
  {ms[i] : i \in {i \in DOMAIN ms : \A j \in 1 .. i - 1 :
                   \/ ms[j].trap.aod # ms[i].trap.aod
                   \/ ms[j].trap.row # ms[i].trap.row}}
ColLeaders(ms) ==
  {ms[i] : i \in {i \in DOMAIN ms : \A j \in 1 .. i - 1 :
                   \/ ms[j].trap.aod # ms[i].trap.aod
                   \/ ms[j].trap.col # ms[i].trap.col}}

\* Mutant: the order of rows is not checked.
OrderedColumnsOnly(ms) ==
  \A m, n \in ColLeaders(ms) :
    m # n /\ m.trap.aod = n.trap.aod =>
      KeepApart(X[m.from], X[m.to], X[n.from], X[n.to])

\* verify_axis_order_and_separation, for rows and for columns.
OrderedMoves(ms) ==
  /\ \A m, n \in RowLeaders(ms) :
       m # n /\ m.trap.aod = n.trap.aod =>
         KeepApart(Y[m.from], Y[m.to], Y[n.from], Y[n.to])
  /\ \A m, n \in ColLeaders(ms) :
       m # n /\ m.trap.aod = n.trap.aod =>
         KeepApart(X[m.from], X[m.to], X[n.from], X[n.to])

\* The ends of the pairs, with the site each is stamped with.
Ends(ps) == {[atom |-> p.lhs, site |-> p.lsite] : p \in ps}
              \cup {[atom |-> p.rhs, site |-> p.rsite] : p \in ps}
Partners(ps, a, b) == \E p \in ps : {p.lhs, p.rhs} = {a, b}

\* Partners are within range, other entangling atoms out of range and spaced.
GeometryOK(ps) ==
  /\ \A p \in ps : Within(p.lsite, p.rsite, Reach)
  /\ \A d, e \in Ends(ps) :
       d.atom # e.atom /\ ~Partners(ps, d.atom, e.atom) =>
         ~Within(d.site, e.site, Reach) /\ ~Within(d.site, e.site, Spacing)

--------------------------------------------------------------------------------
(* Reading one action of the layer.                                            *)

ClaimedAtoms == {m.atom : m \in Elems(moves)} \cup {t.atom : t \in transfers}
ClaimedSites == {m.to : m \in Elems(moves)} \cup {t.site : t \in transfers}

\* check_bound_trap: an atom with no recorded load is exempt.
BoundTo(a, t) == bindings[a] \in {Slm, t}

\* A move the replay can follow: it starts at the site of its atom and names
\* the trap that carries it.
MoveOf(a, to) == [atom |-> a, from |-> site[a], to |-> to, trap |-> trap[a]]

\* What the walk asks of each move by itself.
MoveAllowed(m) ==
  /\ BoundTo(m.atom, m.trap)
  /\ m.atom \notin ClaimedAtoms /\ m.to \notin ClaimedSites
  /\ \A n \in Elems(moves) : n.trap = m.trap => SamePosition(n.from, m.from)

\* Mutant: a destination may be occupied.
GroupAllowedAnywhere(ms) ==
  \A m, n \in ms :
    m # n => /\ m.atom # n.atom /\ m.to # n.to
             /\ m.trap = n.trap => SamePosition(m.from, n.from)

\* What the walk and the replay ask of the moves of a group together: distinct
\* atoms, destinations and traps, and destinations that are empty once every
\* source is left.
GroupAllowed(ms) ==
  /\ \A m, n \in ms :
       m # n => /\ m.atom # n.atom /\ m.to # n.to
                /\ m.trap = n.trap => SamePosition(m.from, n.from)
  /\ \A m \in ms : holder[m.to] = NoAtom \/ \E n \in ms : n.from = m.to

\* apply_move_group: every source is left before any destination is taken.
MoveGroup(g) ==
  LET ms == Elems(g)
      arrival(s) == CHOOSE m \in ms : m.to = s
      move(a)    == CHOOSE m \in ms : m.atom = a
  IN /\ g # <<>>
     /\ GroupAllowed(ms)
     /\ holder' = [s \in Sites |->
                     IF \E m \in ms : m.to = s THEN arrival(s).atom
                     ELSE IF \E m \in ms : m.from = s THEN NoAtom
                     ELSE holder[s]]
     /\ site' = [a \in Atoms |-> IF \E m \in ms : m.atom = a THEN move(a).to
                                 ELSE site[a]]
     /\ moves' = moves \o g
     /\ UNCHANGED <<trap, bindings, transfers, pairs, layers>>

TransferOf(a, t, dir) == [atom |-> a, site |-> site[a], trap |-> t, dir |-> dir]

\* A load takes an atom out of the static trap of its site; a store puts it
\* back from the AOD trap it rides in.
Transfer(t) ==
  /\ t.atom \notin ClaimedAtoms /\ t.site \notin ClaimedSites
  /\ t.dir = "aod_to_slm" => BoundTo(t.atom, t.trap)
  /\ trap[t.atom] = IF t.dir = "slm_to_aod" THEN Slm ELSE t.trap
  /\ trap' = [trap EXCEPT ![t.atom] = IF t.dir = "slm_to_aod" THEN t.trap
                                      ELSE Slm]
  /\ transfers' = transfers \cup {t}
  /\ UNCHANGED <<site, holder, bindings, moves, pairs, layers>>

PairOf(a, b) == [lhs |-> a, rhs |-> b, lsite |-> site[a], rsite |-> site[b]]

\* Mutant: the ends of a pair are not compared with each other.
PairAllowedWithItself(p) ==
  /\ {p.lhs, p.rhs} \cap {e.atom : e \in Ends(pairs)} = {}
  /\ {p.lsite, p.rsite} \subseteq RydbergSites

\* Each end is stamped with the position of the site its atom is at, and no
\* atom is in two pairs of the layer.  A flat array has no zones: all its sites
\* are RydbergSites.
PairAllowed(p) ==
  /\ p.lhs # p.rhs
  /\ {p.lhs, p.rhs} \cap {e.atom : e \in Ends(pairs)} = {}
  /\ {p.lsite, p.rsite} \subseteq RydbergSites

Entangle(ps) ==
  /\ ps # {}
  /\ \A p, q \in ps : p # q => {p.lhs, p.rhs} \cap {q.lhs, q.rhs} = {}
  /\ GeometryOK(ps)
  /\ pairs' = pairs \cup ps
  /\ UNCHANGED <<replayVars, bindings, moves, transfers, layers>>

\* Mutant: a store leaves its atom bound.
KeepStored(b, ts) ==
  [a \in Atoms |-> IF \E t \in ts : t.atom = a /\ t.dir = "slm_to_aod"
                   THEN (CHOOSE t \in ts : t.atom = a).trap ELSE b[a]]

\* The bindings once the transfers of the layer have taken effect.
Updated(b, ts) ==
  [a \in Atoms |->
     IF \E t \in ts : t.atom = a
     THEN LET t == CHOOSE t \in ts : t.atom = a
          IN IF t.dir = "slm_to_aod" THEN t.trap ELSE Slm
     ELSE b[a]]

LayerLegal == GeometryOK(pairs) /\ CoupledMoves(moves) /\ OrderedMoves(moves)

\* The end of a layer: its checks, then the buffered binding updates.
EndLayer ==
  /\ layers < MaxLayers
  /\ LayerLegal
  /\ bindings' = Updated(bindings, transfers)
  /\ moves' = <<>> /\ transfers' = {} /\ pairs' = {}
  /\ layers' = layers + 1
  /\ UNCHANGED replayVars

\* A group of moves lists carried atoms in some order, each with a destination.
ReadMoves ==
  \E n \in 1 .. Cardinality(Atoms) :
    \E order \in [1 .. n -> {a \in Atoms : trap[a] # Slm}], to \in [1 .. n -> Sites] :
      LET g == [i \in 1 .. n |-> MoveOf(order[i], to[i])]
      IN /\ \A i, j \in 1 .. n : i # j => order[i] # order[j]
         /\ \A i \in 1 .. n : MoveAllowed(g[i])
         /\ MoveGroup(g)

ReadTransfer ==
  \E a \in Atoms :
    \/ \E t \in Traps : Transfer(TransferOf(a, t, "slm_to_aod"))
    \/ trap[a] # Slm /\ Transfer(TransferOf(a, trap[a], "aod_to_slm"))

ReadEntangle ==
  \E ends \in SUBSET {e \in Atoms \X Atoms : PairAllowed(PairOf(e[1], e[2]))} :
    Entangle({PairOf(e[1], e[2]) : e \in ends})

Next ==
  \/ layers < MaxLayers /\ (ReadMoves \/ ReadTransfer \/ ReadEntangle)
  \/ EndLayer

Spec == Init /\ [][Next]_vars

--------------------------------------------------------------------------------
(* Properties.                                                                 *)

\* The replay's two views of where atoms are agree, so two atoms are never at
\* one site, through group moves that pass sites on (M5 of
\* docs/neutral_atom/architecture_model.md).
HoldersMatchSites ==
  /\ \A a \in Atoms : holder[site[a]] = a
  /\ \A s \in Sites : holder[s] # NoAtom => site[holder[s]] = s

\* The bindings of the layer walk, which applies the transfers of a layer when
\* the layer ends, are the traps the replay has after each action.
BindingsMatchTraps == trap = Updated(bindings, transfers)

\* The moves of one row start at one height, those of one column one above the
\* other, as the lines of a device do.  The verifier does not ask it.
LinesAreStraight ==
  \A m, n \in Elems(moves) :
    m.trap.aod = n.trap.aod =>
      /\ m.trap.row = n.trap.row => Y[m.from] = Y[n.from]
      /\ m.trap.col = n.trap.col => X[m.from] = X[n.from]

\* In a legal layer whose lines are straight no two atoms of one AOD trade
\* places, though only the first move of each line is compared with those of
\* other lines: rows or columns would have to cross (M2).
NobodyTradesPlaces ==
  LayerLegal /\ LinesAreStraight =>
    \A m, n \in Elems(moves) :
      m.atom # n.atom /\ m.trap.aod = n.trap.aod =>
        ~(SamePosition(m.to, n.from) /\ SamePosition(n.to, m.from))

--------------------------------------------------------------------------------
(* What makes these inductive.                                                 *)

\* Destinations and transferred atoms of a layer are claimed once.
ClaimedOnce ==
  /\ \A m, n \in Elems(moves) : m # n => m.to # n.to
  /\ \A t, u \in transfers : t.atom = u.atom => t = u

ReplayInv == TypeOK /\ HoldersMatchSites /\ BindingsMatchTraps /\ ClaimedOnce
================================================================================
