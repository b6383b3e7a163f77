----------------------------- MODULE NaReplayProofs -----------------------------
(***************************************************************************)
(* The verifier of emitted schedules keeps track of every atom: theorems   *)
(* for every array of sites, any AODs and schedules of any length.         *)
(***************************************************************************)
EXTENDS NaReplay, SequenceTheorems, WellFoundedInduction, TLAPS

(***************************************************************************)
(* Groups of moves.                                                        *)
(***************************************************************************)

\* The moves after a group are those before it and the group's.
LEMMA ElemsConcat ==
  ASSUME NEW S, NEW s \in Seq(S), NEW g \in Seq(S)
  PROVE  /\ Elems(s \o g) = Elems(s) \cup Elems(g)
         /\ Elems(s) \subseteq S
<1>1. /\ DOMAIN s = 1 .. Len(s) /\ DOMAIN g = 1 .. Len(g)
      /\ DOMAIN (s \o g) = 1 .. Len(s) + Len(g)
      /\ Len(s) \in Nat /\ Len(g) \in Nat
  OBVIOUS
<1>2. \A i \in 1 .. Len(s) + Len(g) :
        (s \o g)[i] = IF i <= Len(s) THEN s[i] ELSE g[i - Len(s)]
  OBVIOUS
<1>3. ASSUME NEW e \in Elems(s \o g) PROVE e \in Elems(s) \cup Elems(g)
  <2>1. PICK i \in 1 .. Len(s) + Len(g) : e = (s \o g)[i]
    BY <1>1 DEF Elems
  <2>2. CASE i <= Len(s)
    BY <1>1, <1>2, <2>1, <2>2 DEF Elems
  <2>3. CASE i > Len(s)
    <3>1. i - Len(s) \in 1 .. Len(g) /\ e = g[i - Len(s)]
      BY <1>1, <1>2, <2>1, <2>3
    <3>. QED
      BY <1>1, <3>1 DEF Elems
  <2>. QED
    BY <1>1, <2>2, <2>3
<1>4. ASSUME NEW e \in Elems(s) PROVE e \in Elems(s \o g)
  <2>1. PICK i \in 1 .. Len(s) : e = s[i]
    BY <1>1 DEF Elems
  <2>2. i \in DOMAIN (s \o g) /\ (s \o g)[i] = e
    BY <1>1, <1>2, <2>1
  <2>. QED
    BY <2>2 DEF Elems
<1>5. ASSUME NEW e \in Elems(g) PROVE e \in Elems(s \o g)
  <2>1. PICK i \in 1 .. Len(g) : e = g[i]
    BY <1>1 DEF Elems
  <2>2. i + Len(s) \in DOMAIN (s \o g) /\ (s \o g)[i + Len(s)] = e
    BY <1>1, <1>2, <2>1
  <2>. QED
    BY <2>2 DEF Elems
<1>6. Elems(s) \subseteq S
  BY DEF Elems
<1>. QED
  BY <1>3, <1>4, <1>5, <1>6

\* A group the machine reads: what its moves are.
LEMMA GroupRead ==
  ASSUME ReplayInv, ReadMoves
  PROVE  \E g \in Seq(MoveSpec) :
           /\ MoveGroup(g)
           /\ \A m \in Elems(g) :
                m.from = site[m.atom] /\ m.to \notin ClaimedSites
<1>0. PICK n \in 1 .. Cardinality(Atoms) :
        \E order \in [1 .. n -> {a \in Atoms : trap[a] # Slm}], to \in [1 .. n -> Sites] :
          LET g == [i \in 1 .. n |-> MoveOf(order[i], to[i])]
          IN /\ \A i \in 1 .. n : MoveAllowed(g[i])
             /\ MoveGroup(g)
  BY DEF ReadMoves
<1>1. PICK order \in [1 .. n -> {a \in Atoms : trap[a] # Slm}], to \in [1 .. n -> Sites] :
        LET g == [i \in 1 .. n |-> MoveOf(order[i], to[i])]
        IN /\ \A i \in 1 .. n : MoveAllowed(g[i])
           /\ MoveGroup(g)
  BY <1>0
<1>. DEFINE g == [i \in 1 .. n |-> MoveOf(order[i], to[i])]
<1>2. n \in Nat
  OBVIOUS
<1>3. ASSUME NEW i \in 1 .. n
      PROVE  /\ g[i] \in MoveSpec
             /\ g[i].from = site[g[i].atom] /\ g[i].to \notin ClaimedSites
  <2>1. /\ order[i] \in Atoms /\ trap[order[i]] # Slm /\ to[i] \in Sites
        /\ trap \in [Atoms -> Traps \cup {Slm}] /\ site \in [Atoms -> Sites]
    BY DEF ReplayInv, TypeOK
  <2>2. g[i] = [atom |-> order[i], from |-> site[order[i]], to |-> to[i],
                trap |-> trap[order[i]]]
    BY DEF MoveOf
  <2>3. MoveAllowed(g[i])
    BY <1>1
  <2>. QED
    BY <2>1, <2>2, <2>3 DEF MoveSpec, MoveAllowed
<1>4. DOMAIN g = 1 .. n /\ g \in [1 .. n -> MoveSpec]
  BY <1>3
<1>5. g \in Seq(MoveSpec)
  BY <1>2, <1>4
<1>6. \A m \in Elems(g) : m.from = site[m.atom] /\ m.to \notin ClaimedSites
  BY <1>3, <1>4 DEF Elems
<1>7. MoveGroup(g)
  BY <1>1
<1>. HIDE DEF g
<1>. QED
  BY <1>5, <1>6, <1>7

\* Where a group leaves atoms and sites: every listed atom is at its
\* destination, sites that were only left are empty, the rest is unchanged.
LEMMA GroupLands ==
  ASSUME ReplayInv, NEW g \in Seq(MoveSpec), MoveGroup(g)
  PROVE  /\ \A m \in Elems(g) : site'[m.atom] = m.to /\ holder'[m.to] = m.atom
         /\ \A a \in Atoms : (\A m \in Elems(g) : m.atom # a) => site'[a] = site[a]
         /\ \A s \in Sites : (\A m \in Elems(g) : m.to # s) =>
              holder'[s] = IF \E m \in Elems(g) : m.from = s THEN NoAtom ELSE holder[s]
         /\ site' \in [Atoms -> Sites] /\ holder' \in [Sites -> Atoms \cup {NoAtom}]
         /\ moves' = moves \o g
<1>. DEFINE ms == Elems(g)
<1>1. /\ holder' = [s \in Sites |->
                     IF \E m \in ms : m.to = s THEN (CHOOSE m \in ms : m.to = s).atom
                     ELSE IF \E m \in ms : m.from = s THEN NoAtom
                     ELSE holder[s]]
      /\ site' = [a \in Atoms |-> IF \E m \in ms : m.atom = a
                                  THEN (CHOOSE m \in ms : m.atom = a).to
                                  ELSE site[a]]
      /\ \A m, n \in ms : m # n => m.atom # n.atom /\ m.to # n.to
      /\ moves' = moves \o g
  BY DEF MoveGroup, GroupAllowed
<1>0. ms \subseteq MoveSpec
  BY ElemsConcat
<1>2. \A m \in ms : m.atom \in Atoms /\ m.to \in Sites
  BY <1>0 DEF MoveSpec
<1>3. site \in [Atoms -> Sites] /\ holder \in [Sites -> Atoms \cup {NoAtom}]
  BY DEF ReplayInv, TypeOK
<1>. HIDE DEF ms
<1>4. \A m \in ms : (CHOOSE n \in ms : n.to = m.to) = m
  BY <1>1
<1>5. \A m \in ms : (CHOOSE n \in ms : n.atom = m.atom) = m
  BY <1>1
<1>6. ASSUME NEW m \in ms PROVE site'[m.atom] = m.to /\ holder'[m.to] = m.atom
  BY <1>1, <1>2, <1>4, <1>5, <1>6
<1>7. \A a \in Atoms : (\A m \in ms : m.atom # a) => site'[a] = site[a]
  BY <1>1
<1>8. \A s \in Sites : (\A m \in ms : m.to # s) =>
        holder'[s] = IF \E m \in ms : m.from = s THEN NoAtom ELSE holder[s]
  BY <1>1
<1>9. ASSUME NEW a \in Atoms PROVE site'[a] \in Sites
  BY <1>2, <1>3, <1>6, <1>7
<1>10. ASSUME NEW s \in Sites PROVE holder'[s] \in Atoms \cup {NoAtom}
  BY <1>2, <1>3, <1>6, <1>8
<1>11. site' \in [Atoms -> Sites] /\ holder' \in [Sites -> Atoms \cup {NoAtom}]
  BY <1>1, <1>9, <1>10
<1>. QED
  BY <1>1, <1>6, <1>7, <1>8, <1>11 DEF ms

(***************************************************************************)
(* The two views of where atoms are.                                       *)
(***************************************************************************)

\* A group keeps holders and sites together, in whatever order its moves pass
\* sites on.
LEMMA GroupKeepsHolders ==
  ASSUME ReplayInv, NEW g \in Seq(MoveSpec), MoveGroup(g),
         \A m \in Elems(g) : m.from = site[m.atom] /\ m.to \notin ClaimedSites
  PROVE  HoldersMatchSites'
<1>. DEFINE ms == Elems(g)
<1>1. /\ \A m \in ms : site'[m.atom] = m.to /\ holder'[m.to] = m.atom
      /\ \A a \in Atoms : (\A m \in ms : m.atom # a) => site'[a] = site[a]
      /\ \A s \in Sites : (\A m \in ms : m.to # s) =>
           holder'[s] = IF \E m \in ms : m.from = s THEN NoAtom ELSE holder[s]
  BY GroupLands
<1>2. /\ \A m \in ms : holder[m.to] = NoAtom \/ \E n \in ms : n.from = m.to
      /\ \A m \in ms : m.from = site[m.atom]
  BY DEF MoveGroup, GroupAllowed
<1>3. ms \subseteq MoveSpec
  BY ElemsConcat
<1>4. \A m \in ms : m.atom \in Atoms /\ m.to \in Sites
  BY <1>3 DEF MoveSpec
<1>5. /\ \A a \in Atoms : holder[site[a]] = a /\ site[a] \in Sites
      /\ \A s \in Sites : holder[s] # NoAtom => site[holder[s]] = s /\ holder[s] \in Atoms
      /\ NoAtom \notin Atoms
  BY ReplayAssumption DEF ReplayInv, TypeOK, HoldersMatchSites
<1>. HIDE DEF ms
<1>6. ASSUME NEW a \in Atoms PROVE holder'[site'[a]] = a
  <2>1. CASE \E m \in ms : m.atom = a
    BY <1>1, <2>1
  <2>2. CASE \A m \in ms : m.atom # a
    <3>1. site'[a] = site[a] /\ site[a] \in Sites /\ holder[site[a]] = a /\ a # NoAtom
      BY <1>1, <1>5, <2>2
    <3>2. \A m \in ms : m.from # site[a]
      BY <1>2, <1>4, <1>5, <2>2
    <3>3. \A m \in ms : m.to # site[a]
      BY <1>2, <3>1, <3>2
    <3>. QED
      BY <1>1, <3>1, <3>2, <3>3
  <2>. QED
    BY <2>1, <2>2
<1>7. ASSUME NEW s \in Sites, holder'[s] # NoAtom PROVE site'[holder'[s]] = s
  <2>1. CASE \E m \in ms : m.to = s
    BY <1>1, <2>1
  <2>2. CASE \A m \in ms : m.to # s
    <3>1. holder'[s] = holder[s] /\ \A m \in ms : m.from # s
      BY <1>1, <1>7, <2>2
    <3>2. holder[s] \in Atoms /\ site[holder[s]] = s
      BY <1>5, <1>7, <3>1
    <3>3. \A m \in ms : m.atom # holder[s]
      BY <1>2, <3>1, <3>2
    <3>. QED
      BY <1>1, <3>1, <3>2, <3>3
  <2>. QED
    BY <2>1, <2>2
<1>. QED
  BY <1>6, <1>7 DEF HoldersMatchSites

\* The bindings after one more transfer, of an atom that had none in the layer.
LEMMA OneMoreTransfer ==
  ASSUME NEW b, NEW ts, NEW t,
         \A u, v \in ts : u.atom = v.atom => u = v,
         \A u \in ts : u.atom # t.atom
  PROVE  Updated(b, ts \cup {t}) =
           [a \in Atoms |->
              IF a = t.atom THEN IF t.dir = "slm_to_aod" THEN t.trap ELSE Slm
              ELSE Updated(b, ts)[a]]
<1>. DEFINE Last(S, a) == CHOOSE u \in S : u.atom = a
            After(S, a) == IF \E u \in S : u.atom = a
                           THEN IF Last(S, a).dir = "slm_to_aod" THEN Last(S, a).trap ELSE Slm
                           ELSE b[a]
<1>1. ASSUME NEW a \in Atoms, a # t.atom PROVE After(ts \cup {t}, a) = After(ts, a)
  <2>1. CASE \E u \in ts : u.atom = a
    <3>1. PICK u \in ts : u.atom = a
      BY <2>1
    <3>2. Last(ts, a) = u /\ Last(ts \cup {t}, a) = u
      BY <1>1, <3>1
    <3>. QED
      BY <3>1, <3>2
  <2>2. CASE \A u \in ts : u.atom # a
    BY <1>1, <2>2
  <2>. QED
    BY <2>1, <2>2
<1>2. ASSUME NEW a \in Atoms, a = t.atom
      PROVE  After(ts \cup {t}, a) = IF t.dir = "slm_to_aod" THEN t.trap ELSE Slm
  <2>1. Last(ts \cup {t}, a) = t
    BY <1>2
  <2>. QED
    BY <1>2, <2>1
<1>3. /\ Updated(b, ts) = [a \in Atoms |-> After(ts, a)]
      /\ Updated(b, ts \cup {t}) = [a \in Atoms |-> After(ts \cup {t}, a)]
  BY DEF Updated
<1>. HIDE DEF After
<1>. QED
  BY <1>1, <1>2, <1>3

(***************************************************************************)
(* The invariant.                                                          *)
(***************************************************************************)

\* A schedule starts in static traps, with no binding.
LEMMA ReplayInit == Init => ReplayInv
<1>. SUFFICES ASSUME Init PROVE ReplayInv
  OBVIOUS
<1>1. /\ site = Start /\ trap = [a \in Atoms |-> Slm] /\ bindings = [a \in Atoms |-> Slm]
      /\ moves = <<>> /\ transfers = {} /\ pairs = {} /\ layers = 0
  BY DEF Init
<1>2. ASSUME NEW s \in Sites
      PROVE  /\ holder[s] \in Atoms \cup {NoAtom}
             /\ holder[s] # NoAtom => Start[holder[s]] = s
             /\ \A a \in Atoms : Start[a] = s => holder[s] = a
  <2>1. holder[s] = IF \E a \in Atoms : Start[a] = s
                    THEN CHOOSE a \in Atoms : Start[a] = s ELSE NoAtom
    BY DEF Init
  <2>2. CASE \E a \in Atoms : Start[a] = s
    <3>1. holder[s] \in Atoms /\ Start[holder[s]] = s
      BY <2>1, <2>2
    <3>. QED
      BY <3>1, ReplayAssumption
  <2>. QED
    BY <2>1, <2>2
<1>3. TypeOK
  <2>1. site \in [Atoms -> Sites] /\ layers \in 0 .. MaxLayers
    BY <1>1, ReplayAssumption
  <2>2. holder \in [Sites -> Atoms \cup {NoAtom}]
    BY <1>2 DEF Init
  <2>3. moves \in Seq(MoveSpec) /\ transfers \subseteq TransferSpec /\ pairs \subseteq PairSpec
    BY <1>1
  <2>. QED
    BY <1>1, <2>1, <2>2, <2>3 DEF TypeOK
<1>4. HoldersMatchSites
  BY <1>1, <1>2, ReplayAssumption DEF HoldersMatchSites
<1>5. BindingsMatchTraps
  BY <1>1 DEF BindingsMatchTraps, Updated
<1>6. ClaimedOnce
  BY <1>1 DEF ClaimedOnce, Elems
<1>. QED
  BY <1>3, <1>4, <1>5, <1>6 DEF ReplayInv

\* A group of moves claims its destinations.
LEMMA MovesKeep == ReplayInv /\ ReadMoves => ReplayInv'
<1>. SUFFICES ASSUME ReplayInv, ReadMoves PROVE ReplayInv'
  OBVIOUS
<1>1. PICK g \in Seq(MoveSpec) :
        /\ MoveGroup(g)
        /\ \A m \in Elems(g) : m.from = site[m.atom] /\ m.to \notin ClaimedSites
  BY GroupRead
<1>2. /\ site' \in [Atoms -> Sites] /\ holder' \in [Sites -> Atoms \cup {NoAtom}]
      /\ moves' = moves \o g
  BY <1>1, GroupLands
<1>3. UNCHANGED <<trap, bindings, transfers, pairs, layers>>
  BY <1>1 DEF MoveGroup
<1>4. TypeOK'
  <2>1. moves' \in Seq(MoveSpec)
    BY <1>2 DEF ReplayInv, TypeOK
  <2>. QED
    BY <1>2, <1>3, <2>1 DEF ReplayInv, TypeOK
<1>5. HoldersMatchSites'
  BY <1>1, GroupKeepsHolders
<1>6. BindingsMatchTraps'
  BY <1>3 DEF ReplayInv, BindingsMatchTraps
<1>7. ClaimedOnce'
  <2>1. Elems(moves') = Elems(moves) \cup Elems(g)
    BY <1>2, ElemsConcat DEF ReplayInv, TypeOK
  <2>2. \A m, n \in Elems(g) : m # n => m.to # n.to
    BY <1>1 DEF MoveGroup, GroupAllowed
  <2>3. \A m \in Elems(g), n \in Elems(moves) : m.to # n.to
    BY <1>1 DEF ClaimedSites
  <2>. QED
    BY <1>3, <2>1, <2>2, <2>3 DEF ReplayInv, ClaimedOnce
<1>. QED
  BY <1>4, <1>5, <1>6, <1>7 DEF ReplayInv

\* A transfer changes the traps of the replay as it will change the bindings.
LEMMA TransferKeeps == ReplayInv /\ ReadTransfer => ReplayInv'
<1>. SUFFICES ASSUME ReplayInv, ReadTransfer PROVE ReplayInv'
  OBVIOUS
<1>1. PICK t \in TransferSpec : Transfer(t)
  <2>1. PICK a \in Atoms :
          \/ \E t \in Traps : Transfer(TransferOf(a, t, "slm_to_aod"))
          \/ trap[a] # Slm /\ Transfer(TransferOf(a, trap[a], "aod_to_slm"))
    BY DEF ReadTransfer
  <2>2. site[a] \in Sites /\ trap[a] \in Traps \cup {Slm}
    BY DEF ReplayInv, TypeOK
  <2>. QED
    BY <2>1, <2>2 DEF TransferOf, TransferSpec
<1>2. /\ t.atom \in Atoms /\ t.trap \in Traps
      /\ \A u \in transfers : u.atom # t.atom
      /\ trap' = [trap EXCEPT ![t.atom] = IF t.dir = "slm_to_aod" THEN t.trap ELSE Slm]
      /\ transfers' = transfers \cup {t}
      /\ UNCHANGED <<site, holder, bindings, moves, pairs, layers>>
  BY <1>1 DEF Transfer, TransferSpec, ClaimedAtoms
<1>3. TypeOK'
  BY <1>2 DEF ReplayInv, TypeOK
<1>4. HoldersMatchSites'
  BY <1>2 DEF ReplayInv, HoldersMatchSites
<1>5. ClaimedOnce'
  BY <1>2 DEF ReplayInv, ClaimedOnce
<1>6. BindingsMatchTraps'
  <2>1. trap = Updated(bindings, transfers) /\ trap \in [Atoms -> Traps \cup {Slm}]
    BY DEF ReplayInv, BindingsMatchTraps, TypeOK
  <2>2. \A u, v \in transfers : u.atom = v.atom => u = v
    BY DEF ReplayInv, ClaimedOnce
  <2>3. Updated(bindings, transfers \cup {t}) =
          [a \in Atoms |->
             IF a = t.atom THEN IF t.dir = "slm_to_aod" THEN t.trap ELSE Slm
             ELSE Updated(bindings, transfers)[a]]
    BY <1>2, <2>2, OneMoreTransfer
  <2>. QED
    BY <1>2, <2>1, <2>3 DEF BindingsMatchTraps
<1>. QED
  BY <1>3, <1>4, <1>5, <1>6 DEF ReplayInv

\* Pairs move nothing.
LEMMA EntangleKeeps == ReplayInv /\ ReadEntangle => ReplayInv'
<1>. SUFFICES ASSUME ReplayInv, ReadEntangle PROVE ReplayInv'
  OBVIOUS
<1>1. PICK ends \in SUBSET {e \in Atoms \X Atoms : PairAllowed(PairOf(e[1], e[2]))} :
        Entangle({PairOf(e[1], e[2]) : e \in ends})
  BY DEF ReadEntangle
<1>2. /\ pairs' = pairs \cup {PairOf(e[1], e[2]) : e \in ends}
      /\ UNCHANGED <<site, trap, holder, bindings, moves, transfers, layers>>
  BY <1>1 DEF Entangle, replayVars
<1>3. ASSUME NEW e \in ends PROVE PairOf(e[1], e[2]) \in PairSpec
  <2>1. e[1] \in Atoms /\ e[2] \in Atoms /\ PairAllowed(PairOf(e[1], e[2]))
    OBVIOUS
  <2>2. site[e[1]] \in Sites /\ site[e[2]] \in Sites
    BY <2>1 DEF ReplayInv, TypeOK
  <2>. QED
    BY <2>1, <2>2 DEF PairOf, PairSpec, PairAllowed
<1>4. TypeOK'
  BY <1>2, <1>3 DEF ReplayInv, TypeOK
<1>. QED
  BY <1>2, <1>4 DEF ReplayInv, HoldersMatchSites, BindingsMatchTraps, ClaimedOnce

\* The end of a layer makes the buffered transfers the bindings.
LEMMA LayerKeeps == ReplayInv /\ EndLayer => ReplayInv'
<1>. SUFFICES ASSUME ReplayInv, EndLayer PROVE ReplayInv'
  OBVIOUS
<1>1. /\ bindings' = Updated(bindings, transfers) /\ bindings' = trap
      /\ moves' = <<>> /\ transfers' = {} /\ pairs' = {}
      /\ layers < MaxLayers /\ layers' = layers + 1
      /\ UNCHANGED <<site, trap, holder>>
  BY DEF EndLayer, replayVars, ReplayInv, BindingsMatchTraps
<1>2. trap \in [Atoms -> Traps \cup {Slm}]
  BY DEF ReplayInv, TypeOK
<1>3. TypeOK'
  <2>1. layers' \in 0 .. MaxLayers
    BY <1>1, ReplayAssumption DEF ReplayInv, TypeOK
  <2>2. moves' \in Seq(MoveSpec)
    BY <1>1
  <2>. QED
    BY <1>1, <1>2, <2>1, <2>2 DEF ReplayInv, TypeOK
<1>4. Updated(bindings', {}) = bindings'
  <2>1. Updated(bindings', {}) = [a \in Atoms |-> bindings'[a]]
    BY DEF Updated
  <2>. QED
    BY <1>1, <1>2, <2>1
<1>5. BindingsMatchTraps'
  BY <1>1, <1>4 DEF BindingsMatchTraps
<1>6. ClaimedOnce'
  BY <1>1 DEF ClaimedOnce, Elems
<1>. QED
  BY <1>1, <1>3, <1>5, <1>6 DEF ReplayInv, HoldersMatchSites

\* Every action the verifier reads keeps the invariant.
LEMMA ReplayNext == ReplayInv /\ [Next]_vars => ReplayInv'
<1>1. ReplayInv /\ UNCHANGED vars => ReplayInv'
  BY DEF vars, replayVars, layerVars, ReplayInv, TypeOK, HoldersMatchSites,
         BindingsMatchTraps, ClaimedOnce
<1>. QED
  BY <1>1, MovesKeep, TransferKeeps, EntangleKeeps, LayerKeeps DEF Next

\* Every reachable state of the verifier satisfies the invariant.
LEMMA ReplayAlways == Spec => []ReplayInv
  BY ReplayInit, ReplayNext, PTL DEF Spec

(***************************************************************************)
(* Moves of one layer do not cross.                                        *)
(***************************************************************************)

\* A set of naturals has a least element.
LEMMA LeastNatural ==
  ASSUME NEW S \in SUBSET Nat, S # {}
  PROVE  \E i \in S : \A j \in S : i <= j
<1>. DEFINE R == {ss \in Nat \X Nat : ss[1] < ss[2]}
<1>1. IsWellFoundedOn(R, Nat)
  BY NatLessThanWellFounded DEF OpToRel
<1>. HIDE DEF R
<1>2. PICK i \in S : \A j \in S : ~(<<j, i>> \in R)
  BY <1>1, WFMin
<1>3. ASSUME NEW j \in S PROVE i <= j
  <2>1. ~(<<j, i>> \in R) /\ i \in Nat /\ j \in Nat
    BY <1>2
  <2>. QED
    BY <2>1 DEF R
<1>. QED
  BY <1>3

\* A row has a leader, which starts and ends at the height of any of its moves.
LEMMA RowHasLeader ==
  ASSUME ReplayInv, CoupledMoves(moves), LinesAreStraight, NEW m \in Elems(moves)
  PROVE  \E l \in RowLeaders(moves) :
           /\ l.trap.aod = m.trap.aod /\ l.trap.row = m.trap.row
           /\ Y[l.from] = Y[m.from] /\ Y[l.to] = Y[m.to]
<1>. DEFINE S == {i \in DOMAIN moves : /\ moves[i].trap.aod = m.trap.aod
                                      /\ moves[i].trap.row = m.trap.row}
<1>1. moves \in Seq(MoveSpec)
  BY DEF ReplayInv, TypeOK
<1>2. S \in SUBSET Nat /\ S # {}
  BY <1>1 DEF Elems
<1>3. PICK i \in S : \A j \in S : i <= j
  BY <1>2, LeastNatural
<1>4. moves[i] \in RowLeaders(moves)
  <2>1. ASSUME NEW j \in 1 .. i - 1
        PROVE  moves[j].trap.aod # moves[i].trap.aod \/ moves[j].trap.row # moves[i].trap.row
    <3>1. j \in DOMAIN moves /\ ~(i <= j)
      BY <1>1
    <3>. QED
      BY <1>3, <3>1
  <2>. QED
    BY <2>1 DEF RowLeaders
<1>5. moves[i] \in Elems(moves)
  BY DEF Elems
<1>6. Y[moves[i].from] = Y[m.from]
  BY <1>5 DEF LinesAreStraight
<1>7. Y[moves[i].to] = Y[m.to]
  <2>1. Y[moves[i].to] - Y[moves[i].from] = Y[m.to] - Y[m.from]
    BY <1>5 DEF CoupledMoves
  <2>2. moves[i] \in MoveSpec /\ m \in MoveSpec
    BY <1>1, <1>5, ElemsConcat
  <2>3. /\ Y[moves[i].to] \in Int /\ Y[moves[i].from] \in Int
        /\ Y[m.to] \in Int /\ Y[m.from] \in Int
    BY <2>2, ReplayAssumption DEF MoveSpec
  <2>. QED
    BY <1>6, <2>1, <2>3
<1>. QED
  BY <1>4, <1>6, <1>7

\* A column has a leader, which starts and ends below any of its moves.
LEMMA ColHasLeader ==
  ASSUME ReplayInv, CoupledMoves(moves), LinesAreStraight, NEW m \in Elems(moves)
  PROVE  \E l \in ColLeaders(moves) :
           /\ l.trap.aod = m.trap.aod /\ l.trap.col = m.trap.col
           /\ X[l.from] = X[m.from] /\ X[l.to] = X[m.to]
<1>. DEFINE S == {i \in DOMAIN moves : /\ moves[i].trap.aod = m.trap.aod
                                      /\ moves[i].trap.col = m.trap.col}
<1>1. moves \in Seq(MoveSpec)
  BY DEF ReplayInv, TypeOK
<1>2. S \in SUBSET Nat /\ S # {}
  BY <1>1 DEF Elems
<1>3. PICK i \in S : \A j \in S : i <= j
  BY <1>2, LeastNatural
<1>4. moves[i] \in ColLeaders(moves)
  <2>1. ASSUME NEW j \in 1 .. i - 1
        PROVE  moves[j].trap.aod # moves[i].trap.aod \/ moves[j].trap.col # moves[i].trap.col
    <3>1. j \in DOMAIN moves /\ ~(i <= j)
      BY <1>1
    <3>. QED
      BY <1>3, <3>1
  <2>. QED
    BY <2>1 DEF ColLeaders
<1>5. moves[i] \in Elems(moves)
  BY DEF Elems
<1>6. X[moves[i].from] = X[m.from]
  BY <1>5 DEF LinesAreStraight
<1>7. X[moves[i].to] = X[m.to]
  <2>1. X[moves[i].to] - X[moves[i].from] = X[m.to] - X[m.from]
    BY <1>5 DEF CoupledMoves
  <2>2. moves[i] \in MoveSpec /\ m \in MoveSpec
    BY <1>1, <1>5, ElemsConcat
  <2>3. /\ X[moves[i].to] \in Int /\ X[moves[i].from] \in Int
        /\ X[m.to] \in Int /\ X[m.from] \in Int
    BY <2>2, ReplayAssumption DEF MoveSpec
  <2>. QED
    BY <1>6, <2>1, <2>3
<1>. QED
  BY <1>4, <1>6, <1>7

\* On one axis: lines that are kept apart do not swap their coordinates, and
\* moves of one line that swap theirs have one coordinate.
LEMMA NoSwap ==
  ASSUME NEW f1 \in Int, NEW t1 \in Int, NEW f2 \in Int, NEW t2 \in Int,
         t1 = f2, t2 = f1
  PROVE  /\ ~KeepApart(f1, t1, f2, t2)
         /\ t1 - f1 = t2 - f2 => f1 = f2
BY ReplayAssumption DEF KeepApart, Abs

\* Atoms that trade places would be in one row and in one column, hence at one
\* position, and their destinations one site.
LEMMA NoTrades ==
  ASSUME ReplayInv, \A s, t \in Sites : SamePosition(s, t) => s = t
  PROVE  NobodyTradesPlaces
<1>. SUFFICES ASSUME LayerLegal, LinesAreStraight,
                     NEW m \in Elems(moves), NEW n \in Elems(moves),
                     m.atom # n.atom, m.trap.aod = n.trap.aod,
                     SamePosition(m.to, n.from), SamePosition(n.to, m.from)
              PROVE  FALSE
  BY DEF NobodyTradesPlaces
<1>1. CoupledMoves(moves) /\ OrderedMoves(moves)
  BY DEF LayerLegal
<1>2. m \in MoveSpec /\ n \in MoveSpec
  BY ElemsConcat DEF ReplayInv, TypeOK
<1>3. /\ m.from \in Sites /\ m.to \in Sites /\ n.from \in Sites /\ n.to \in Sites
      /\ X \in [Sites -> Int] /\ Y \in [Sites -> Int]
  BY <1>2, ReplayAssumption DEF MoveSpec
<1>4. /\ X[m.to] = X[n.from] /\ X[n.to] = X[m.from]
      /\ Y[m.to] = Y[n.from] /\ Y[n.to] = Y[m.from]
  BY DEF SamePosition
<1>5. m.trap.row = n.trap.row
  <2>1. SUFFICES ASSUME m.trap.row # n.trap.row PROVE FALSE
    OBVIOUS
  <2>2. PICK l \in RowLeaders(moves) :
          /\ l.trap.aod = m.trap.aod /\ l.trap.row = m.trap.row
          /\ Y[l.from] = Y[m.from] /\ Y[l.to] = Y[m.to]
    BY <1>1, RowHasLeader
  <2>3. PICK k \in RowLeaders(moves) :
          /\ k.trap.aod = n.trap.aod /\ k.trap.row = n.trap.row
          /\ Y[k.from] = Y[n.from] /\ Y[k.to] = Y[n.to]
    BY <1>1, RowHasLeader
  <2>4. KeepApart(Y[m.from], Y[m.to], Y[n.from], Y[n.to])
    BY <1>1, <2>1, <2>2, <2>3 DEF OrderedMoves
  <2>. QED
    BY <1>3, <1>4, <2>4, NoSwap
<1>6. m.trap.col = n.trap.col
  <2>1. SUFFICES ASSUME m.trap.col # n.trap.col PROVE FALSE
    OBVIOUS
  <2>2. PICK l \in ColLeaders(moves) :
          /\ l.trap.aod = m.trap.aod /\ l.trap.col = m.trap.col
          /\ X[l.from] = X[m.from] /\ X[l.to] = X[m.to]
    BY <1>1, ColHasLeader
  <2>3. PICK k \in ColLeaders(moves) :
          /\ k.trap.aod = n.trap.aod /\ k.trap.col = n.trap.col
          /\ X[k.from] = X[n.from] /\ X[k.to] = X[n.to]
    BY <1>1, ColHasLeader
  <2>4. KeepApart(X[m.from], X[m.to], X[n.from], X[n.to])
    BY <1>1, <2>1, <2>2, <2>3 DEF OrderedMoves
  <2>. QED
    BY <1>3, <1>4, <2>4, NoSwap
<1>7. /\ Y[m.to] - Y[m.from] = Y[n.to] - Y[n.from]
      /\ X[m.to] - X[m.from] = X[n.to] - X[n.from]
  BY <1>1, <1>5, <1>6 DEF CoupledMoves
<1>8. X[m.from] = X[n.from] /\ Y[m.from] = Y[n.from]
  BY <1>3, <1>4, <1>7, NoSwap
<1>9. m.to = n.to
  BY <1>3, <1>4, <1>8 DEF SamePosition
<1>. QED
  BY <1>9 DEF ReplayInv, ClaimedOnce

(***************************************************************************)
(* The theorems.                                                           *)
(***************************************************************************)

\* Every reachable state of the verifier is well typed (dialect.rs:
\* verify_layer_region; replay.rs: replay_emitted_schedule).
THEOREM TypeCorrect == Spec => []TypeOK
<1>1. ReplayInv => TypeOK
  BY DEF ReplayInv
<1>. QED
  BY <1>1, ReplayAlways, PTL

\* The atom at a site and the site of an atom always agree, so two atoms are
\* never at one site, through group moves of any size in any order
\* (replay.rs: apply_move_group).
THEOREM HoldersCorrect == Spec => []HoldersMatchSites
<1>1. ReplayInv => HoldersMatchSites
  BY DEF ReplayInv
<1>. QED
  BY <1>1, ReplayAlways, PTL

\* The bindings of the layer walk, which lag behind by up to a layer, are the
\* traps of the replay once the layer's transfers are applied (dialect.rs:
\* verify_layer_region).
THEOREM BindingsCorrect == Spec => []BindingsMatchTraps
<1>1. ReplayInv => BindingsMatchTraps
  BY DEF ReplayInv
<1>. QED
  BY <1>1, ReplayAlways, PTL

\* Comparing the first move of each line is enough to keep any two atoms of an
\* AOD from trading places, when lines are straight and no two sites share a
\* position (dialect.rs: verify_axis_order_and_separation).
THEOREM TradesCorrect ==
  ASSUME \A s, t \in Sites : SamePosition(s, t) => s = t
  PROVE  Spec => []NobodyTradesPlaces
<1>1. ReplayInv => NobodyTradesPlaces
  BY NoTrades DEF ReplayInv
<1>. QED
  BY <1>1, ReplayAlways, PTL
================================================================================
