------------------------------ MODULE SabreProofs ------------------------------
(***************************************************************************)
(* The layout of the router stays a bijection, for every device, register  *)
(* and program.  The invariant has to say so of the layouts saved at a     *)
(* branch too, that the slots not given yet are those from nextPhys on,    *)
(* and that a placed qubit is read from a slot, also after a branch.       *)
(***************************************************************************)
EXTENDS SabreRouting, FiniteSetTheorems, SequenceTheorems, TLAPS

Bijective(l) == \A q \in Qubits, s \in Slots : l.map[q] = s <=> l.inv[s] = q

Sound(l, n, w) ==
  /\ Bijective(l)
  /\ \A q \in Qubits : l.map[q] # None => l.map[q] < n /\ w[q].slot # None

\* A qubit the arm did not get is placed in it only if it was before the branch.
OutsidersPlaced(l, S, before) ==
  \A q \in Qubits \ S : l.map[q] # None => before[q].slot # None

IInv ==
  /\ TypeOK /\ saved \in Seq(Snap)
  /\ Sound(layout, nextPhys, wires)
  /\ \A i \in DOMAIN saved : Sound(saved[i].layout, saved[i].nextPhys, saved[i].wires)
  /\ pc = "then" => Len(saved) = 1
  /\ pc \in {"arms", "else"} =>
       Len(saved) = 2 /\ OutsidersPlaced(saved[2].layout, operands, saved[1].wires)
  /\ pc \in {"then", "arms", "else"} => OutsidersPlaced(layout, operands, saved[1].wires)

--------------------------------------------------------------------------------

\* The slots given to new qubits are free, distinct and on the device (assign).
LEMMA NewSlotsFresh ==
  ASSUME TypeOK, NEW S \in SUBSET Qubits, Fits(S)
  PROVE  LET new == NewSlots(S)
         IN /\ DOMAIN new = {q \in S : layout.map[q] = None}
            /\ nextPhys + Cardinality(DOMAIN new) \in 0 .. NumSlots
            /\ Cardinality(DOMAIN new) \in Nat
            /\ \A q \in DOMAIN new :
                 new[q] \in Slots /\ nextPhys <= new[q] /\ new[q] < nextPhys + Cardinality(DOMAIN new)
            /\ \A q, r \in DOMAIN new : q # r => new[q] # new[r]
<1>. DEFINE D == {q \in S : layout.map[q] = None}
            below(q) == {r \in D : r < q}
<1>1. IsFiniteSet(D) /\ Cardinality(D) \in Nat
  <2>1. IsFiniteSet(Qubits)
    BY RoutingAssumption, FS_Interval DEF Qubits
  <2>2. D \in SUBSET Qubits
    OBVIOUS
  <2>. QED
    BY <2>1, <2>2, FS_Subset, FS_CardinalityType
<1>2. ASSUME NEW q \in D
      PROVE  /\ below(q) \in SUBSET D /\ IsFiniteSet(below(q))
             /\ Cardinality(below(q)) \in Nat /\ Cardinality(below(q)) < Cardinality(D)
  <2>1. below(q) \in SUBSET D
    OBVIOUS
  <2>2. IsFiniteSet(below(q)) /\ Cardinality(below(q)) <= Cardinality(D)
    BY <1>1, <2>1, FS_Subset
  <2>3. Cardinality(below(q)) \in Nat
    BY <2>2, FS_CardinalityType
  <2>4. q \notin below(q)
    BY RoutingAssumption DEF Qubits
  <2>5. Cardinality(below(q)) # Cardinality(D)
    BY <1>1, <2>1, <2>4, FS_Subset
  <2>. QED
    BY <1>1, <2>1, <2>2, <2>3, <2>5
<1>3. ASSUME NEW q \in D, NEW r \in D, q < r
      PROVE  Cardinality(below(q)) < Cardinality(below(r))
  <2>. \A d \in D : d \in Int
    BY RoutingAssumption DEF Qubits
  <2>1. below(q) \in SUBSET below(r) /\ q \in below(r) /\ q \notin below(q)
    <3>1. ASSUME NEW d \in below(q)
          PROVE  d \in below(r)
      BY <1>3
    <3>2. q \in below(r) /\ q \notin below(q)
      BY <1>3
    <3>. QED
      BY <3>1, <3>2
  <2>2. IsFiniteSet(below(r)) /\ Cardinality(below(r)) \in Nat /\ Cardinality(below(q)) \in Nat
    BY <1>2
  <2>3. Cardinality(below(q)) <= Cardinality(below(r)) /\ Cardinality(below(q)) # Cardinality(below(r))
    BY <2>1, <2>2, FS_Subset
  <2>. QED
    BY <2>2, <2>3
<1>4. NewSlots(S) = [q \in D |-> nextPhys + Cardinality(below(q))]
  BY DEF NewSlots
<1>5. nextPhys \in Nat /\ nextPhys + Cardinality(D) <= NumSlots /\ NumSlots \in Nat
  BY RoutingAssumption DEF TypeOK, Fits
<1>6. ASSUME NEW q \in D
      PROVE  /\ NewSlots(S)[q] = nextPhys + Cardinality(below(q))
             /\ NewSlots(S)[q] \in Slots /\ nextPhys <= NewSlots(S)[q]
             /\ NewSlots(S)[q] < nextPhys + Cardinality(D)
  <2>1. NewSlots(S)[q] = nextPhys + Cardinality(below(q))
    BY <1>4
  <2>2. Cardinality(below(q)) \in Nat /\ Cardinality(below(q)) < Cardinality(D)
    BY <1>2
  <2>. QED
    BY <1>1, <1>5, <2>1, <2>2 DEF Slots
<1>7. ASSUME NEW q \in D, NEW r \in D, q # r
      PROVE  NewSlots(S)[q] # NewSlots(S)[r]
  <2>. q \in Int /\ r \in Int
    BY RoutingAssumption DEF Qubits
  <2>1. q < r \/ r < q
    BY <1>7
  <2>2. Cardinality(below(q)) # Cardinality(below(r))
    <3>1. Cardinality(below(q)) \in Nat /\ Cardinality(below(r)) \in Nat
      BY <1>2
    <3>. QED
      BY <2>1, <3>1, <1>3
  <2>3. Cardinality(below(q)) \in Nat /\ Cardinality(below(r)) \in Nat
    BY <1>2
  <2>4. /\ NewSlots(S)[q] = nextPhys + Cardinality(below(q))
        /\ NewSlots(S)[r] = nextPhys + Cardinality(below(r))
    BY <1>6
  <2>. HIDE DEF below
  <2>. QED
    BY <1>5, <2>2, <2>3, <2>4
<1>8. DOMAIN NewSlots(S) = D
  BY <1>4
<1>9. nextPhys + Cardinality(D) \in 0 .. NumSlots
  BY <1>1, <1>5
<1>. HIDE DEF below, D
<1>10. /\ DOMAIN NewSlots(S) = D
       /\ nextPhys + Cardinality(DOMAIN NewSlots(S)) \in 0 .. NumSlots
       /\ Cardinality(DOMAIN NewSlots(S)) \in Nat
       /\ \A q \in DOMAIN NewSlots(S) :
            /\ NewSlots(S)[q] \in Slots /\ nextPhys <= NewSlots(S)[q]
            /\ NewSlots(S)[q] < nextPhys + Cardinality(DOMAIN NewSlots(S))
       /\ \A q, r \in DOMAIN NewSlots(S) : q # r => NewSlots(S)[q] # NewSlots(S)[r]
  BY <1>1, <1>6, <1>7, <1>8, <1>9
<1>. QED
  BY <1>10 DEF D

--------------------------------------------------------------------------------

\* Placing new qubits on those slots keeps the layout, the values and what is known
\* of them (assign; the value a qubit was read from is now in its slot).
LEMMA PlaceKeeps ==
  ASSUME TypeOK, Sound(layout, nextPhys, wires), NEW S \in SUBSET Qubits, Fits(S),
         Place(NewSlots(S))
  PROVE  /\ layout' \in Layout /\ nextPhys' \in 0 .. NumSlots
         /\ content' \in [Slots -> Qubits \cup {None}]
         /\ PlacedWires(NewSlots(S)) \in [Qubits -> Wire]
         /\ Sound(layout', nextPhys', PlacedWires(NewSlots(S)))
         /\ \A q \in Qubits \ S : layout'.map[q] = layout.map[q]
<1>. DEFINE new == NewSlots(S)
            D == DOMAIN new
<1>1. /\ D = {q \in S : layout.map[q] = None}
      /\ nextPhys + Cardinality(D) \in 0 .. NumSlots /\ Cardinality(D) \in Nat
      /\ \A q \in D : new[q] \in Slots /\ nextPhys <= new[q] /\ new[q] < nextPhys + Cardinality(D)
      /\ \A q, r \in D : q # r => new[q] # new[r]
  BY NewSlotsFresh
<1>. HIDE DEF new
<1>2. layout \in Layout /\ nextPhys \in Nat /\ None \notin Slots /\ None \notin Qubits
  BY RoutingAssumption DEF TypeOK
<1>3. /\ layout' = [map |-> [q \in Qubits |-> IF q \in D THEN new[q] ELSE layout.map[q]],
                    inv |-> [s \in Slots |-> Taken(new, s, layout.inv[s])]]
      /\ nextPhys' = nextPhys + Cardinality(D)
      /\ content' = [s \in Slots |-> Taken(new, s, content[s])]
  BY DEF Place, new
<1>4. ASSUME NEW s, NEW old
      PROVE  /\ \A q \in D : new[q] = s => Taken(new, s, old) = q
             /\ (\A q \in D : new[q] # s) => Taken(new, s, old) = old
             /\ Taken(new, s, old) = old \/ Taken(new, s, old) \in D
  BY <1>1 DEF Taken
<1>5. layout' \in Layout /\ content' \in [Slots -> Qubits \cup {None}]
  <2>1. D \subseteq Qubits
    BY <1>1
  <2>2. content \in [Slots -> Qubits \cup {None}]
    BY DEF TypeOK
  <2>3. \A s \in Slots : /\ Taken(new, s, layout.inv[s]) \in Qubits \cup {None}
                         /\ Taken(new, s, content[s]) \in Qubits \cup {None}
    BY <1>2, <1>4, <2>1, <2>2 DEF Layout
  <2>4. \A q \in Qubits : (IF q \in D THEN new[q] ELSE layout.map[q]) \in Slots \cup {None}
    BY <1>1, <1>2 DEF Layout
  <2>. QED
    BY <1>3, <2>3, <2>4 DEF Layout
<1>6. nextPhys' \in 0 .. NumSlots
  BY <1>1, <1>3
<1>7. PlacedWires(new) \in [Qubits -> Wire]
  BY <1>1 DEF PlacedWires, TypeOK, Wire
<1>8. \A q \in Qubits : layout'.map[q] = IF q \in D THEN new[q] ELSE layout.map[q]
  BY <1>3
<1>9. Bijective(layout')
  <2>. SUFFICES ASSUME NEW q \in Qubits, NEW s \in Slots
                PROVE  layout'.map[q] = s <=> layout'.inv[s] = q
    BY DEF Bijective
  <2>1. layout'.inv[s] = Taken(new, s, layout.inv[s])
    BY <1>3
  <2>2. layout.map[q] = s <=> layout.inv[s] = q
    BY DEF Sound, Bijective
  <2>3. CASE q \in D
    <3>1. layout.inv[s] # q
      BY <1>1, <1>2, <2>2, <2>3
    <3>2. CASE new[q] = s
      BY <1>4, <1>8, <2>1, <2>3, <3>2
    <3>3. CASE new[q] # s
      BY <1>4, <1>8, <2>1, <2>3, <3>1, <3>3
    <3>. QED
      BY <3>2, <3>3
  <2>4. CASE q \notin D
    <3>1. CASE \E r \in D : new[r] = s
      <4>1. PICK r \in D : new[r] = s
        BY <3>1
      <4>2. layout'.inv[s] = r
        BY <1>4, <2>1, <4>1
      <4>3. layout.map[q] # s
        <5>1. nextPhys <= s
          BY <1>1, <4>1
        <5>2. layout.map[q] # None => layout.map[q] < nextPhys
          BY DEF Sound
        <5>. QED
          BY <1>2, <5>1, <5>2 DEF Slots
      <4>. QED
        BY <1>8, <2>4, <4>1, <4>2, <4>3
    <3>2. CASE \A r \in D : new[r] # s
      BY <1>4, <1>8, <2>1, <2>2, <2>4, <3>2
    <3>. QED
      BY <3>1, <3>2
  <2>. QED
    BY <2>3, <2>4
<1>10. ASSUME NEW q \in Qubits, layout'.map[q] # None
       PROVE  layout'.map[q] < nextPhys' /\ PlacedWires(new)[q].slot # None
  <2>1. CASE q \in D
    <3>1. PlacedWires(new)[q].slot = new[q]
      BY <2>1 DEF PlacedWires, TypeOK, Wire
    <3>. QED
      BY <1>1, <1>2, <1>3, <1>8, <2>1, <3>1
  <2>2. CASE q \notin D
    <3>1. PlacedWires(new)[q] = wires[q]
      BY <2>2 DEF PlacedWires
    <3>2. layout.map[q] < nextPhys /\ wires[q].slot # None
      BY <1>8, <1>10, <2>2 DEF Sound
    <3>3. layout.map[q] \in Int
      BY <1>2, <1>8, <1>10, <2>2, RoutingAssumption DEF Layout, Slots
    <3>. QED
      BY <1>1, <1>2, <1>3, <1>8, <2>2, <3>1, <3>2, <3>3
  <2>. QED
    BY <2>1, <2>2
<1>11. \A q \in Qubits \ S : layout'.map[q] = layout.map[q]
  BY <1>1, <1>8
<1>. QED
  BY <1>5, <1>6, <1>7, <1>9, <1>10, <1>11 DEF Sound, new

--------------------------------------------------------------------------------

\* Consuming values changes slots only where it is told to (resync of operands).
LEMMA ConsumedSlots ==
  ASSUME wires \in [Qubits -> Wire], NEW S \in SUBSET Qubits, NEW slot, NEW inner \in BOOLEAN,
         \A q \in S : slot[q] \in Slots \cup {None}
  PROVE  /\ Consumed(S, slot, inner) \in [Qubits -> Wire]
         /\ \A q \in S : Consumed(S, slot, inner)[q].slot = slot[q]
         /\ \A q \in Qubits \ S : Consumed(S, slot, inner)[q].slot = wires[q].slot
<1>. DEFINE other(q) == IF wires[q].slot # None /\ \E r \in S : wires[r].slot = wires[q].slot
                        THEN [wires[q] EXCEPT !.live = FALSE] ELSE wires[q]
<1>1. ASSUME NEW q \in Qubits
      PROVE  other(q) \in Wire /\ other(q).slot = wires[q].slot
  <2>1. wires[q] \in Wire
    OBVIOUS
  <2>2. [wires[q] EXCEPT !.live = FALSE] \in Wire
        /\ [wires[q] EXCEPT !.live = FALSE].slot = wires[q].slot
    BY <2>1 DEF Wire
  <2>. QED
    BY <2>1, <2>2
<1>2. ASSUME NEW q \in S
      PROVE  [slot |-> slot[q], live |-> TRUE, inner |-> inner] \in Wire
  BY <1>2 DEF Wire
<1>3. Consumed(S, slot, inner) =
        [q \in Qubits |-> IF q \in S THEN [slot |-> slot[q], live |-> TRUE, inner |-> inner]
                         ELSE other(q)]
  BY DEF Consumed
<1>. HIDE DEF other
<1>. QED
  BY <1>1, <1>2, <1>3, SMTT(30)

\* A gate, routed or not, leaves each qubit's slot as it was.
LEMMA ConsumedInPlace ==
  ASSUME wires \in [Qubits -> Wire], NEW S \in SUBSET Qubits
  PROVE  /\ Consumed(S, SlotOfWire, Inside) \in [Qubits -> Wire]
         /\ \A q \in Qubits : Consumed(S, SlotOfWire, Inside)[q].slot = wires[q].slot
<1>1. \A q \in Qubits : SlotOfWire[q] = wires[q].slot /\ SlotOfWire[q] \in Slots \cup {None}
  BY DEF SlotOfWire, Wire
<1>2. Inside \in BOOLEAN
  BY DEF Inside
<1>3. \A q \in S : SlotOfWire[q] \in Slots \cup {None}
  BY <1>1
<1>4. /\ Consumed(S, SlotOfWire, Inside) \in [Qubits -> Wire]
      /\ \A q \in S : Consumed(S, SlotOfWire, Inside)[q].slot = SlotOfWire[q]
      /\ \A q \in Qubits \ S : Consumed(S, SlotOfWire, Inside)[q].slot = wires[q].slot
  BY <1>2, <1>3, ConsumedSlots
<1>. QED
  BY <1>1, <1>4

\* Exchanging two occupied slots keeps the layout (swap_phys).
LEMMA SwapKeeps ==
  ASSUME NEW l \in Layout, Bijective(l), NEW u \in Slots, NEW v \in Slots, u # v,
         l.inv[u] # None, l.inv[v] # None
  PROVE  /\ SwapPhys(l, u, v) \in Layout /\ Bijective(SwapPhys(l, u, v))
         /\ l.inv[u] \in Qubits /\ l.inv[v] \in Qubits /\ l.inv[u] # l.inv[v]
         /\ l.map[l.inv[u]] = u /\ l.map[l.inv[v]] = v
         /\ \A q \in Qubits : SwapPhys(l, u, v).map[q] =
              IF q = l.inv[u] THEN v ELSE IF q = l.inv[v] THEN u ELSE l.map[q]
<1>. DEFINE m == SwapPhys(l, u, v)
<1>1. /\ l.inv[u] \in Qubits /\ l.inv[v] \in Qubits
      /\ l.map[l.inv[u]] = u /\ l.map[l.inv[v]] = v /\ l.inv[u] # l.inv[v]
  BY DEF Layout, Bijective
<1>2. \A q \in Qubits : m.map[q] = IF q = l.inv[u] THEN v ELSE IF q = l.inv[v] THEN u ELSE l.map[q]
  BY <1>1 DEF SwapPhys
<1>3. m.inv = [l.inv EXCEPT ![u] = l.inv[v], ![v] = l.inv[u]]
  BY DEF SwapPhys
<1>4. \A s \in Slots : m.inv[s] = IF s = v THEN l.inv[u] ELSE IF s = u THEN l.inv[v] ELSE l.inv[s]
  BY <1>3 DEF Layout
<1>5. m \in Layout
  <2>1. m = [map |-> m.map, inv |-> m.inv]
    BY DEF SwapPhys
  <2>2. m.map \in [Qubits -> Slots \cup {None}]
    <3>1. m.map = [q \in Qubits |-> m.map[q]]
      BY DEF SwapPhys
    <3>2. \A q \in Qubits : m.map[q] \in Slots \cup {None}
      BY <1>2 DEF Layout
    <3>. QED
      BY <3>1, <3>2
  <2>3. m.inv \in [Slots -> Qubits \cup {None}]
    BY <1>3 DEF Layout
  <2>. QED
    BY <2>1, <2>2, <2>3 DEF Layout
<1>6. Bijective(m)
  <2>. SUFFICES ASSUME NEW q \in Qubits, NEW s \in Slots
                PROVE  m.map[q] = s <=> m.inv[s] = q
    BY DEF Bijective
  <2>1. l.map[q] = s <=> l.inv[s] = q
    BY DEF Bijective
  <2>. HIDE DEF m
  <2>. QED
    BY <1>1, <1>2, <1>4, <2>1
<1>. QED
  BY <1>1, <1>2, <1>5, <1>6

--------------------------------------------------------------------------------

\* What a step inside a block has to show: nothing saved changes, and it places no
\* qubit the arm did not get.
LEMMA BlockStep ==
  ASSUME IInv, UNCHANGED <<saved, operands, pc>>,
         layout' \in Layout, nextPhys' \in 0 .. NumSlots, diverged' \in BOOLEAN,
         wires' \in [Qubits -> Wire], content' \in [Slots -> Qubits \cup {None}],
         gate' \in {None} \cup (Qubits \X Qubits), ops' \in 0 .. MaxOps,
         Sound(layout', nextPhys', wires'),
         pc \in {"then", "arms", "else"} =>
           \A q \in Qubits \ operands : layout'.map[q] # None => layout.map[q] # None
  PROVE  IInv'
<1>1. TypeOK' /\ saved' \in Seq(Snap)
  BY DEF IInv, TypeOK
<1>2. \A i \in DOMAIN saved' : Sound(saved'[i].layout, saved'[i].nextPhys, saved'[i].wires)
  BY DEF IInv
<1>3. /\ pc' = "then" => Len(saved') = 1
      /\ pc' \in {"arms", "else"} =>
           Len(saved') = 2 /\ OutsidersPlaced(saved'[2].layout, operands', saved'[1].wires)
      /\ pc' \in {"then", "arms", "else"} =>
           OutsidersPlaced(layout', operands', saved'[1].wires)
  BY DEF IInv, OutsidersPlaced
<1>. QED
  BY <1>1, <1>2, <1>3 DEF IInv

\* Only the slots of the wires matter to Sound.
LEMMA SoundWires ==
  ASSUME NEW l, NEW n, NEW w, NEW x, Sound(l, n, w),
         \A q \in Qubits : w[q].slot # None => x[q].slot # None
  PROVE  Sound(l, n, x)
BY DEF Sound

\* Where operations are walked, what they may name are qubits; in an arm, the branch's operands.
LEMMA FitsVisible ==
  ASSUME IInv, MoreOps
  PROVE  Visible \in SUBSET Qubits /\ (pc \in {"then", "arms", "else"} => Visible = operands)
BY DEF IInv, TypeOK, MoreOps, Visible, Inside

\* One lemma an action: a one-qubit gate keeps the invariant, also when it places its qubit.
LEMMA LocalGateKeeps ==
  ASSUME IInv, NEW q \in Qubits, LocalGate(q)
  PROVE  IInv'
<1>1. /\ TypeOK /\ MoreOps /\ q \in Visible /\ ops' \in 0 .. MaxOps
      /\ UNCHANGED <<diverged, pc, operands, gate, saved>>
      /\ Sound(layout, nextPhys, wires)
  BY RoutingAssumption DEF IInv, TypeOK, LocalGate, MoreOps
<1>2. CASE diverged
  <2>1. wires' = Consumed({q}, SlotOfWire, Inside) /\ UNCHANGED <<layout, nextPhys, content>>
    BY <1>2 DEF LocalGate
  <2>2. wires' \in [Qubits -> Wire] /\ \A r \in Qubits : wires'[r].slot = wires[r].slot
    <3>1. wires \in [Qubits -> Wire] /\ {q} \in SUBSET Qubits
      BY <1>1 DEF TypeOK
    <3>. QED
      BY <2>1, <3>1, ConsumedInPlace
  <2>3. Sound(layout', nextPhys', wires')
    BY <1>1, <2>1, <2>2, SoundWires
  <2>. QED
    BY <1>1, <2>1, <2>2, <2>3, BlockStep DEF TypeOK
<1>3. CASE ~diverged
  <2>. DEFINE placed == PlacedWires(NewSlots({q}))
  <2>1. /\ {q} \in SUBSET Qubits /\ Fits({q}) /\ Place(NewSlots({q}))
        /\ wires' = [placed EXCEPT ![q].live = TRUE, ![q].inner = Inside]
    BY <1>3 DEF LocalGate
  <2>2. /\ layout' \in Layout /\ nextPhys' \in 0 .. NumSlots
        /\ content' \in [Slots -> Qubits \cup {None}] /\ placed \in [Qubits -> Wire]
        /\ Sound(layout', nextPhys', placed)
        /\ \A r \in Qubits \ {q} : layout'.map[r] = layout.map[r]
    BY <1>1, <2>1, PlaceKeeps
  <2>. HIDE DEF placed
  <2>3. wires' \in [Qubits -> Wire] /\ \A r \in Qubits : wires'[r].slot = placed[r].slot
    <3>1. Inside \in BOOLEAN
      BY DEF Inside
    <3>. QED
      BY <2>1, <2>2, <3>1 DEF Wire
  <2>4. Sound(layout', nextPhys', wires')
    BY <2>2, <2>3, SoundWires
  <2>5. pc \in {"then", "arms", "else"} =>
          \A r \in Qubits \ operands : layout'.map[r] # None => layout.map[r] # None
    BY <1>1, <2>2, FitsVisible
  <2>. QED
    BY <1>1, <2>2, <2>3, <2>4, <2>5, BlockStep DEF TypeOK
<1>. QED
  BY <1>2, <1>3

\* A two-qubit gate that places its qubits keeps the invariant: the new slots are distinct and unseen.
LEMMA StartGateKeeps ==
  ASSUME IInv, NEW a \in Qubits, NEW b \in Qubits, StartGate(a, b)
  PROVE  IInv'
<1>. DEFINE S == {a, b}
<1>1. /\ TypeOK /\ MoreOps /\ S \subseteq Visible /\ ops' \in 0 .. MaxOps
      /\ UNCHANGED <<diverged, pc, operands, saved>>
      /\ Sound(layout, nextPhys, wires)
      /\ S \in SUBSET Qubits /\ Fits(S) /\ Place(NewSlots(S))
      /\ wires' = PlacedWires(NewSlots(S)) /\ gate' \in Qubits \X Qubits
  BY RoutingAssumption DEF IInv, TypeOK, StartGate, MoreOps
<1>2. /\ layout' \in Layout /\ nextPhys' \in 0 .. NumSlots
      /\ content' \in [Slots -> Qubits \cup {None}] /\ wires' \in [Qubits -> Wire]
      /\ Sound(layout', nextPhys', wires')
      /\ \A r \in Qubits \ S : layout'.map[r] = layout.map[r]
  BY <1>1, PlaceKeeps
<1>3. pc \in {"then", "arms", "else"} =>
        \A r \in Qubits \ operands : layout'.map[r] # None => layout.map[r] # None
  BY <1>1, <1>2, FitsVisible
<1>. QED
  BY <1>1, <1>2, <1>3, BlockStep DEF TypeOK

\* FinishGate and UnroutedGate: values are consumed, nothing moves.
LEMMA GateInPlaceKeeps ==
  ASSUME IInv, NEW S \in SUBSET Qubits, wires' = Consumed(S, SlotOfWire, Inside),
         UNCHANGED <<layout, nextPhys, diverged, content, saved, operands, pc>>,
         gate' \in {None} \cup (Qubits \X Qubits), ops' \in 0 .. MaxOps
  PROVE  IInv'
<1>1. TypeOK /\ wires \in [Qubits -> Wire] /\ Sound(layout, nextPhys, wires)
  BY DEF IInv, TypeOK
<1>2. wires' \in [Qubits -> Wire] /\ \A r \in Qubits : wires'[r].slot = wires[r].slot
  BY <1>1, ConsumedInPlace
<1>3. Sound(layout', nextPhys', wires')
  BY <1>1, <1>2, SoundWires
<1>. QED
  BY <1>1, <1>2, <1>3, BlockStep DEF TypeOK

\* A SWAP keeps the invariant: both slots were occupied, so it permutes the layout.
LEMMA SwapStepKeeps ==
  ASSUME IInv, SwapStep
  PROVE  IInv'
<1>1. /\ TypeOK /\ Sound(layout, nextPhys, wires) /\ Bijective(layout)
      /\ UNCHANGED <<nextPhys, diverged, gate, pc, operands, saved, ops>>
  BY DEF IInv, Sound, SwapStep, unsaved
<1>2. PICK e \in BestSwaps(layout, Ends[1], Ends[2]) :
        LET lu == layout.inv[e[1]]
            lv == layout.inv[e[2]]
            su == wires[lu].slot
            sv == wires[lv].slot
        IN /\ layout' = SwapPhys(layout, e[1], e[2])
           /\ content' = [content EXCEPT ![su] = content[sv], ![sv] = content[su]]
           /\ wires' = Consumed({lu, lv}, SwapOutputs(lu, su, sv), Inside)
  BY DEF SwapStep
<1>. DEFINE lu == layout.inv[e[1]]
            lv == layout.inv[e[2]]
            su == wires[lu].slot
            sv == wires[lv].slot
<1>3. /\ e[1] \in Slots /\ e[2] \in Slots /\ e[1] # e[2]
      /\ layout.inv[e[1]] # None /\ layout.inv[e[2]] # None
  BY <1>2, RoutingAssumption DEF BestSwaps, CandidateSwaps
<1>4. /\ SwapPhys(layout, e[1], e[2]) \in Layout /\ Bijective(SwapPhys(layout, e[1], e[2]))
      /\ lu \in Qubits /\ lv \in Qubits /\ lu # lv
      /\ layout.map[lu] = e[1] /\ layout.map[lv] = e[2]
      /\ \A q \in Qubits : SwapPhys(layout, e[1], e[2]).map[q] =
           IF q = lu THEN e[2] ELSE IF q = lv THEN e[1] ELSE layout.map[q]
  <2>1. layout \in Layout
    BY <1>1 DEF TypeOK
  <2>. QED
    BY <1>1, <1>3, <2>1, SwapKeeps
<1>5. layout' \in Layout /\ Bijective(layout')
      /\ \A q \in Qubits : layout'.map[q] =
           IF q = lu THEN e[2] ELSE IF q = lv THEN e[1] ELSE layout.map[q]
  BY <1>2, <1>4
<1>6. None \notin Slots
  BY RoutingAssumption
<1>7. su \in Slots /\ sv \in Slots /\ e[1] < nextPhys /\ e[2] < nextPhys
  <2>1. su # None /\ sv # None /\ e[1] < nextPhys /\ e[2] < nextPhys
    BY <1>1, <1>3, <1>4, <1>6 DEF Sound
  <2>2. wires[lu] \in Wire /\ wires[lv] \in Wire
    BY <1>1, <1>4 DEF TypeOK
  <2>. QED
    BY <2>1, <2>2 DEF Wire
<1>. HIDE DEF lu, lv, su, sv
<1>8. content' \in [Slots -> Qubits \cup {None}]
  <2>1. content' = [content EXCEPT ![su] = content[sv], ![sv] = content[su]]
    BY <1>2 DEF lu, lv, su, sv
  <2>. QED
    BY <1>1, <1>7, <2>1 DEF TypeOK
<1>9. /\ wires' \in [Qubits -> Wire]
      /\ \A q \in Qubits : wires'[q].slot = IF q = lu THEN sv ELSE IF q = lv THEN su
                                            ELSE wires[q].slot
  <2>. DEFINE given == SwapOutputs(lu, su, sv)
              S == {lu, lv}
  <2>1. wires' = Consumed(S, given, Inside)
    BY <1>2 DEF lu, lv, su, sv
  <2>2. given[lu] = sv /\ given[lv] = su
    BY <1>4 DEF SwapOutputs
  <2>3. S \in SUBSET Qubits /\ \A q \in S : given[q] \in Slots \cup {None}
    BY <1>4, <1>7, <2>2
  <2>4. wires \in [Qubits -> Wire] /\ Inside \in BOOLEAN
    BY <1>1 DEF TypeOK, Inside
  <2>. HIDE DEF given
  <2>5. /\ Consumed(S, given, Inside) \in [Qubits -> Wire]
        /\ \A q \in S : Consumed(S, given, Inside)[q].slot = given[q]
        /\ \A q \in Qubits \ S : Consumed(S, given, Inside)[q].slot = wires[q].slot
    BY <2>3, <2>4, ConsumedSlots
  <2>. QED
    BY <1>4, <2>1, <2>2, <2>5
<1>10. Sound(layout', nextPhys', wires')
  <2>. SUFFICES ASSUME NEW q \in Qubits, layout'.map[q] # None
                PROVE  layout'.map[q] < nextPhys' /\ wires'[q].slot # None
    BY <1>5 DEF Sound
  <2>1. layout.map[q] # None
    BY <1>3, <1>4, <1>5, <1>6
  <2>2. layout.map[q] < nextPhys /\ wires[q].slot # None
    BY <1>1, <2>1 DEF Sound
  <2>. QED
    BY <1>1, <1>5, <1>6, <1>7, <1>9, <2>2
<1>11. \A q \in Qubits : layout'.map[q] # None => layout.map[q] # None
  BY <1>3, <1>4, <1>5, <1>6
<1>. QED
  BY <1>1, <1>5, <1>8, <1>9, <1>10, <1>11, BlockStep DEF TypeOK

--------------------------------------------------------------------------------

\* Going into a region or an arm places its operands (recurse_region).
LEMMA EnterKeeps ==
  ASSUME TypeOK, Sound(layout, nextPhys, wires), NEW S \in SUBSET Qubits, Enter(S)
  PROVE  /\ layout' \in Layout /\ nextPhys' \in 0 .. NumSlots
         /\ content' \in [Slots -> Qubits \cup {None}] /\ wires' \in [Qubits -> Wire]
         /\ Sound(layout', nextPhys', wires') /\ operands' = S
         /\ \A q \in Qubits \ S : layout'.map[q] = layout.map[q]
<1>1. CASE diverged
  <2>1. /\ UNCHANGED <<layout, nextPhys, content>> /\ operands' = S
        /\ wires' = [q \in Qubits |-> IF q \in S THEN EnteredWire(wires[q]) ELSE wires[q]]
    BY <1>1 DEF Enter
  <2>2. wires' \in [Qubits -> Wire] /\ \A q \in Qubits : wires'[q].slot = wires[q].slot
    BY <2>1 DEF TypeOK, Wire, EnteredWire
  <2>3. Sound(layout', nextPhys', wires')
    BY <2>1, <2>2, SoundWires
  <2>. QED
    BY <2>1, <2>2, <2>3 DEF TypeOK
<1>2. CASE ~diverged
  <2>. DEFINE placed == PlacedWires(NewSlots(S))
  <2>1. /\ Fits(S) /\ Place(NewSlots(S)) /\ operands' = S
        /\ wires' = [q \in Qubits |-> IF q \in S THEN EnteredWire(placed[q]) ELSE wires[q]]
    BY <1>2 DEF Enter
  <2>2. /\ layout' \in Layout /\ nextPhys' \in 0 .. NumSlots
        /\ content' \in [Slots -> Qubits \cup {None}] /\ placed \in [Qubits -> Wire]
        /\ Sound(layout', nextPhys', placed)
        /\ \A q \in Qubits \ S : layout'.map[q] = layout.map[q]
    BY <2>1, PlaceKeeps
  <2>3. \A q \in Qubits \ S : placed[q] = wires[q]
    BY DEF PlacedWires, NewSlots
  <2>. HIDE DEF placed
  <2>4. wires' \in [Qubits -> Wire] /\ \A q \in Qubits : wires'[q].slot = placed[q].slot
    <3>1. ASSUME NEW q \in Qubits
          PROVE  wires'[q] \in Wire /\ wires'[q].slot = placed[q].slot
      <4>1. placed[q] \in Wire
        BY <2>2
      <4>2. CASE q \in S
        BY <2>1, <4>1, <4>2 DEF Wire, EnteredWire
      <4>3. CASE q \notin S
        BY <2>1, <2>3, <4>1, <4>3
      <4>. QED
        BY <4>2, <4>3
    <3>2. wires' = [q \in Qubits |-> wires'[q]]
      BY <2>1
    <3>. QED
      BY <3>1, <3>2
  <2>5. Sound(layout', nextPhys', wires')
    BY <2>2, <2>4, SoundWires
  <2>. QED
    BY <2>1, <2>2, <2>4, <2>5
<1>. QED
  BY <1>1, <1>2

\* What a branch saves is a sound state.
LEMMA SnapshotSound ==
  ASSUME IInv
  PROVE  Snapshot \in Snap /\ Sound(Snapshot.layout, Snapshot.nextPhys, Snapshot.wires)
BY DEF IInv, TypeOK, Snap, Snapshot

\* Entering a region keeps the invariant.
LEMMA EnterRegionKeeps ==
  ASSUME IInv, NEW S \in SUBSET Qubits, EnterRegion(S)
  PROVE  IInv'
<1>1. /\ TypeOK /\ Sound(layout, nextPhys, wires) /\ Enter(S) /\ ops' \in 0 .. MaxOps
      /\ pc' = "region" /\ UNCHANGED <<diverged, gate, saved>>
  BY RoutingAssumption DEF IInv, TypeOK, EnterRegion, MoreOps
<1>2. /\ layout' \in Layout /\ nextPhys' \in 0 .. NumSlots /\ operands' = S
      /\ content' \in [Slots -> Qubits \cup {None}] /\ wires' \in [Qubits -> Wire]
      /\ Sound(layout', nextPhys', wires')
  BY <1>1, EnterKeeps
<1>3. TypeOK'
  BY <1>1, <1>2 DEF TypeOK
<1>. QED
  BY <1>1, <1>2, <1>3 DEF IInv

\* Leaving a region keeps the invariant.
LEMMA LeaveRegionKeeps ==
  ASSUME IInv, LeaveRegion
  PROVE  IInv'
<1>1. /\ TypeOK /\ Sound(layout, nextPhys, wires) /\ wires' = Returned(wires, operands)
      /\ pc' = "top" /\ operands' = {}
      /\ UNCHANGED <<layout, nextPhys, diverged, gate, saved, ops, content>>
  BY DEF IInv, LeaveRegion
<1>2. wires' \in [Qubits -> Wire] /\ \A q \in Qubits : wires'[q].slot = wires[q].slot
  BY <1>1 DEF TypeOK, Wire, Returned
<1>3. Sound(layout', nextPhys', wires')
  BY <1>1, <1>2, SoundWires
<1>4. TypeOK'
  BY <1>1, <1>2 DEF TypeOK
<1>. QED
  BY <1>1, <1>3, <1>4 DEF IInv

\* Entering a branch keeps the invariant: the state it saves is the one it has.
LEMMA EnterThenKeeps ==
  ASSUME IInv, NEW S \in SUBSET Qubits, EnterThen(S)
  PROVE  IInv'
<1>1. /\ TypeOK /\ Sound(layout, nextPhys, wires) /\ Enter(S) /\ ops' \in 0 .. MaxOps
      /\ pc' = "then" /\ saved' = <<Snapshot>> /\ UNCHANGED <<diverged, gate>>
  BY RoutingAssumption DEF IInv, TypeOK, EnterThen, MoreOps
<1>2. /\ layout' \in Layout /\ nextPhys' \in 0 .. NumSlots /\ operands' = S
      /\ content' \in [Slots -> Qubits \cup {None}] /\ wires' \in [Qubits -> Wire]
      /\ Sound(layout', nextPhys', wires')
      /\ \A q \in Qubits \ S : layout'.map[q] = layout.map[q]
  BY <1>1, EnterKeeps
<1>3. Snapshot \in Snap /\ Sound(Snapshot.layout, Snapshot.nextPhys, Snapshot.wires)
  BY SnapshotSound
<1>. DEFINE z == Snapshot
<1>4. z.wires = wires
  BY DEF Snapshot
<1>. HIDE DEF z
<1>5. /\ saved' \in Seq(Snap) /\ Len(saved') = 1 /\ DOMAIN saved' = {1} /\ saved'[1] = z
  BY <1>1, <1>3 DEF z
<1>6. TypeOK'
  BY <1>1, <1>2, <1>3, <1>5 DEF TypeOK, z
<1>7. OutsidersPlaced(layout', operands', saved'[1].wires)
  BY <1>1, <1>2, <1>4, <1>5 DEF OutsidersPlaced, Sound
<1>. QED
  BY <1>1, <1>2, <1>3, <1>5, <1>6, <1>7 DEF IInv, z

\* The end of the then arm keeps the invariant: it restores a state that was saved sound.
LEMMA FinishThenKeeps ==
  ASSUME IInv, FinishThen
  PROVE  IInv'
<1>. DEFINE z == Snapshot
            b == saved[1]
<1>1. /\ TypeOK /\ saved \in Seq(Snap) /\ Len(saved) = 1 /\ DOMAIN saved = {1}
      /\ OutsidersPlaced(layout, operands, b.wires)
      /\ b \in Snap /\ Sound(b.layout, b.nextPhys, b.wires)
  <2>1. /\ TypeOK /\ saved \in Seq(Snap) /\ Len(saved) = 1
        /\ OutsidersPlaced(layout, operands, b.wires)
    BY DEF IInv, FinishThen
  <2>2. DOMAIN saved = {1}
    BY <2>1
  <2>. QED
    BY <2>1, <2>2 DEF IInv
<1>2. /\ saved' = Append(saved, z) /\ layout' = b.layout /\ nextPhys' = b.nextPhys
      /\ diverged' = b.diverged /\ wires' = b.wires /\ content' = b.content
      /\ pc' = "arms" /\ UNCHANGED <<operands, gate, ops>>
  BY DEF FinishThen
<1>3. z \in Snap /\ Sound(z.layout, z.nextPhys, z.wires) /\ z.layout = layout
  BY SnapshotSound DEF Snapshot
<1>. HIDE DEF z
<1>4. /\ saved' \in Seq(Snap) /\ Len(saved') = 2 /\ DOMAIN saved' = {1, 2}
      /\ saved'[1] = b /\ saved'[2] = z
  <2>1. saved \in Seq(Snap) /\ z \in Snap /\ saved' = Append(saved, z) /\ Len(saved) = 1
    BY <1>1, <1>2, <1>3
  <2>2. saved' \in Seq(Snap) /\ Len(saved') = 2
    <3>1. Append(saved, z) \in Seq(Snap) /\ Len(Append(saved, z)) = Len(saved) + 1
      BY <2>1, AppendProperties, Zenon
    <3>2. saved' \in Seq(Snap) /\ Len(saved') = Len(saved) + 1
      BY <2>1, <3>1, Zenon
    <3>. QED
      BY <2>1, <3>2
  <2>3. saved'[1] = b /\ saved'[2] = z
    BY <2>1, SMTT(30)
  <2>4. DOMAIN saved' = {1, 2}
    BY <2>2
  <2>. QED
    BY <2>2, <2>3, <2>4
<1>. HIDE DEF b
<1>5. TypeOK'
  BY <1>1, <1>2, <1>3, <1>4 DEF TypeOK, Snap
<1>6. OutsidersPlaced(layout', operands', b.wires)
  BY <1>1, <1>2 DEF OutsidersPlaced, Sound
<1>. QED
  BY <1>1, <1>2, <1>3, <1>4, <1>5, <1>6 DEF IInv

\* Entering the else arm keeps the invariant.
LEMMA EnterElseKeeps ==
  ASSUME IInv, EnterElse
  PROVE  IInv'
<1>1. /\ TypeOK /\ Sound(layout, nextPhys, wires) /\ operands \in SUBSET Qubits
      /\ Enter(operands) /\ pc = "arms" /\ pc' = "else"
      /\ UNCHANGED <<diverged, gate, saved, ops>>
      /\ OutsidersPlaced(layout, operands, saved[1].wires)
  BY DEF IInv, TypeOK, EnterElse
<1>2. /\ layout' \in Layout /\ nextPhys' \in 0 .. NumSlots /\ operands' = operands
      /\ content' \in [Slots -> Qubits \cup {None}] /\ wires' \in [Qubits -> Wire]
      /\ Sound(layout', nextPhys', wires')
      /\ \A q \in Qubits \ operands : layout'.map[q] = layout.map[q]
  BY <1>1, EnterKeeps
<1>3. TypeOK'
  BY <1>1, <1>2 DEF TypeOK
<1>4. OutsidersPlaced(layout', operands', saved'[1].wires)
  BY <1>1, <1>2 DEF OutsidersPlaced
<1>. QED
  BY <1>1, <1>2, <1>3, <1>4 DEF IInv

\* The end of a branch keeps the invariant, with the layout of either arm or with none.
LEMMA FinishElseKeeps ==
  ASSUME IInv, FinishElse
  PROVE  IInv'
<1>. DEFINE b == saved[1]
            t == saved[2]
            z == Snapshot
<1>1. /\ TypeOK /\ saved \in Seq(Snap) /\ Len(saved) = 2 /\ DOMAIN saved = {1, 2}
      /\ OutsidersPlaced(t.layout, operands, b.wires) /\ Sound(layout, nextPhys, wires)
      /\ b \in Snap /\ t \in Snap /\ Sound(t.layout, t.nextPhys, t.wires)
  <2>1. /\ TypeOK /\ saved \in Seq(Snap) /\ Len(saved) = 2
        /\ OutsidersPlaced(t.layout, operands, b.wires) /\ Sound(layout, nextPhys, wires)
    BY DEF IInv, FinishElse
  <2>2. DOMAIN saved = {1, 2}
    BY <2>1
  <2>3. b \in Snap /\ t \in Snap
    BY <2>1, ElementOfSeq
  <2>4. Sound(t.layout, t.nextPhys, t.wires)
    <3>1. \A i \in DOMAIN saved : Sound(saved[i].layout, saved[i].nextPhys, saved[i].wires)
      BY DEF IInv
    <3>. QED
      BY <2>2, <3>1
  <2>. QED
    BY <2>1, <2>2, <2>3, <2>4
<1>2. z \in Snap /\ z.wires = wires
  BY SnapshotSound DEF Snapshot
<1>3. /\ pc' = "top" /\ operands' = {} /\ saved' = <<>> /\ UNCHANGED <<gate, ops>>
      /\ \E arm \in {t, z} : wires' = AfterBranch(arm) /\ content' = arm.content
      /\ Agreed => /\ layout' = t.layout /\ diverged' = b.diverged
                   /\ nextPhys' = IF t.nextPhys > nextPhys THEN t.nextPhys ELSE nextPhys
      /\ ~Agreed => layout' = NoLayout /\ diverged' = TRUE /\ nextPhys' = nextPhys
  BY DEF FinishElse
<1>4. PICK arm \in {t, z} : wires' = AfterBranch(arm) /\ content' = arm.content
  BY <1>3
<1>. HIDE DEF z
<1>5. arm \in Snap /\ (arm = t \/ arm.wires = wires)
  BY <1>1, <1>2, <1>4
<1>6. /\ wires' \in [Qubits -> Wire]
      /\ \A q \in Qubits : wires'[q].slot = IF q \in operands THEN arm.wires[q].slot
                                            ELSE b.wires[q].slot
  <2>1. ASSUME NEW q \in Qubits
        PROVE  arm.wires[q] \in Wire /\ b.wires[q] \in Wire
    BY <1>1, <1>5 DEF Snap
  <2>. DEFINE other(q) == [b.wires[q] EXCEPT !.live = @ /\ arm.wires[q] = b.wires[q]]
              result(q) == [slot |-> arm.wires[q].slot, live |-> TRUE, inner |-> FALSE]
  <2>2. ASSUME NEW q \in Qubits
        PROVE  /\ other(q) \in Wire /\ other(q).slot = b.wires[q].slot
               /\ result(q) \in Wire /\ result(q).slot = arm.wires[q].slot
    BY <2>1 DEF Wire
  <2>3. wires' = [q \in Qubits |-> IF q \in operands THEN result(q) ELSE other(q)]
    BY <1>4 DEF AfterBranch
  <2>. HIDE DEF other, result
  <2>. QED
    BY <2>2, <2>3
<1>7. Sound(layout', nextPhys', wires')
  <2>1. CASE Agreed
    <3>1. t.layout.map = layout.map /\ layout' = t.layout
          /\ nextPhys' = IF t.nextPhys > nextPhys THEN t.nextPhys ELSE nextPhys
      BY <1>3, <2>1 DEF Agreed
    <3>2. Bijective(layout')
      BY <1>1, <3>1 DEF Sound
    <3>. SUFFICES ASSUME NEW q \in Qubits, t.layout.map[q] # None
                  PROVE  t.layout.map[q] < nextPhys' /\ wires'[q].slot # None
      BY <3>1, <3>2 DEF Sound
    <3>3. t.layout.map[q] < t.nextPhys /\ t.wires[q].slot # None /\ wires[q].slot # None
      BY <1>1, <3>1 DEF Sound
    <3>4. t.layout.map[q] < nextPhys'
      <4>1. t.nextPhys \in Int /\ nextPhys \in Int /\ t.layout.map[q] \in Int
        BY <1>1, RoutingAssumption DEF TypeOK, Snap, Layout, Slots
      <4>. QED
        BY <3>1, <3>3, <4>1
    <3>5. CASE q \in operands
      BY <1>5, <1>6, <3>3, <3>4, <3>5
    <3>6. CASE q \notin operands
      BY <1>1, <1>6, <3>4, <3>6 DEF OutsidersPlaced
    <3>. QED
      BY <3>5, <3>6
  <2>2. CASE ~Agreed
    <3>1. layout' = NoLayout
      BY <1>3, <2>2
    <3>2. None \notin Qubits /\ None \notin Slots
      BY RoutingAssumption
    <3>. QED
      BY <3>1, <3>2 DEF NoLayout, Sound, Bijective
  <2>. QED
    BY <2>1, <2>2
<1>8. layout' \in Layout /\ nextPhys' \in 0 .. NumSlots /\ diverged' \in BOOLEAN
  <2>1. CASE Agreed
    BY <1>1, <1>3, <2>1 DEF TypeOK, Snap
  <2>2. CASE ~Agreed
    BY <1>1, <1>3, <2>2 DEF TypeOK, NoLayout, Layout
  <2>. QED
    BY <2>1, <2>2
<1>9. content' \in [Slots -> Qubits \cup {None}]
  BY <1>4, <1>5 DEF Snap
<1>10. saved' \in Seq(Snap) /\ DOMAIN saved' = {} /\ Len(saved') = 0
  BY <1>3
<1>. HIDE DEF b, t
<1>11. TypeOK'
  BY <1>1, <1>3, <1>6, <1>8, <1>9, <1>10 DEF TypeOK
<1>. QED
  BY <1>3, <1>7, <1>10, <1>11 DEF IInv

--------------------------------------------------------------------------------

\* The invariant holds in the initial states.
LEMMA InitIInv ==
  ASSUME Init
  PROVE  IInv
<1>1. None \notin Qubits /\ None \notin Slots
  BY RoutingAssumption
<1>2. TypeOK
  <2>1. layout \in Layout /\ nextPhys \in 0 .. NumSlots /\ ops \in 0 .. MaxOps
    BY RoutingAssumption DEF Init, NoLayout, Layout
  <2>2. wires \in [Qubits -> Wire] /\ content \in [Slots -> Qubits \cup {None}]
    BY DEF Init, Wire, Fresh
  <2>3. /\ diverged \in BOOLEAN /\ pc \in {"top", "func"} /\ operands \subseteq Qubits
        /\ gate \in {None} \cup (Qubits \X Qubits)
    BY DEF Init
  <2>4. Len(saved) <= 2 /\ \A i \in DOMAIN saved : saved[i] \in Snap
    BY DEF Init
  <2>. QED
    BY <2>1, <2>2, <2>3, <2>4 DEF TypeOK
<1>3. Sound(layout, nextPhys, wires)
  BY <1>1 DEF Init, Sound, Bijective, NoLayout
<1>. QED
  BY <1>2, <1>3 DEF Init, IInv

\* Every step keeps the invariant.
LEMMA NextIInv ==
  ASSUME IInv, [Next]_vars
  PROVE  IInv'
<1>1. ASSUME NEW q \in Qubits, LocalGate(q)
      PROVE  IInv'
  BY <1>1, LocalGateKeeps
<1>2. ASSUME NEW a \in Qubits, NEW b \in Qubits, StartGate(a, b)
      PROVE  IInv'
  BY <1>2, StartGateKeeps
<1>3. ASSUME NEW a \in Qubits, NEW b \in Qubits, UnroutedGate(a, b)
      PROVE  IInv'
  <2>1. /\ {a, b} \in SUBSET Qubits /\ wires' = Consumed({a, b}, SlotOfWire, Inside)
        /\ UNCHANGED <<layout, nextPhys, diverged, content, saved, operands, pc>>
        /\ gate' \in {None} \cup (Qubits \X Qubits) /\ ops' \in 0 .. MaxOps
    BY <1>3, RoutingAssumption DEF UnroutedGate, MoreOps, IInv, TypeOK
  <2>. QED
    BY <2>1, GateInPlaceKeeps
<1>4. CASE SwapStep
  BY <1>4, SwapStepKeeps
<1>5. CASE FinishGate
  <2>1. /\ {gate[1], gate[2]} \in SUBSET Qubits
        /\ wires' = Consumed({gate[1], gate[2]}, SlotOfWire, Inside)
        /\ UNCHANGED <<layout, nextPhys, diverged, content, saved, operands, pc>>
        /\ gate' \in {None} \cup (Qubits \X Qubits) /\ ops' \in 0 .. MaxOps
    BY <1>5 DEF FinishGate, IInv, TypeOK, unsaved
  <2>. QED
    BY <2>1, GateInPlaceKeeps
<1>6. CASE NoSwap \/ DeviceTooSmall \/ Return
  <2>1. /\ pc' \in {"failed", "done"}
        /\ UNCHANGED <<layout, nextPhys, diverged, wires, operands, gate, saved, ops, content>>
    BY <1>6 DEF NoSwap, DeviceTooSmall, Return
  <2>2. TypeOK'
    BY <2>1 DEF IInv, TypeOK
  <2>. QED
    BY <2>1, <2>2 DEF IInv
<1>7. ASSUME NEW S \in RegionOperands, EnterRegion(S) \/ EnterThen(S)
      PROVE  IInv'
  <2>1. S \in SUBSET Qubits
    BY DEF RegionOperands
  <2>. QED
    BY <1>7, <2>1, EnterRegionKeeps, EnterThenKeeps
<1>8. CASE LeaveRegion \/ FinishThen \/ EnterElse \/ FinishElse
  BY <1>8, LeaveRegionKeeps, FinishThenKeeps, EnterElseKeeps, FinishElseKeeps
<1>9. CASE UNCHANGED vars
  <2>1. UNCHANGED <<layout, nextPhys, diverged, wires, pc, operands, gate, saved, ops, content>>
    BY <1>9 DEF vars
  <2>2. TypeOK'
    BY <2>1 DEF IInv, TypeOK
  <2>. QED
    BY <2>1, <2>2 DEF IInv
<1>. QED
  BY <1>1, <1>2, <1>3, <1>4, <1>5, <1>6, <1>7, <1>8, <1>9 DEF Next

\* On every device and for every program the state keeps its types: in particular no
\* qubit is given a slot the device does not have.
THEOREM TypeCorrect == Spec => []TypeOK
<1>1. IInv => TypeOK
  BY DEF IInv
<1>. QED
  BY <1>1, InitIInv, NextIInv, PTL DEF Spec

\* On every device and for every program, also across branches whose arms agree, the
\* two halves of the layout name the same pairs.
THEOREM LayoutCorrect == Spec => []LayoutIsABijection
<1>1. IInv => LayoutIsABijection
  BY DEF IInv, Sound, Bijective, LayoutIsABijection
<1>. QED
  BY <1>1, InitIInv, NextIInv, PTL DEF Spec

--------------------------------------------------------------------------------
(***************************************************************************)
(* What the router's gates act on, for every device, register and program  *)
(* whose regions take every live qubit: each operand holds its own qubit,  *)
(* the layout is what the device holds, a routed gate is on an edge, and a *)
(* full connected device refuses none.  They are one invariant: a SWAP is  *)
(* right because the values are where the layout says, and they stay there *)
(* because SWAPs act on them.                                              *)
(***************************************************************************)

Reads(w, c) == \A q \in Qubits : w[q].live /\ (w[q].slot # None => c[w[q].slot] = q)

OnDevice(l, w, c) ==
  /\ \A s \in Slots : c[s] = l.inv[s]
  /\ \A q \in Qubits : w[q].slot = l.map[q]

Known(l, w, c, d) == Reads(w, c) /\ (~d => OnDevice(l, w, c))
KnownIn(z) == Known(z.layout, z.wires, z.content, z.diverged)

OutsidersUnseen(S, w) == \A q \in Qubits \ S : w[q] = Fresh
NoneInner(w) == \A q \in Qubits : ~w[q].inner

BranchInv ==
  /\ pc \in {"top", "func", "arms"} => NoneInner(wires)
  /\ pc \in {"region", "then", "arms", "else"} => OutsidersUnseen(operands, wires)
  /\ pc \in {"then", "arms", "else"} =>
       /\ NoneInner(saved[1].wires) /\ OutsidersUnseen(operands, saved[1].wires)
       /\ KnownIn(saved[1])
  /\ pc \in {"arms", "else"} => OutsidersUnseen(operands, saved[2].wires) /\ KnownIn(saved[2])

GateInv ==
  gate # None =>
    /\ ~diverged /\ pc \in {"top", "func", "region", "then", "else", "failed"}
    /\ gate[1] # gate[2] /\ layout.map[gate[1]] # None /\ layout.map[gate[2]] # None
    /\ pc = "failed" => Apart /\ BestSwaps(layout, Ends[1], Ends[2]) = {}

DInv ==
  /\ IInv
  /\ Known(layout, wires, content, diverged)
  /\ BranchInv /\ GateInv
  /\ OperandsCarryTheirQubit /\ RoutedOnEdges

--------------------------------------------------------------------------------

\* Values that are where a bijective layout says hold their qubits.
LEMMA DeviceReads ==
  ASSUME NEW l \in Layout, Bijective(l), NEW w \in [Qubits -> Wire], NEW c,
         OnDevice(l, w, c), \A q \in Qubits : w[q].live
  PROVE  Reads(w, c)
<1>. SUFFICES ASSUME NEW q \in Qubits, w[q].slot # None
              PROVE  c[w[q].slot] = q
  BY DEF Reads
<1>1. w[q].slot = l.map[q] /\ l.map[q] \in Slots
  BY DEF OnDevice, Layout
<1>2. l.inv[l.map[q]] = q
  BY <1>1 DEF Bijective
<1>. QED
  BY <1>1, <1>2 DEF OnDevice

\* Two qubits are never read from one slot, so consuming some leaves the others live.
LEMMA OthersKept ==
  ASSUME Reads(wires, content), NEW S \in SUBSET Qubits, NEW slot, NEW inner \in BOOLEAN,
         wires \in [Qubits -> Wire]
  PROVE  /\ \A q \in Qubits \ S : Consumed(S, slot, inner)[q] = wires[q]
         /\ \A q \in S : Consumed(S, slot, inner)[q] =
              [slot |-> slot[q], live |-> TRUE, inner |-> inner]
<1>1. ASSUME NEW q \in Qubits \ S, wires[q].slot # None, NEW r \in S,
             wires[r].slot = wires[q].slot
      PROVE  FALSE
  <2>1. content[wires[q].slot] = q /\ content[wires[r].slot] = r
    BY <1>1 DEF Reads
  <2>. QED
    BY <1>1, <2>1
<1>. QED
  BY <1>1 DEF Consumed

\* Placing qubits puts their values where the layout says.
LEMMA PlaceOnDevice ==
  ASSUME TypeOK, OnDevice(layout, wires, content), NEW S \in SUBSET Qubits,
         Place(NewSlots(S)), \A q \in Qubits : wires[q].live
  PROVE  /\ OnDevice(layout', PlacedWires(NewSlots(S)), content')
         /\ \A q \in Qubits : PlacedWires(NewSlots(S))[q].live
<1>. DEFINE new == NewSlots(S)
            w == PlacedWires(new)
<1>1. /\ layout' = [map |-> [q \in Qubits |-> IF q \in DOMAIN new THEN new[q] ELSE layout.map[q]],
                    inv |-> [s \in Slots |-> Taken(new, s, layout.inv[s])]]
      /\ content' = [s \in Slots |-> Taken(new, s, content[s])]
  BY DEF Place
<1>2. w = [q \in Qubits |-> IF q \in DOMAIN new THEN [wires[q] EXCEPT !.slot = new[q]]
                            ELSE wires[q]]
  BY DEF PlacedWires
<1>. HIDE DEF new, w
<1>3. \A s \in Slots : content'[s] = layout'.inv[s]
  BY <1>1 DEF OnDevice
<1>4. ASSUME NEW q \in Qubits
      PROVE  w[q].slot = layout'.map[q] /\ w[q].live
  <2>1. wires[q] \in Wire /\ wires[q].live /\ wires[q].slot = layout.map[q]
    BY DEF TypeOK, OnDevice
  <2>2. layout'.map[q] = IF q \in DOMAIN new THEN new[q] ELSE layout.map[q]
    BY <1>1
  <2>. QED
    BY <1>2, <2>1, <2>2 DEF Wire
<1>5. OnDevice(layout', w, content') /\ \A q \in Qubits : w[q].live
  BY <1>3, <1>4 DEF OnDevice
<1>. QED
  BY <1>5 DEF w, new

\* What an operation of the walk reads for a qubit is that qubit.
LEMMA CarriedIsSelf ==
  ASSUME DInv, pc \in {"top", "func", "region", "then", "else"}, NEW q \in Qubits
  PROVE  Carried(q) = q
BY DEF DInv, Known, Reads, BranchInv, NoneInner, Carried, Inside

\* What an operation of the walk emits names the qubits it reads.
LEMMA EmittedCarries ==
  ASSUME DInv, pc \in {"top", "func", "region", "then", "else"}, NEW op, NEW routed,
         NEW D, NEW qs \in [D -> Qubits], out' = Emitted(op, qs, routed)
  PROVE  OperandsCarryTheirQubit'
<1>1. out'.carried = [i \in DOMAIN qs |-> Carried(qs[i])] /\ out'.qubits = qs
  BY DEF Emitted
<1>2. \A i \in D : Carried(qs[i]) = qs[i]
  BY CarriedIsSelf
<1>3. out'.carried = out'.qubits
  BY <1>1, <1>2
<1>. QED
  BY <1>3 DEF OperandsCarryTheirQubit

\* An operation that was not routed need not be on an edge.
LEMMA Unrouted ==
  ASSUME NEW op, NEW qs, out' = Emitted(op, qs, FALSE)
  PROVE  RoutedOnEdges'
BY DEF Emitted, RoutedOnEdges

\* The fields of a region's result and of an unseen qubit.
LEMMA ResultFields ==
  ASSUME NEW s, NEW w, w = [slot |-> s, live |-> TRUE, inner |-> FALSE]
  PROVE  w.slot = s /\ w.live /\ ~w.inner
<1>1. w.slot = s
  OBVIOUS
<1>2. w.live
  OBVIOUS
<1>3. ~w.inner
  OBVIOUS
<1>. QED
  BY <1>1, <1>2, <1>3

\* Operand lists of one and two qubits as functions.
LEMMA PairIsFunction ==
  ASSUME NEW a \in Qubits, NEW b \in Qubits
  PROVE  <<a, b>> \in [{1, 2} -> Qubits] /\ <<a>> \in [{1} -> Qubits]
OBVIOUS

\* Only the two ends of an edge are at most one hop apart.
LEMMA NearByDistance ==
  ASSUME NEW u \in Slots, NEW v \in Slots, u # v, ~(Dist(u, v) > 1)
  PROVE  Near(u, v)
<1>1. IsDistance /\ NumSlots \in Nat
  BY RoutingAssumption
<1>2. Distance[<<u, v>>] \in Nat /\ Distance[<<u, v>>] # 0 /\ Distance[<<u, v>>] <= 1
  BY <1>1 DEF IsDistance, Dist
<1>3. Distance[<<u, v>>] # Unreachable
  BY <1>1, <1>2 DEF Unreachable, Slots
<1>4. PICK w \in Slots : Near(u, w) /\ Distance[<<u, v>>] = Distance[<<w, v>>] + 1
  BY <1>1, <1>3 DEF IsDistance
<1>5. Distance[<<w, v>>] = 0
  BY <1>1, <1>2, <1>4 DEF IsDistance
<1>. QED
  BY <1>1, <1>4, <1>5 DEF IsDistance

\* On a connected device whose slots are all taken some SWAP brings the ends of a
\* gate nearer, and every best SWAP brings them nearer by one hop.
LEMMA SwapsShorten ==
  ASSUME Connected, Occupied = Slots, NEW a \in Slots, NEW b \in Slots, Dist(a, b) > 1
  PROVE  /\ BestSwaps(layout, a, b) # {}
         /\ \A e \in BestSwaps(layout, a, b) :
              Dist(Exchanged(a, e[1], e[2]), Exchanged(b, e[1], e[2])) = Dist(a, b) - 1
<1>. DEFINE after(e) == Dist(Exchanged(a, e[1], e[2]), Exchanged(b, e[1], e[2]))
            C == CandidateSwaps(layout, a, b)
<1>1. /\ NumSlots \in Nat /\ Edges \subseteq {e \in Slots \X Slots : e[1] # e[2]}
      /\ \A u, v \in Slots : Dist(u, v) \in Nat /\ Dist(u, v) # Unreachable
      /\ \A u, v \in Slots : Dist(u, v) = 0 <=> u = v
      /\ \A u, v \in Slots : Dist(u, v) = Dist(v, u)
      /\ \A u, v, w \in Slots : Near(u, w) => Dist(u, v) <= Dist(w, v) + 1
      /\ \A u, v \in Slots : u # v => \E w \in Slots : Near(u, w) /\ Dist(u, v) = Dist(w, v) + 1
  <2>1. IsDistance /\ NumSlots \in Nat /\ Edges \subseteq {e \in Slots \X Slots : e[1] # e[2]}
    BY RoutingAssumption
  <2>2. ASSUME NEW u \in Slots, NEW v \in Slots
        PROVE  Dist(u, v) \in Nat /\ Dist(u, v) # Unreachable /\ Dist(u, v) = Distance[<<u, v>>]
    <3>1. Distance \in [Slots \X Slots -> 0 .. NumSlots]
      BY <2>1 DEF IsDistance
    <3>2. Distance[<<u, v>>] \in 0 .. NumSlots
      BY <3>1
    <3>. QED
      BY <2>1, <3>2 DEF Dist, Connected
  <2>3. \A u, v \in Slots : (Dist(u, v) = 0 <=> u = v) /\ Dist(u, v) = Dist(v, u)
    <3>1. \A u, v \in Slots : Distance[<<u, v>>] = 0 <=> u = v
      BY <2>1, Zenon DEF IsDistance
    <3>2. \A u, v \in Slots : Distance[<<u, v>>] = Distance[<<v, u>>]
      BY <2>1, Zenon DEF IsDistance
    <3>. QED
      BY <3>1, <3>2, Zenon DEF Dist
  <2>4. \A u, v, w \in Slots : Near(u, w) => Dist(u, v) <= Dist(w, v) + 1
    BY <2>1, <2>2 DEF IsDistance, Dist
  <2>5. ASSUME NEW u \in Slots, NEW v \in Slots, u # v
        PROVE  \E w \in Slots : Near(u, w) /\ Dist(u, v) = Dist(w, v) + 1
    <3>1. \A x, y \in Slots : x # y /\ Distance[<<x, y>>] # Unreachable =>
            \E w \in Slots : Near(x, w) /\ Distance[<<x, y>>] = Distance[<<w, y>>] + 1
      BY <2>1, Zenon DEF IsDistance
    <3>2. Distance[<<u, v>>] # Unreachable
      BY <2>2
    <3>3. PICK w \in Slots : Near(u, w) /\ Distance[<<u, v>>] = Distance[<<w, v>>] + 1
      BY <2>5, <3>1, <3>2, Zenon
    <3>. QED
      BY <2>2, <3>3
  <2>. QED
    BY <2>1, <2>2, <2>3, <2>4, <2>5
<1>2. a # b /\ Dist(a, b) \in Nat
  BY <1>1
<1>3. ASSUME NEW e \in C
      PROVE  /\ e[1] \in Slots /\ e[2] \in Slots /\ e[1] # e[2] /\ Near(e[1], e[2]) /\ Near(e[2], e[1])
             /\ e = <<e[1], e[2]>> /\ {e[1], e[2]} \cap {a, b} # {}
  BY <1>1, <1>3 DEF CandidateSwaps, Near
<1>4. ASSUME NEW e \in C
      PROVE  after(e) \in Nat /\ after(e) >= Dist(a, b) - 1
  <2>1. CASE e[1] = a
    <3>1. e[2] # b
      BY <1>1, <1>2, <1>3, <1>4, <2>1
    <3>. QED
      BY <1>1, <1>2, <1>3, <1>4, <2>1, <3>1 DEF Exchanged
  <2>2. CASE e[2] = a
    <3>1. e[1] # b
      BY <1>1, <1>2, <1>3, <1>4, <2>2
    <3>. QED
      BY <1>1, <1>2, <1>3, <1>4, <2>2, <3>1 DEF Exchanged
  <2>3. CASE e[1] = b /\ e[2] # a
    BY <1>1, <1>2, <1>3, <1>4, <2>3 DEF Exchanged
  <2>4. CASE e[2] = b /\ e[1] # a
    BY <1>1, <1>2, <1>3, <1>4, <2>4 DEF Exchanged
  <2>. QED
    BY <1>3, <1>4, <2>1, <2>2, <2>3, <2>4
<1>5. PICK w \in Slots : Near(a, w) /\ Dist(a, b) = Dist(w, b) + 1
  BY <1>1, <1>2
<1>6. w # a /\ w # b /\ Dist(w, b) \in Nat
  BY <1>1, <1>2, <1>5
<1>7. \A s \in Slots : layout.inv[s] # None
  BY DEF Occupied
<1>8. PICK f \in Edges : f = <<a, w>> \/ f = <<w, a>>
  BY <1>5 DEF Near
<1>9. after(f) = Dist(w, b) /\ {f[1], f[2]} \cap {a, b} # {}
  <2>1. CASE f = <<a, w>>
    <3>1. f[1] = a /\ f[2] = w
      BY <2>1
    <3>. QED
      BY <1>2, <1>6, <3>1 DEF Exchanged
  <2>2. CASE f = <<w, a>>
    <3>1. f[1] = w /\ f[2] = a
      BY <2>2
    <3>. QED
      BY <1>2, <1>6, <3>1 DEF Exchanged
  <2>. QED
    BY <1>8, <2>1, <2>2
<1>10. f \in C
  BY <1>1, <1>5, <1>6, <1>7, <1>8, <1>9 DEF CandidateSwaps
<1>11. \A e \in BestSwaps(layout, a, b) : e \in C /\ after(e) <= after(f)
  BY <1>10 DEF BestSwaps
<1>12. f \in BestSwaps(layout, a, b)
  <2>. DEFINE later(e) == after(e)
  <2>1. \A e \in C : later(f) <= later(e)
    BY <1>4, <1>5, <1>6, <1>9
  <2>. QED
    BY <1>10, <2>1 DEF BestSwaps
<1>13. ASSUME NEW e \in BestSwaps(layout, a, b)
       PROVE  after(e) = Dist(a, b) - 1
  <2>1. after(e) \in Nat /\ after(e) >= Dist(a, b) - 1 /\ after(e) <= after(f)
    BY <1>4, <1>11
  <2>. QED
    BY <1>2, <1>5, <1>6, <1>9, <2>1
<1>. QED
  BY <1>12, <1>13

--------------------------------------------------------------------------------

Walking == pc \in {"top", "func", "region", "then", "else"}

WiresInBlock(w) ==
  /\ pc \in {"top", "func"} => NoneInner(w)
  /\ pc \in {"region", "then", "else"} => OutsidersUnseen(operands, w)

\* What a step inside a block has to show.
LEMMA DeviceBlockStep ==
  ASSUME DInv, Walking, IInv', UNCHANGED <<saved, operands, pc, diverged>>,
         Known(layout', wires', content', diverged), WiresInBlock(wires'),
         GateInv', OperandsCarryTheirQubit', RoutedOnEdges'
  PROVE  DInv'
<1>1. BranchInv'
  BY DEF DInv, BranchInv, Walking, WiresInBlock
<1>. QED
  BY <1>1 DEF DInv

\* What the device invariant says wherever operations are walked.
LEMMA BlockFacts ==
  ASSUME DInv, Walking
  PROVE  /\ TypeOK /\ Bijective(layout) /\ WiresInBlock(wires) /\ layout \in Layout
         /\ wires \in [Qubits -> Wire] /\ Inside \in BOOLEAN /\ (pc \in {"top", "func"} <=> ~Inside)
         /\ Reads(wires, content) /\ (~diverged => OnDevice(layout, wires, content))
         /\ \A q \in Qubits : wires[q].live
         /\ Visible \in SUBSET Qubits /\ (Inside => Visible = operands)
<1>1. TypeOK /\ Bijective(layout) /\ layout \in Layout /\ wires \in [Qubits -> Wire]
      /\ operands \in SUBSET Qubits
  BY DEF DInv, IInv, Sound, TypeOK
<1>2. Inside \in BOOLEAN /\ (pc \in {"top", "func"} <=> ~Inside)
  BY DEF Inside, Walking
<1>3. Visible \in SUBSET Qubits /\ (Inside => Visible = operands)
  BY <1>1 DEF Visible
<1>4. Reads(wires, content) /\ (~diverged => OnDevice(layout, wires, content))
  BY DEF DInv, Known
<1>5. WiresInBlock(wires)
  BY DEF DInv, BranchInv, WiresInBlock
<1>. QED
  BY <1>1, <1>2, <1>3, <1>4, <1>5 DEF Reads

\* A gate that is not routed, or that has been: its values are consumed in place.
LEMMA InPlace ==
  ASSUME DInv, Walking, NEW S \in SUBSET Visible, wires' = Consumed(S, SlotOfWire, Inside),
         UNCHANGED <<layout, content>>
  PROVE  Known(layout', wires', content', diverged) /\ WiresInBlock(wires')
<1>1. /\ TypeOK /\ WiresInBlock(wires) /\ wires \in [Qubits -> Wire] /\ Inside \in BOOLEAN
      /\ (pc \in {"top", "func"} <=> ~Inside) /\ Reads(wires, content)
      /\ (~diverged => OnDevice(layout, wires, content))
      /\ S \in SUBSET Qubits /\ (Inside => Visible = operands)
  BY BlockFacts
<1>2. /\ \A q \in Qubits \ S : wires'[q] = wires[q]
      /\ \A q \in S : wires'[q] = [slot |-> SlotOfWire[q], live |-> TRUE, inner |-> Inside]
  BY <1>1, OthersKept, ZenonT(60)
<1>3. ASSUME NEW q \in Qubits
      PROVE  /\ wires'[q].slot = wires[q].slot /\ wires'[q].live
             /\ q \in S => wires'[q].inner = Inside
  <2>1. CASE q \in S
    <3>1. SlotOfWire[q] = wires[q].slot
      BY DEF SlotOfWire
    <3>2. wires'[q] = [slot |-> SlotOfWire[q], live |-> TRUE, inner |-> Inside]
      BY <1>2, <2>1
    <3>3. wires'[q].slot = SlotOfWire[q] /\ wires'[q].live = TRUE
      BY <3>2
    <3>4. wires'[q].inner = Inside
      BY <3>2
    <3>. QED
      BY <3>1, <3>3, <3>4
  <2>2. CASE q \notin S
    BY <1>1, <1>2, <2>2 DEF Reads
  <2>. QED
    BY <2>1, <2>2
<1>4. Known(layout', wires', content', diverged)
  BY <1>1, <1>3 DEF Known, Reads, OnDevice
<1>5. pc \in {"top", "func"} => NoneInner(wires')
  BY <1>1, <1>2, <1>3 DEF WiresInBlock, NoneInner
<1>6. pc \in {"region", "then", "else"} => OutsidersUnseen(operands, wires')
  <2>. SUFFICES ASSUME pc \in {"region", "then", "else"}, NEW q \in Qubits \ operands
                PROVE  wires'[q] = Fresh
    BY DEF OutsidersUnseen
  <2>1. q \notin S
    BY <1>1
  <2>. QED
    BY <1>1, <1>2, <2>1 DEF WiresInBlock, OutsidersUnseen
<1>. QED
  BY <1>4, <1>5, <1>6 DEF WiresInBlock

\* Placing keeps what is known, whatever is then noted of where the values are.
LEMMA InPlacePlaced ==
  ASSUME DInv, Walking, ~diverged, IInv', NEW S \in SUBSET Visible, Place(NewSlots(S)),
         wires' \in [Qubits -> Wire],
         \A q \in Qubits : LET p == PlacedWires(NewSlots(S))[q]
                           IN /\ wires'[q].slot = p.slot /\ wires'[q].live = p.live
                              /\ q \notin S => wires'[q] = p
                              /\ q \in S => wires'[q].inner \in {p.inner, Inside}
  PROVE  Known(layout', wires', content', diverged) /\ WiresInBlock(wires')
<1>. DEFINE w == PlacedWires(NewSlots(S))
<1>1. /\ TypeOK /\ WiresInBlock(wires) /\ wires \in [Qubits -> Wire] /\ Inside \in BOOLEAN
      /\ (pc \in {"top", "func"} <=> ~Inside) /\ OnDevice(layout, wires, content)
      /\ \A q \in Qubits : wires[q].live
      /\ S \in SUBSET Qubits /\ (Inside => Visible = operands)
  BY BlockFacts
<1>2. OnDevice(layout', w, content') /\ \A q \in Qubits : w[q].live
  BY <1>1, PlaceOnDevice
<1>3. \A q \in Qubits : w[q].inner = wires[q].inner /\ (q \notin S => w[q] = wires[q])
  <2>1. DOMAIN NewSlots(S) \subseteq S
    BY DEF NewSlots
  <2>. QED
    BY <1>1, <2>1 DEF PlacedWires, Wire
<1>. HIDE DEF w
<1>4. \A q \in Qubits : /\ wires'[q].slot = w[q].slot /\ wires'[q].live = w[q].live
                        /\ q \notin S => wires'[q] = w[q]
                        /\ q \in S => wires'[q].inner \in {w[q].inner, Inside}
  BY DEF w
<1>5. OnDevice(layout', wires', content') /\ \A q \in Qubits : wires'[q].live
  BY <1>2, <1>4 DEF OnDevice
<1>6. Reads(wires', content')
  <2>1. layout' \in Layout /\ Bijective(layout')
    BY DEF IInv, TypeOK, Sound
  <2>. QED
    BY <1>5, <2>1, DeviceReads
<1>7. pc \in {"top", "func"} => NoneInner(wires')
  BY <1>1, <1>3, <1>4 DEF WiresInBlock, NoneInner
<1>8. pc \in {"region", "then", "else"} => OutsidersUnseen(operands, wires')
  <2>. SUFFICES ASSUME pc \in {"region", "then", "else"}, NEW q \in Qubits \ operands
                PROVE  wires'[q] = Fresh
    BY DEF OutsidersUnseen
  <2>1. q \notin S
    BY <1>1
  <2>2. wires[q] = Fresh
    BY <1>1 DEF WiresInBlock, OutsidersUnseen
  <2>. QED
    BY <1>3, <1>4, <2>1, <2>2
<1>. QED
  BY <1>5, <1>6, <1>7, <1>8 DEF Known, WiresInBlock

--------------------------------------------------------------------------------

\* One lemma an action: a one-qubit gate keeps the device invariant.
LEMMA DeviceLocalGate ==
  ASSUME DInv, IInv', NEW q \in Qubits, LocalGate(q)
  PROVE  DInv'
<1>1. /\ Walking /\ gate = None /\ q \in Visible /\ {q} \in SUBSET Visible
      /\ UNCHANGED <<saved, operands, pc, diverged, gate>>
      /\ out' = Emitted("local", <<q>>, FALSE)
  BY DEF LocalGate, MoreOps, Walking
<1>2. Known(layout', wires', content', diverged) /\ WiresInBlock(wires')
  <2>1. CASE diverged
    <3>1. wires' = Consumed({q}, SlotOfWire, Inside) /\ UNCHANGED <<layout, content>>
      BY <2>1 DEF LocalGate
    <3>. QED
      BY <1>1, <3>1, InPlace
  <2>2. CASE ~diverged
    <3>. DEFINE w == PlacedWires(NewSlots({q}))
    <3>1. Place(NewSlots({q})) /\ wires' = [w EXCEPT ![q].live = TRUE, ![q].inner = Inside]
      BY <2>2 DEF LocalGate
    <3>2. /\ TypeOK /\ wires \in [Qubits -> Wire] /\ OnDevice(layout, wires, content)
          /\ \A r \in Qubits : wires[r].live
      BY <1>1, <2>2, BlockFacts
    <3>3. wires' \in [Qubits -> Wire]
      BY DEF IInv, TypeOK
    <3>4. \A r \in Qubits : w[r].live
      BY <3>1, <3>2, PlaceOnDevice
    <3>5. w \in [Qubits -> Wire]
      <4>1. Sound(layout, nextPhys, wires) /\ {q} \in SUBSET Qubits /\ Fits({q})
        BY <2>2 DEF DInv, IInv, LocalGate
      <4>. QED
        BY <3>1, <3>2, <4>1, PlaceKeeps
    <3>. HIDE DEF w
    <3>6. w[q] = [slot |-> w[q].slot, live |-> w[q].live, inner |-> w[q].inner]
      BY <3>5 DEF Wire
    <3>7. wires'[q] = [slot |-> w[q].slot, live |-> TRUE, inner |-> Inside]
          /\ \A r \in Qubits \ {q} : wires'[r] = w[r]
      BY <3>1, <3>5, <3>6
    <3>8. wires'[q].slot = w[q].slot /\ wires'[q].live = TRUE /\ wires'[q].inner = Inside
      <4>1. wires'[q].slot = w[q].slot /\ wires'[q].live = TRUE
        BY <3>7
      <4>2. wires'[q].inner = Inside
        BY <3>7
      <4>. QED
        BY <4>1, <4>2
    <3>9. \A r \in Qubits : /\ wires'[r].slot = w[r].slot /\ wires'[r].live = w[r].live
                            /\ r \notin {q} => wires'[r] = w[r]
                            /\ r \in {q} => wires'[r].inner \in {w[r].inner, Inside}
      <4>. SUFFICES ASSUME NEW r \in Qubits
                    PROVE  /\ wires'[r].slot = w[r].slot /\ wires'[r].live = w[r].live
                           /\ r \notin {q} => wires'[r] = w[r]
                           /\ r \in {q} => wires'[r].inner \in {w[r].inner, Inside}
        OBVIOUS
      <4>1. CASE r = q
        <5>1. w[q].live = TRUE
          BY <3>4, <3>5 DEF Wire
        <5>. QED
          BY <3>8, <4>1, <5>1
      <4>2. CASE r # q
        BY <3>7, <4>2
      <4>. QED
        BY <4>1, <4>2
    <3>. QED
      BY <1>1, <2>2, <3>1, <3>3, <3>9, InPlacePlaced DEF w
  <2>. QED
    BY <2>1, <2>2
<1>3. OperandsCarryTheirQubit' /\ RoutedOnEdges'
  BY <1>1, PairIsFunction, EmittedCarries, Unrouted DEF Walking
<1>4. GateInv'
  BY <1>1 DEF GateInv
<1>. QED
  BY <1>1, <1>2, <1>3, <1>4, DeviceBlockStep

\* A gate after a divergence keeps the device invariant: it reads its wires and moves nothing.
LEMMA DeviceUnroutedGate ==
  ASSUME DInv, IInv', NEW a \in Qubits, NEW b \in Qubits, UnroutedGate(a, b)
  PROVE  DInv'
<1>1. /\ Walking /\ gate = None /\ {a, b} \in SUBSET Visible
      /\ UNCHANGED <<saved, operands, pc, diverged, gate, layout, content>>
      /\ wires' = Consumed({a, b}, SlotOfWire, Inside)
      /\ out' = Emitted("gate", <<a, b>>, FALSE)
  BY DEF UnroutedGate, MoreOps, Walking
<1>2. Known(layout', wires', content', diverged) /\ WiresInBlock(wires')
  BY <1>1, InPlace
<1>3. OperandsCarryTheirQubit' /\ RoutedOnEdges'
  BY <1>1, PairIsFunction, EmittedCarries, Unrouted DEF Walking
<1>4. GateInv'
  BY <1>1 DEF GateInv
<1>. QED
  BY <1>1, <1>2, <1>3, <1>4, DeviceBlockStep

\* Placing the qubits of a gate keeps the device invariant: each state is in the slot its qubit gets.
LEMMA DeviceStartGate ==
  ASSUME DInv, IInv', NEW a \in Qubits, NEW b \in Qubits, StartGate(a, b)
  PROVE  DInv'
<1>. DEFINE S == {a, b}
            w == PlacedWires(NewSlots(S))
<1>1. /\ Walking /\ ~diverged /\ S \in SUBSET Visible /\ Place(NewSlots(S)) /\ wires' = w
      /\ S \in SUBSET Qubits /\ Fits(S)
      /\ gate' = <<a, b>> /\ a # b /\ UNCHANGED <<saved, operands, pc, diverged, out>>
  BY DEF StartGate, MoreOps, Walking
<1>2. wires' \in [Qubits -> Wire]
  BY DEF IInv, TypeOK
<1>3. Known(layout', wires', content', diverged) /\ WiresInBlock(wires')
  BY <1>1, <1>2, InPlacePlaced
<1>4. OperandsCarryTheirQubit' /\ RoutedOnEdges'
  BY <1>1 DEF DInv, OperandsCarryTheirQubit, RoutedOnEdges
<1>5. layout'.map[a] # None /\ layout'.map[b] # None
  <2>1. /\ DOMAIN NewSlots(S) = {q \in S : layout.map[q] = None}
        /\ \A q \in DOMAIN NewSlots(S) : NewSlots(S)[q] \in Slots
    BY <1>1, NewSlotsFresh DEF DInv, IInv
  <2>2. layout'.map = [q \in Qubits |-> IF q \in DOMAIN NewSlots(S) THEN NewSlots(S)[q]
                                        ELSE layout.map[q]]
    BY <1>1 DEF Place
  <2>3. None \notin Slots
    BY RoutingAssumption
  <2>. HIDE DEF S
  <2>4. a \in S /\ b \in S
    BY DEF S
  <2>. QED
    BY <2>1, <2>2, <2>3, <2>4
<1>6. GateInv'
  <2>1. gate'[1] = a /\ gate'[2] = b
    BY <1>1
  <2>. QED
    BY <1>1, <1>5, <2>1 DEF GateInv, Walking
<1>. QED
  BY <1>1, <1>3, <1>4, <1>6, DeviceBlockStep

--------------------------------------------------------------------------------

\* The gate being routed is one of the block being walked, and its ends are where its
\* operands are.
LEMMA GateFacts ==
  ASSUME DInv, gate # None, pc # "failed" \/ ~Apart \/ BestSwaps(layout, Ends[1], Ends[2]) # {}
  PROVE  /\ Walking /\ ~diverged
         /\ gate \in Qubits \X Qubits /\ gate = <<gate[1], gate[2]>> /\ gate[1] # gate[2]
         /\ {gate[1], gate[2]} \in SUBSET Visible
         /\ Ends[1] = wires[gate[1]].slot /\ Ends[2] = wires[gate[2]].slot
         /\ Ends[1] \in Slots /\ Ends[2] \in Slots /\ Ends[1] # Ends[2]
<1>. DEFINE a == gate[1]
            b == gate[2]
<1>1. /\ Walking /\ ~diverged /\ a # b /\ layout.map[a] # None /\ layout.map[b] # None
  BY DEF DInv, GateInv, Walking
<1>2. gate \in Qubits \X Qubits /\ a \in Qubits /\ b \in Qubits /\ gate = <<a, b>>
  BY DEF DInv, IInv, TypeOK
<1>3. /\ Bijective(layout) /\ layout \in Layout /\ WiresInBlock(wires)
      /\ OnDevice(layout, wires, content) /\ (pc \in {"top", "func"} <=> ~Inside)
  BY <1>1, BlockFacts
<1>. HIDE DEF a, b
<1>4. layout.map[a] \in Slots /\ layout.map[b] \in Slots /\ layout.map[a] # layout.map[b]
  <2>1. layout.map[a] \in Slots /\ layout.map[b] \in Slots
    BY <1>1, <1>2, <1>3 DEF Layout
  <2>2. layout.inv[layout.map[a]] = a /\ layout.inv[layout.map[b]] = b
    BY <1>2, <1>3, <2>1 DEF Bijective
  <2>. QED
    BY <1>1, <2>1, <2>2
<1>5. wires[a].slot = layout.map[a] /\ wires[b].slot = layout.map[b]
  BY <1>2, <1>3 DEF OnDevice
<1>6. a \in Visible /\ b \in Visible
  <2>1. wires[a] # Fresh /\ wires[b] # Fresh
    BY <1>1, <1>5 DEF Fresh
  <2>2. CASE Inside
    BY <1>2, <1>3, <2>1, <2>2 DEF WiresInBlock, OutsidersUnseen, Visible, Inside
  <2>3. CASE ~Inside
    BY <1>2, <2>3 DEF Visible
  <2>. QED
    BY <2>2, <2>3
<1>7. Ends[1] = layout.map[a] /\ Ends[2] = layout.map[b]
  BY DEF Ends, a, b
<1>. QED
  BY <1>1, <1>2, <1>4, <1>5, <1>6, <1>7 DEF a, b

\* The gate itself keeps the device invariant, and is on an edge since its ends are a hop apart.
LEMMA DeviceFinishGate ==
  ASSUME DInv, IInv', FinishGate
  PROVE  DInv'
<1>. DEFINE S == {gate[1], gate[2]}
<1>1. /\ gate # None /\ ~Apart /\ gate' = None
      /\ wires' = Consumed(S, SlotOfWire, Inside)
      /\ out' = Emitted("gate", gate, TRUE)
      /\ UNCHANGED <<layout, content, saved, operands, pc, diverged>>
  BY DEF FinishGate, unsaved
<1>2. /\ Walking /\ ~diverged
      /\ gate \in Qubits \X Qubits /\ gate = <<gate[1], gate[2]>>
      /\ S \in SUBSET Visible
      /\ Ends[1] = wires[gate[1]].slot /\ Ends[2] = wires[gate[2]].slot
      /\ Ends[1] \in Slots /\ Ends[2] \in Slots /\ Ends[1] # Ends[2]
  BY <1>1, GateFacts
<1>3. Known(layout', wires', content', diverged) /\ WiresInBlock(wires')
  BY <1>1, <1>2, InPlace
<1>4. gate \in [{1, 2} -> Qubits]
  <2>1. gate[1] \in Qubits /\ gate[2] \in Qubits
    BY <1>2
  <2>2. <<gate[1], gate[2]>> \in [{1, 2} -> Qubits]
    BY <2>1, PairIsFunction
  <2>. QED
    BY <1>2, <2>2, Zenon
<1>5. OperandsCarryTheirQubit'
  BY <1>1, <1>2, <1>4, EmittedCarries DEF Walking
<1>6. RoutedOnEdges'
  <2>1. out'.slots[1] = Ends[1] /\ out'.slots[2] = Ends[2]
    <3>1. out'.slots = [i \in DOMAIN gate |-> wires[gate[i]].slot] /\ DOMAIN gate = {1, 2}
      BY <1>1, <1>4 DEF Emitted
    <3>. QED
      BY <1>2, <3>1
  <2>2. Near(Ends[1], Ends[2])
    BY <1>1, <1>2, NearByDistance DEF Apart
  <2>. QED
    BY <2>1, <2>2 DEF RoutedOnEdges
<1>7. GateInv'
  BY <1>1 DEF GateInv
<1>. QED
  BY <1>1, <1>2, <1>3, <1>5, <1>6, <1>7, DeviceBlockStep

\* A SWAP keeps the device invariant: layout, wires and contents are exchanged alike.
LEMMA DeviceSwapStep ==
  ASSUME DInv, IInv', SwapStep
  PROVE  DInv'
<1>1. /\ gate # None /\ BestSwaps(layout, Ends[1], Ends[2]) # {}
      /\ UNCHANGED <<nextPhys, diverged, gate, pc, operands, saved, ops>>
  BY DEF SwapStep, unsaved
<1>2. /\ Walking /\ ~diverged
  BY <1>1, GateFacts
<1>3. /\ TypeOK /\ Bijective(layout) /\ WiresInBlock(wires) /\ layout \in Layout
      /\ wires \in [Qubits -> Wire] /\ Inside \in BOOLEAN /\ (pc \in {"top", "func"} <=> ~Inside)
      /\ Reads(wires, content) /\ OnDevice(layout, wires, content)
      /\ \A q \in Qubits : wires[q].live
  BY <1>2, BlockFacts
<1>4. PICK e \in BestSwaps(layout, Ends[1], Ends[2]) :
        LET lu == layout.inv[e[1]]
            lv == layout.inv[e[2]]
            su == wires[lu].slot
            sv == wires[lv].slot
        IN /\ layout' = SwapPhys(layout, e[1], e[2])
           /\ content' = [content EXCEPT ![su] = content[sv], ![sv] = content[su]]
           /\ wires' = Consumed({lu, lv}, SwapOutputs(lu, su, sv), Inside)
           /\ out' = Emitted("swap", <<lu, lv>>, TRUE)
  BY DEF SwapStep
<1>. DEFINE lu == layout.inv[e[1]]
            lv == layout.inv[e[2]]
            su == wires[lu].slot
            sv == wires[lv].slot
            given == SwapOutputs(lu, su, sv)
            S == {lu, lv}
<1>5. /\ e \in Edges /\ e = <<e[1], e[2]>> /\ e[1] \in Slots /\ e[2] \in Slots /\ e[1] # e[2]
      /\ layout.inv[e[1]] # None /\ layout.inv[e[2]] # None
  BY <1>4, RoutingAssumption, SMTT(30) DEF BestSwaps, CandidateSwaps
<1>6. /\ lu \in Qubits /\ lv \in Qubits /\ lu # lv
      /\ layout.map[lu] = e[1] /\ layout.map[lv] = e[2]
      /\ \A q \in Qubits : layout'.map[q] =
           IF q = lu THEN e[2] ELSE IF q = lv THEN e[1] ELSE layout.map[q]
  BY <1>3, <1>4, <1>5, SwapKeeps, SMTT(30)
<1>7. su = e[1] /\ sv = e[2]
  BY <1>3, <1>6 DEF OnDevice
<1>8. /\ content' = [content EXCEPT ![su] = content[sv], ![sv] = content[su]]
      /\ wires' = Consumed(S, given, Inside)
      /\ out' = Emitted("swap", <<lu, lv>>, TRUE)
      /\ layout'.inv = [layout.inv EXCEPT ![e[1]] = layout.inv[e[2]], ![e[2]] = layout.inv[e[1]]]
  BY <1>4 DEF SwapPhys
<1>9. given[lu] = sv /\ given[lv] = su
  BY <1>6 DEF SwapOutputs
<1>10. \A s \in Slots : content'[s] = layout'.inv[s]
  <2>1. content \in [Slots -> Qubits \cup {None}] /\ layout.inv \in [Slots -> Qubits \cup {None}]
    BY <1>3 DEF TypeOK, Layout
  <2>2. \A s \in Slots : content[s] = layout.inv[s]
    BY <1>3 DEF OnDevice
  <2>. HIDE DEF su, sv
  <2>. QED
    BY <1>5, <1>7, <1>8, <2>1, <2>2
<1>. HIDE DEF given
<1>11. /\ \A q \in Qubits \ S : wires'[q] = wires[q]
       /\ \A q \in S : wires'[q] = [slot |-> given[q], live |-> TRUE, inner |-> Inside]
  <2>1. S \in SUBSET Qubits /\ wires' = Consumed(S, given, Inside)
    BY <1>6, <1>8
  <2>. HIDE DEF S
  <2>2. /\ \A q \in Qubits \ S : Consumed(S, given, Inside)[q] = wires[q]
        /\ \A q \in S : Consumed(S, given, Inside)[q] =
             [slot |-> given[q], live |-> TRUE, inner |-> Inside]
    <3>1. Reads(wires, content) /\ wires \in [Qubits -> Wire] /\ Inside \in BOOLEAN
      BY <1>3
    <3>. QED
      BY <2>1, <3>1, OthersKept
  <2>. QED
    BY <2>1, <2>2, Zenon
<1>. HIDE DEF su, sv, lu, lv
<1>12. ASSUME NEW q \in S
       PROVE  wires'[q].slot = given[q] /\ wires'[q].live = TRUE /\ wires'[q].inner = Inside
  <2>1. wires'[q] = [slot |-> given[q], live |-> TRUE, inner |-> Inside]
    BY <1>11
  <2>2. wires'[q].slot = given[q] /\ wires'[q].live = TRUE
    BY <2>1
  <2>3. wires'[q].inner = Inside
    BY <2>1
  <2>. QED
    BY <2>2, <2>3
<1>13. OnDevice(layout', wires', content') /\ \A q \in Qubits : wires'[q].live
  <2>1. ASSUME NEW q \in Qubits
        PROVE  wires'[q].slot = layout'.map[q] /\ wires'[q].live
    <3>1. CASE q = lu
      BY <1>6, <1>7, <1>9, <1>12, <3>1
    <3>2. CASE q = lv
      BY <1>6, <1>7, <1>9, <1>12, <3>2
    <3>3. CASE q # lu /\ q # lv
      <4>1. wires[q].slot = layout.map[q] /\ wires[q].live
        BY <1>3 DEF OnDevice
      <4>. QED
        BY <1>6, <1>11, <3>3, <4>1
    <3>. QED
      BY <3>1, <3>2, <3>3
  <2>. QED
    BY <1>10, <2>1 DEF OnDevice
<1>14. Known(layout', wires', content', diverged)
  <2>1. layout' \in Layout /\ Bijective(layout') /\ wires' \in [Qubits -> Wire]
    BY DEF IInv, TypeOK, Sound
  <2>2. Reads(wires', content')
    BY <1>13, <2>1, DeviceReads
  <2>. QED
    BY <1>13, <2>2 DEF Known
<1>15. WiresInBlock(wires')
  <2>1. ASSUME pc \in {"top", "func"}
        PROVE  NoneInner(wires')
    BY <1>3, <1>11, <1>12, <2>1 DEF WiresInBlock, NoneInner
  <2>2. ASSUME pc \in {"region", "then", "else"}, NEW q \in Qubits \ operands
        PROVE  wires'[q] = Fresh
    <3>1. wires[q] = Fresh
      BY <1>3, <2>2 DEF WiresInBlock, OutsidersUnseen
    <3>2. q \notin S
      <4>1. None \notin Slots /\ wires[q].slot = None
        BY <3>1, RoutingAssumption DEF Fresh
      <4>2. wires[lu].slot = su /\ wires[lv].slot = sv
        BY DEF su, sv
      <4>. QED
        BY <1>5, <1>7, <4>1, <4>2
    <3>. QED
      BY <1>11, <3>1, <3>2
  <2>. QED
    BY <2>1, <2>2 DEF WiresInBlock, OutsidersUnseen
<1>16. OperandsCarryTheirQubit'
  BY <1>2, <1>6, <1>8, PairIsFunction, EmittedCarries DEF Walking
<1>17. RoutedOnEdges'
  <2>1. out'.slots = [i \in DOMAIN <<lu, lv>> |-> wires[<<lu, lv>>[i]].slot]
    BY <1>8 DEF Emitted
  <2>2. out'.slots[1] = su /\ out'.slots[2] = sv
    BY <2>1 DEF su, sv
  <2>3. Near(e[1], e[2])
    BY <1>5 DEF Near
  <2>. QED
    BY <1>7, <2>2, <2>3 DEF RoutedOnEdges
<1>18. GateInv'
  <2>1. /\ gate[1] # gate[2] /\ layout.map[gate[1]] # None /\ layout.map[gate[2]] # None
        /\ gate[1] \in Qubits /\ gate[2] \in Qubits /\ None \notin Slots
    BY <1>1, RoutingAssumption DEF DInv, GateInv, IInv, TypeOK
  <2>2. layout'.map[gate[1]] # None /\ layout'.map[gate[2]] # None
    BY <1>5, <1>6, <2>1
  <2>. QED
    BY <1>1, <1>2, <2>1, <2>2 DEF GateInv, Walking
<1>. QED
  BY <1>1, <1>2, <1>14, <1>15, <1>16, <1>17, <1>18, DeviceBlockStep

\* A refusal keeps the device invariant.
LEMMA DeviceNoSwap ==
  ASSUME DInv, IInv', NoSwap
  PROVE  DInv'
<1>1. /\ gate # None /\ Apart /\ BestSwaps(layout, Ends[1], Ends[2]) = {} /\ pc' = "failed"
      /\ UNCHANGED <<layout, nextPhys, diverged, wires, operands, gate, saved, ops, out, content>>
  BY DEF NoSwap
<1>2. Known(layout', wires', content', diverged') /\ BranchInv'
  BY <1>1 DEF DInv, BranchInv
<1>3. Apart' /\ Ends' = Ends /\ BestSwaps(layout', Ends'[1], Ends'[2]) = {}
  BY <1>1 DEF Apart, Ends
<1>4. GateInv'
  BY <1>1, <1>3 DEF DInv, GateInv
<1>5. OperandsCarryTheirQubit' /\ RoutedOnEdges'
  BY <1>1 DEF DInv, OperandsCarryTheirQubit, RoutedOnEdges
<1>. QED
  BY <1>2, <1>4, <1>5 DEF DInv

--------------------------------------------------------------------------------

\* Going into a region that has every live qubit leaves what is known as it is.
LEMMA DeviceEnter ==
  ASSUME DInv, IInv', NEW S \in SUBSET Qubits, Enter(S), OutsidersUnseen(S, wires),
         NoneInner(wires)
  PROVE  Known(layout', wires', content', diverged) /\ OutsidersUnseen(S, wires')
<1>1. /\ TypeOK /\ wires \in [Qubits -> Wire] /\ Reads(wires, content)
      /\ (~diverged => OnDevice(layout, wires, content))
      /\ \A q \in Qubits : wires[q].live
  BY DEF DInv, IInv, TypeOK, Known, Reads
<1>2. CASE diverged
  <2>1. /\ UNCHANGED <<layout, content>>
        /\ wires' = [q \in Qubits |-> IF q \in S THEN EnteredWire(wires[q]) ELSE wires[q]]
    BY <1>2 DEF Enter
  <2>2. \A q \in Qubits : /\ wires'[q].slot = wires[q].slot /\ wires'[q].live = wires[q].live
                          /\ q \notin S => wires'[q] = wires[q]
    BY <1>1, <2>1 DEF Wire, EnteredWire, NoneInner
  <2>. QED
    BY <1>1, <1>2, <2>1, <2>2 DEF Known, Reads, OutsidersUnseen
<1>3. CASE ~diverged
  <2>. DEFINE w == PlacedWires(NewSlots(S))
  <2>1. /\ Place(NewSlots(S)) /\ Fits(S)
        /\ wires' = [q \in Qubits |-> IF q \in S THEN EnteredWire(w[q]) ELSE wires[q]]
    BY <1>3 DEF Enter
  <2>2. OnDevice(layout', w, content') /\ \A q \in Qubits : w[q].live
    BY <1>1, <1>3, <2>1, PlaceOnDevice
  <2>3. \A q \in Qubits \ S : w[q] = wires[q]
    BY DEF PlacedWires, NewSlots
  <2>4. w \in [Qubits -> Wire] /\ NoneInner(w)
    <3>1. w \in [Qubits -> Wire]
      BY <1>1, <2>1, PlaceKeeps DEF DInv, IInv
    <3>2. NoneInner(w)
      BY <1>1 DEF PlacedWires, NoneInner, Wire
    <3>. QED
      BY <3>1, <3>2
  <2>. HIDE DEF w
  <2>5. \A q \in Qubits : wires'[q].slot = w[q].slot /\ wires'[q].live = w[q].live
    <3>1. ASSUME NEW q \in S
          PROVE  wires'[q].slot = w[q].slot /\ wires'[q].live = w[q].live
      BY <2>1, <2>4 DEF Wire, EnteredWire, NoneInner
    <3>2. ASSUME NEW q \in Qubits \ S
          PROVE  wires'[q] = w[q]
      BY <2>1, <2>3
    <3>. QED
      BY <3>1, <3>2
  <2>6. OnDevice(layout', wires', content') /\ \A q \in Qubits : wires'[q].live
    BY <2>2, <2>5 DEF OnDevice
  <2>7. Reads(wires', content')
    <3>1. layout' \in Layout /\ Bijective(layout') /\ wires' \in [Qubits -> Wire]
      BY DEF IInv, TypeOK, Sound
    <3>. QED
      BY <2>6, <3>1, DeviceReads
  <2>8. OutsidersUnseen(S, wires')
    BY <2>1 DEF OutsidersUnseen
  <2>. QED
    BY <2>6, <2>7, <2>8 DEF Known
<1>. QED
  BY <1>2, <1>3

\* A region of a program where regions take all live qubits leaves the others unseen.
LEMMA RegionTakesAll ==
  ASSUME ~PartialRegions, NEW S \in RegionOperands
  PROVE  S \in SUBSET Qubits /\ OutsidersUnseen(S, wires)
BY DEF RegionOperands, OutsidersUnseen

\* Each value of a set of qubits, as a terminator returns them.
LEMMA EachOfIsFunction ==
  ASSUME NEW S \in SUBSET Qubits
  PROVE  EachOf(S) \in [S -> Qubits]
BY DEF EachOf

\* Entering a region of every qubit in use keeps the device invariant.
LEMMA DeviceEnterRegion ==
  ASSUME DInv, IInv', ~PartialRegions, NEW S \in RegionOperands, EnterRegion(S)
  PROVE  DInv'
<1>1. /\ Enter(S) /\ pc' = "region" /\ UNCHANGED <<diverged, gate, saved, out>> /\ gate = None
      /\ operands' = S
  BY DEF EnterRegion, Enter, MoreOps
<1>2. Known(layout', wires', content', diverged) /\ OutsidersUnseen(S, wires')
  <2>1. NoneInner(wires)
    BY DEF EnterRegion, DInv, BranchInv
  <2>. QED
    BY <1>1, <2>1, RegionTakesAll, DeviceEnter
<1>3. BranchInv' /\ GateInv'
  BY <1>1, <1>2 DEF BranchInv, GateInv
<1>4. OperandsCarryTheirQubit' /\ RoutedOnEdges'
  BY <1>1 DEF DInv, OperandsCarryTheirQubit, RoutedOnEdges
<1>. QED
  BY <1>1, <1>2, <1>3, <1>4 DEF DInv

\* Entering a branch keeps the device invariant.
LEMMA DeviceEnterThen ==
  ASSUME DInv, IInv', ~PartialRegions, NEW S \in RegionOperands, EnterThen(S)
  PROVE  DInv'
<1>. DEFINE z == Snapshot
<1>1. /\ Enter(S) /\ pc = "top" /\ pc' = "then" /\ UNCHANGED <<diverged, gate, out>>
      /\ gate = None /\ operands' = S /\ saved' = <<z>>
  BY DEF EnterThen, Enter, MoreOps
<1>2. Known(layout', wires', content', diverged) /\ OutsidersUnseen(S, wires')
  <2>1. NoneInner(wires)
    BY <1>1 DEF DInv, BranchInv
  <2>. QED
    BY <1>1, <2>1, RegionTakesAll, DeviceEnter
<1>3. /\ z.wires = wires /\ KnownIn(z) /\ NoneInner(wires) /\ OutsidersUnseen(S, wires)
  BY <1>1, RegionTakesAll DEF Snapshot, KnownIn, DInv, BranchInv
<1>. HIDE DEF z
<1>4. saved'[1] = z
  BY <1>1
<1>5. BranchInv' /\ GateInv'
  BY <1>1, <1>2, <1>3, <1>4 DEF BranchInv, GateInv
<1>6. OperandsCarryTheirQubit' /\ RoutedOnEdges'
  BY <1>1 DEF DInv, OperandsCarryTheirQubit, RoutedOnEdges
<1>. QED
  BY <1>1, <1>2, <1>5, <1>6 DEF DInv

\* Leaving a region keeps the device invariant: every qubit in use is among its results.
LEMMA DeviceLeaveRegion ==
  ASSUME DInv, IInv', LeaveRegion
  PROVE  DInv'
<1>1. /\ pc = "region" /\ gate = None /\ wires' = Returned(wires, operands)
      /\ out' = Emitted("yield", EachOf(operands), FALSE) /\ pc' = "top"
      /\ UNCHANGED <<layout, diverged, gate, saved, content>>
      /\ operands \in SUBSET Qubits /\ Known(layout, wires, content, diverged)
      /\ OutsidersUnseen(operands, wires)
  BY DEF LeaveRegion, DInv, IInv, TypeOK, BranchInv
<1>2. \A q \in Qubits : wires'[q].slot = wires[q].slot /\ wires'[q].live /\ ~wires'[q].inner
  <2>1. ASSUME NEW q \in operands
        PROVE  wires'[q] = [slot |-> wires[q].slot, live |-> TRUE, inner |-> FALSE]
    BY <1>1 DEF Returned
  <2>2. ASSUME NEW q \in Qubits \ operands
        PROVE  wires'[q] = wires[q] /\ wires[q] = Fresh
    BY <1>1 DEF Returned, OutsidersUnseen
  <2>3. Fresh.slot = None /\ Fresh.live /\ ~Fresh.inner
    BY ResultFields DEF Fresh
  <2>4. ASSUME NEW q \in operands
        PROVE  wires'[q].slot = wires[q].slot /\ wires'[q].live /\ ~wires'[q].inner
    <3>1. wires'[q] = [slot |-> wires[q].slot, live |-> TRUE, inner |-> FALSE]
      BY <2>1
    <3>. QED
      BY <3>1, ResultFields, Zenon
  <2>. QED
    BY <2>2, <2>3, <2>4
<1>3. Known(layout', wires', content', diverged')
  BY <1>1, <1>2 DEF Known, Reads, OnDevice
<1>4. BranchInv' /\ GateInv'
  BY <1>1, <1>2 DEF BranchInv, GateInv, NoneInner
<1>5. OperandsCarryTheirQubit' /\ RoutedOnEdges'
  BY <1>1, EachOfIsFunction, EmittedCarries, Unrouted
<1>. QED
  BY <1>3, <1>4, <1>5 DEF DInv

\* The end of the then arm keeps the device invariant, for the device as it was at the branch.
LEMMA DeviceFinishThen ==
  ASSUME DInv, IInv', FinishThen
  PROVE  DInv'
<1>. DEFINE b == saved[1]
            z == Snapshot
<1>1. /\ saved \in Seq(Snap) /\ Len(saved) = 1 /\ z \in Snap /\ saved' = Append(saved, z)
      /\ KnownIn(b) /\ NoneInner(b.wires) /\ OutsidersUnseen(operands, b.wires)
      /\ OutsidersUnseen(operands, wires) /\ operands \in SUBSET Qubits
  BY SnapshotSound DEF DInv, IInv, TypeOK, BranchInv, FinishThen
<1>2. /\ layout' = b.layout /\ diverged' = b.diverged /\ wires' = b.wires
      /\ content' = b.content /\ pc = "then" /\ pc' = "arms" /\ gate = None
      /\ UNCHANGED <<operands, gate>> /\ out' = Emitted("yield", EachOf(operands), FALSE)
  BY DEF FinishThen
<1>3. z.wires = wires /\ KnownIn(z)
  BY DEF Snapshot, KnownIn, DInv
<1>. HIDE DEF z
<1>4. saved'[1] = b /\ saved'[2] = z
  <2>1. saved \in Seq(Snap) /\ z \in Snap /\ saved' = Append(saved, z) /\ Len(saved) = 1
    BY <1>1
  <2>2. Append(saved, z)[1] = b
    BY <2>1
  <2>3. Append(saved, z)[2] = z
    <3>1. Append(saved, z)[Len(saved) + 1] = z
      BY <2>1, AppendProperties, Zenon
    <3>. QED
      BY <2>1, <3>1
  <2>. QED
    BY <2>1, <2>2, <2>3, Zenon
<1>. HIDE DEF b
<1>5. BranchInv' /\ GateInv'
  BY <1>1, <1>2, <1>3, <1>4 DEF BranchInv, GateInv
<1>6. OperandsCarryTheirQubit' /\ RoutedOnEdges'
  BY <1>1, <1>2, EachOfIsFunction, EmittedCarries, Unrouted
<1>7. Known(layout', wires', content', diverged')
  BY <1>1, <1>2 DEF KnownIn
<1>. QED
  BY <1>5, <1>6, <1>7 DEF DInv

\* Entering the else arm keeps the device invariant.
LEMMA DeviceEnterElse ==
  ASSUME DInv, IInv', EnterElse
  PROVE  DInv'
<1>1. /\ Enter(operands) /\ operands' = operands /\ pc = "arms" /\ pc' = "else"
      /\ UNCHANGED <<diverged, gate, saved, out>>
      /\ operands \in SUBSET Qubits /\ OutsidersUnseen(operands, wires) /\ NoneInner(wires)
  BY DEF EnterElse, Enter, DInv, BranchInv, IInv, TypeOK
<1>2. Known(layout', wires', content', diverged) /\ OutsidersUnseen(operands, wires')
  BY <1>1, DeviceEnter
<1>3. BranchInv' /\ GateInv'
  BY <1>1, <1>2 DEF DInv, BranchInv, GateInv
<1>4. OperandsCarryTheirQubit' /\ RoutedOnEdges'
  BY <1>1 DEF DInv, OperandsCarryTheirQubit, RoutedOnEdges
<1>. QED
  BY <1>1, <1>2, <1>3, <1>4 DEF DInv

\* After the branch each result is in the slot the arm taken left it in; if the arms
\* agree that is the slot of the layout kept, whichever was taken.
LEMMA DeviceFinishElse ==
  ASSUME DInv, IInv', FinishElse
  PROVE  DInv'
<1>. DEFINE b == saved[1]
            t == saved[2]
            z == Snapshot
<1>1. /\ operands \in SUBSET Qubits /\ KnownIn(t) /\ KnownIn(z)
      /\ NoneInner(b.wires) /\ OutsidersUnseen(operands, b.wires)
      /\ OutsidersUnseen(operands, t.wires) /\ OutsidersUnseen(operands, z.wires)
      /\ z.layout = layout /\ z.diverged = diverged
  BY DEF DInv, IInv, TypeOK, BranchInv, FinishElse, Snapshot, KnownIn
<1>2. /\ pc = "else" /\ pc' = "top" /\ gate = None /\ gate' = gate
      /\ out' = Emitted("yield", EachOf(operands), FALSE)
      /\ \E arm \in {t, z} : wires' = AfterBranch(arm) /\ content' = arm.content
      /\ Agreed => layout' = t.layout
      /\ ~Agreed => diverged' = TRUE
  BY DEF FinishElse
<1>3. PICK arm \in {t, z} : wires' = AfterBranch(arm) /\ content' = arm.content
  BY <1>2
<1>4. /\ Bijective(t.layout) /\ Bijective(layout) /\ t.layout \in Layout /\ layout \in Layout
  <2>1. saved \in Seq(Snap) /\ Len(saved) = 2 /\ 2 \in DOMAIN saved /\ layout \in Layout
    BY DEF DInv, IInv, TypeOK, FinishElse
  <2>2. Bijective(t.layout) /\ Bijective(layout)
    BY <2>1 DEF DInv, IInv, Sound
  <2>3. t \in Snap
    BY <2>1, ElementOfSeq
  <2>. QED
    BY <2>1, <2>2, <2>3 DEF Snap
<1>5. /\ KnownIn(arm) /\ OutsidersUnseen(operands, arm.wires)
      /\ Agreed => /\ arm.layout.map = t.layout.map /\ ~arm.diverged
                   /\ Bijective(arm.layout) /\ arm.layout \in Layout
  BY <1>1, <1>3, <1>4 DEF Agreed
<1>. HIDE DEF b, t, z
<1>6. \A q \in Qubits : /\ wires'[q].slot = arm.wires[q].slot
                        /\ wires'[q].live /\ ~wires'[q].inner
  <2>1. ASSUME NEW q \in operands
        PROVE  wires'[q] = [slot |-> arm.wires[q].slot, live |-> TRUE, inner |-> FALSE]
    BY <1>1, <1>3 DEF AfterBranch
  <2>2. ASSUME NEW q \in Qubits \ operands
        PROVE  wires'[q].slot = arm.wires[q].slot /\ wires'[q].live /\ ~wires'[q].inner
    <3>1. b.wires[q] = Fresh /\ arm.wires[q] = Fresh
      BY <1>1, <1>5 DEF OutsidersUnseen
    <3>2. wires'[q] = [b.wires[q] EXCEPT !.live = @ /\ arm.wires[q] = b.wires[q]]
      BY <1>3 DEF AfterBranch, b
    <3>3. Fresh \in Wire /\ Fresh.live /\ ~Fresh.inner
      <4>1. Fresh.live /\ ~Fresh.inner
        BY ResultFields DEF Fresh
      <4>2. Fresh \in Wire
        BY DEF Fresh, Wire
      <4>. QED
        BY <4>1, <4>2
    <3>4. (b.wires[q].live /\ arm.wires[q] = b.wires[q]) = TRUE
      BY <3>1, <3>3
    <3>5. wires'[q] = [b.wires[q] EXCEPT !.live = TRUE]
      BY <3>2, <3>4, Zenon
    <3>6. /\ [b.wires[q] EXCEPT !.live = TRUE].slot = Fresh.slot
          /\ [b.wires[q] EXCEPT !.live = TRUE].live = TRUE
          /\ [b.wires[q] EXCEPT !.live = TRUE].inner = Fresh.inner
      BY <3>1, <3>3 DEF Wire
    <3>. QED
      BY <3>1, <3>3, <3>5, <3>6
  <2>4. ASSUME NEW q \in operands
        PROVE  wires'[q].slot = arm.wires[q].slot /\ wires'[q].live /\ ~wires'[q].inner
    <3>1. wires'[q] = [slot |-> arm.wires[q].slot, live |-> TRUE, inner |-> FALSE]
      BY <2>1
    <3>. QED
      BY <3>1, ResultFields, Zenon
  <2>. QED
    BY <2>2, <2>4
<1>7. Reads(wires', content')
  BY <1>3, <1>5, <1>6 DEF KnownIn, Known, Reads
<1>8. Agreed => OnDevice(layout', wires', content')
  <2>. SUFFICES ASSUME Agreed
                PROVE  OnDevice(t.layout, wires', content')
    BY <1>2
  <2>1. OnDevice(arm.layout, arm.wires, arm.content)
    BY <1>5 DEF KnownIn, Known
  <2>2. ASSUME NEW s \in Slots
        PROVE  arm.layout.inv[s] = t.layout.inv[s]
    <3>1. /\ arm.layout.inv[s] \in Qubits \cup {None} /\ t.layout.inv[s] \in Qubits \cup {None}
      BY <1>4, <1>5 DEF Layout
    <3>2. \A q \in Qubits : arm.layout.inv[s] = q <=> t.layout.inv[s] = q
      BY <1>4, <1>5 DEF Bijective
    <3>. QED
      BY <3>1, <3>2
  <2>. QED
    BY <1>3, <1>5, <1>6, <2>1, <2>2 DEF OnDevice
<1>9. Known(layout', wires', content', diverged')
  BY <1>2, <1>7, <1>8 DEF Known
<1>10. BranchInv' /\ GateInv'
  BY <1>2, <1>6 DEF BranchInv, GateInv, NoneInner
<1>11. OperandsCarryTheirQubit' /\ RoutedOnEdges'
  BY <1>1, <1>2, EachOfIsFunction, EmittedCarries, Unrouted
<1>. QED
  BY <1>9, <1>10, <1>11 DEF DInv

--------------------------------------------------------------------------------

\* The device invariant holds in the initial states.
LEMMA DeviceInit ==
  ASSUME Init
  PROVE  DInv
<1>1. Known(layout, wires, content, diverged)
  BY DEF Init, Known, Reads, OnDevice, NoLayout, Fresh
<1>2. BranchInv /\ GateInv
  BY DEF Init, BranchInv, GateInv, NoneInner, Fresh
<1>3. OperandsCarryTheirQubit /\ RoutedOnEdges
  BY DEF Init, NoOp, OperandsCarryTheirQubit, RoutedOnEdges
<1>. QED
  BY <1>1, <1>2, <1>3, InitIInv DEF DInv

\* Every step keeps the device invariant when regions take every qubit in use.
LEMMA DeviceNext ==
  ASSUME DInv, ~PartialRegions, [Next]_vars
  PROVE  DInv'
<1>1. IInv'
  BY NextIInv DEF DInv
<1>2. ASSUME NEW q \in Qubits, LocalGate(q)
      PROVE  DInv'
  BY <1>1, <1>2, DeviceLocalGate
<1>3. ASSUME NEW a \in Qubits, NEW b \in Qubits, StartGate(a, b) \/ UnroutedGate(a, b)
      PROVE  DInv'
  BY <1>1, <1>3, DeviceStartGate, DeviceUnroutedGate
<1>4. CASE SwapStep \/ FinishGate \/ NoSwap
  BY <1>1, <1>4, DeviceSwapStep, DeviceFinishGate, DeviceNoSwap
<1>5. ASSUME NEW S \in RegionOperands, EnterRegion(S) \/ EnterThen(S)
      PROVE  DInv'
  BY <1>1, <1>5, DeviceEnterRegion, DeviceEnterThen
<1>6. CASE LeaveRegion \/ FinishThen \/ EnterElse \/ FinishElse
  BY <1>1, <1>6, DeviceLeaveRegion, DeviceFinishThen, DeviceEnterElse, DeviceFinishElse
<1>7. CASE DeviceTooSmall
  <2>1. /\ gate = None /\ pc' = "failed"
        /\ UNCHANGED <<layout, diverged, wires, gate, out, content>>
    BY <1>7 DEF DeviceTooSmall, MoreOps
  <2>2. BranchInv' /\ GateInv'
    BY <2>1 DEF BranchInv, GateInv
  <2>. QED
    BY <1>1, <2>1, <2>2 DEF DInv, OperandsCarryTheirQubit, RoutedOnEdges
<1>8. CASE Return
  <2>1. /\ gate = None /\ pc \in {"top", "func"} /\ pc' = "done"
        /\ out' = Emitted("return", EachOf(Qubits), FALSE)
        /\ UNCHANGED <<layout, diverged, wires, gate, content>>
    BY <1>8 DEF Return
  <2>2. BranchInv' /\ GateInv'
    BY <2>1 DEF BranchInv, GateInv
  <2>3. OperandsCarryTheirQubit' /\ RoutedOnEdges'
    BY <2>1, EachOfIsFunction, EmittedCarries, Unrouted
  <2>. QED
    BY <1>1, <2>1, <2>2, <2>3 DEF DInv
<1>9. CASE UNCHANGED vars
  <2>1. UNCHANGED <<layout, nextPhys, diverged, wires, pc, operands, gate, saved, ops, out, content>>
    BY <1>9 DEF vars
  <2>2. BranchInv'
    BY <2>1 DEF DInv, BranchInv
  <2>3. GateInv'
    <3>1. Ends' = Ends /\ Apart' = Apart
      BY <2>1 DEF Ends, Apart
    <3>. QED
      BY <2>1, <3>1 DEF DInv, GateInv
  <2>. QED
    BY <1>1, <2>1, <2>2, <2>3 DEF DInv, OperandsCarryTheirQubit, RoutedOnEdges
<1>. QED
  BY <1>2, <1>3, <1>4, <1>5, <1>6, <1>7, <1>8, <1>9 DEF Next

\* So it holds in every reachable state.
LEMMA DeviceInvariant ==
  ASSUME ~PartialRegions
  PROVE  Spec => []DInv
<1>1. DInv /\ [Next]_vars => DInv'
  BY DeviceNext
<1>. QED
  BY <1>1, DeviceInit, PTL DEF Spec

\* Every operation, terminator and inserted SWAP reads each qubit from a live value in
\* scope that holds that qubit's state, on every device and for every program.
THEOREM OperandsCorrect ==
  ASSUME ~PartialRegions
  PROVE  Spec => []OperandsCarryTheirQubit
<1>1. DInv => OperandsCarryTheirQubit
  BY DEF DInv
<1>2. Spec => []DInv
  BY DeviceInvariant
<1>. QED
  BY <1>1, <1>2, PTL

\* A routed gate, or SWAP, acts on the two ends of an edge of the device.
THEOREM RoutedCorrect ==
  ASSUME ~PartialRegions
  PROVE  Spec => []RoutedOnEdges
<1>1. DInv => RoutedOnEdges
  BY DEF DInv
<1>2. Spec => []DInv
  BY DeviceInvariant
<1>. QED
  BY <1>1, <1>2, PTL

\* While no branch has diverged the layout is what the device holds.
THEOREM DeviceCorrect ==
  ASSUME ~PartialRegions
  PROVE  Spec => []LayoutIsTheDevice
<1>1. DInv => LayoutIsTheDevice
  BY DEF DInv, Known, OnDevice, LayoutIsTheDevice
<1>2. Spec => []DInv
  BY DeviceInvariant
<1>. QED
  BY <1>1, <1>2, PTL

\* On a connected device whose slots are all taken no gate is refused.
THEOREM RefusalCorrect ==
  ASSUME ~PartialRegions
  PROVE  Spec => []RefusesOnlyPartlyFilled
<1>1. DInv => RefusesOnlyPartlyFilled
  <2>. SUFFICES ASSUME DInv, pc = "failed", gate # None, Connected, Occupied = Slots
                PROVE  FALSE
    BY DEF RefusesOnlyPartlyFilled
  <2>1. Apart /\ BestSwaps(layout, Ends[1], Ends[2]) = {}
    BY DEF DInv, GateInv
  <2>2. Ends[1] \in Slots /\ Ends[2] \in Slots
    <3>1. /\ layout.map[gate[1]] # None /\ layout.map[gate[2]] # None
          /\ gate[1] \in Qubits /\ gate[2] \in Qubits /\ layout \in Layout
      BY DEF DInv, GateInv, IInv, TypeOK
    <3>. QED
      BY <3>1 DEF Ends, Layout
  <2>. QED
    BY <2>1, <2>2, SwapsShorten DEF Apart
<1>2. Spec => []DInv
  BY DeviceInvariant
<1>. QED
  BY <1>1, <1>2, PTL

\* On such a device every SWAP brings the two qubits of the gate nearer, so routing a
\* gate ends (the cost function may never prefer a hop that only keeps the distance).
THEOREM EverySwapHelps ==
  ASSUME ~PartialRegions
  PROVE  Spec => [][SwapStep /\ Connected /\ Occupied = Slots =>
                      Dist(Ends[1], Ends[2])' = Dist(Ends[1], Ends[2]) - 1]_vars
<1>. DEFINE Helps == SwapStep /\ Connected /\ Occupied = Slots =>
                      Dist(Ends[1], Ends[2])' = Dist(Ends[1], Ends[2]) - 1
<1>1. ASSUME DInv, SwapStep, Connected, Occupied = Slots
      PROVE  Dist(Ends[1], Ends[2])' = Dist(Ends[1], Ends[2]) - 1
  <2>1. gate # None /\ Apart /\ gate' = gate /\ BestSwaps(layout, Ends[1], Ends[2]) # {}
    BY <1>1 DEF SwapStep
  <2>2. PICK e \in BestSwaps(layout, Ends[1], Ends[2]) : layout' = SwapPhys(layout, e[1], e[2])
    BY <1>1 DEF SwapStep
  <2>3. /\ Ends[1] \in Slots /\ Ends[2] \in Slots
        /\ gate[1] \in Qubits /\ gate[2] \in Qubits
    BY <1>1, <2>1, GateFacts
  <2>4. Dist(Exchanged(Ends[1], e[1], e[2]), Exchanged(Ends[2], e[1], e[2])) = Dist(Ends[1], Ends[2]) - 1
    BY <1>1, <2>1, <2>2, <2>3, SwapsShorten DEF Apart
  <2>5. /\ Bijective(layout) /\ layout \in Layout
        /\ e[1] \in Slots /\ e[2] \in Slots /\ e[1] # e[2]
        /\ layout.inv[e[1]] # None /\ layout.inv[e[2]] # None
    BY <1>1, <2>2, RoutingAssumption DEF DInv, IInv, Sound, TypeOK, BestSwaps, CandidateSwaps
  <2>. DEFINE lu == layout.inv[e[1]]
              lv == layout.inv[e[2]]
  <2>6. /\ layout.map[lu] = e[1] /\ layout.map[lv] = e[2] /\ lu \in Qubits /\ lv \in Qubits
        /\ \A q \in Qubits : layout'.map[q] =
             IF q = lu THEN e[2] ELSE IF q = lv THEN e[1] ELSE layout.map[q]
    BY <2>2, <2>5, SwapKeeps
  <2>7. \A q \in Qubits : /\ layout.map[q] = e[1] => q = lu
                          /\ layout.map[q] = e[2] => q = lv
    BY <2>5 DEF Bijective
  <2>. HIDE DEF lu, lv
  <2>8. \A q \in Qubits : layout'.map[q] = Exchanged(layout.map[q], e[1], e[2])
    BY <2>5, <2>6, <2>7 DEF Exchanged
  <2>9. /\ Ends'[1] = Exchanged(Ends[1], e[1], e[2])
        /\ Ends'[2] = Exchanged(Ends[2], e[1], e[2])
    BY <2>1, <2>3, <2>8 DEF Ends
  <2>. QED
    BY <2>4, <2>9 DEF Dist
<1>2. DInv /\ [Next]_vars => [Helps]_vars
  BY <1>1
<1>. HIDE DEF Helps
<1>3. Spec => []DInv
  BY DeviceInvariant
<1>4. Spec => [][Helps]_vars
  BY <1>2, <1>3, PTL DEF Spec
<1>. QED
  BY <1>4 DEF Helps
================================================================================
