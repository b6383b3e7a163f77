------------------------------ MODULE SabreRouting ------------------------------
(***************************************************************************)
(* SABRE routing for devices of fixed connectivity                         *)
(* (mlir_bridge/src/passes/sabre_routing.rs).                              *)
(*                                                                         *)
(* The pass walks a block once, so the program may be chosen while it is   *)
(* walked.  An SSA value is named by the register slot it continues: a     *)
(* gate's results continue its operands' slots, a SWAP exchanges what the  *)
(* two slots hold.  What a slot really holds is the ghost "content"; the   *)
(* pass knows only its layout and, for each qubit, the value to use next.  *)
(* An error ends the model: the pass reports it and its output is dropped. *)
(* Measurements come last; a qubit measured earlier is to the pass as one  *)
(* that later regions are not given.                                       *)
(***************************************************************************)
EXTENDS Integers, Sequences, FiniteSets

CONSTANTS NumQubits,     \* qubits of the program, in the order of its register
          NumSlots,      \* physical qubits of the device
          Edges,         \* the topology, each edge as supplied
          Distance,      \* its all-pairs matrix, computed when it is loaded
          None,
          PartialRegions,\* may a region take only some of the live qubits?
          MaxOps         \* bound: operations of the program

Qubits == 0 .. NumQubits - 1
Slots == 0 .. NumSlots - 1

Near(u, v) == <<u, v>> \in Edges \/ <<v, u>> \in Edges
Unreachable == NumSlots

\* All-pairs shortest paths of the undirected graph, as the matrix that only they are:
\* a hop changes a distance by at most one, and some hop shortens it.
IsDistance ==
  /\ Distance \in [Slots \X Slots -> 0 .. NumSlots]
  /\ \A u, v \in Slots : Distance[<<u, v>>] = 0 <=> u = v
  /\ \A u, v \in Slots : Distance[<<u, v>>] = Distance[<<v, u>>]
  /\ \A u, v, w \in Slots : Near(u, w) =>
       \/ Distance[<<u, v>>] = Unreachable /\ Distance[<<w, v>>] = Unreachable
       \/ /\ Unreachable \notin {Distance[<<u, v>>], Distance[<<w, v>>]}
          /\ Distance[<<u, v>>] <= Distance[<<w, v>>] + 1
  /\ \A u, v \in Slots : u # v /\ Distance[<<u, v>>] # Unreachable =>
       \E w \in Slots : Near(u, w) /\ Distance[<<u, v>>] = Distance[<<w, v>>] + 1

ASSUME RoutingAssumption ==
  /\ NumQubits \in Nat /\ NumSlots \in Nat /\ MaxOps \in Nat
  /\ Edges \subseteq {e \in Slots \X Slots : e[1] # e[2]}
  /\ IsDistance
  /\ None \notin Qubits \cup Slots
  /\ PartialRegions \in BOOLEAN

VARIABLES layout,    \* map: slot of each qubit; inv: qubit in each slot
          nextPhys,  \* the slot the next unseen qubit gets
          diverged,  \* two arms ended in different layouts
          wires,     \* the value each qubit is read from next
          pc,        \* the block being walked; "top" is a run block, "func" a circuit
          operands,  \* the qubits passed to the region being walked
          gate,      \* the two-qubit gate being routed, or None
          saved,     \* the state at the branch, and the end of its then arm
          ops,       \* operations walked so far
          out,       \* the operation emitted last
          content    \* ghost: the qubit whose state each slot holds

vars == <<layout, nextPhys, diverged, wires, pc, operands, gate, saved, ops, out,
          content>>
unsaved == <<pc, operands, saved, ops>>

Layout == [map : [Qubits -> Slots \cup {None}], inv : [Slots -> Qubits \cup {None}]]
Wire == [slot : Slots \cup {None}, live : BOOLEAN, inner : BOOLEAN]
Fresh == [slot |-> None, live |-> TRUE, inner |-> FALSE]
NoLayout == [map |-> [q \in Qubits |-> None], inv |-> [s \in Slots |-> None]]
NoOp == [op |-> "none", qubits |-> <<>>, carried |-> <<>>, slots |-> <<>>, routed |-> FALSE]

Init ==
  /\ layout = NoLayout /\ nextPhys = 0 /\ diverged = FALSE
  /\ wires = [q \in Qubits |-> Fresh]
  /\ pc \in {"top", "func"} /\ operands = {} /\ gate = None /\ saved = <<>> /\ ops = 0
  /\ out = NoOp
  /\ content = [s \in Slots |-> None]

--------------------------------------------------------------------------------

Dist(u, v) == Distance[<<u, v>>]

Exchanged(p, u, v) == IF p = u THEN v ELSE IF p = v THEN u ELSE p

\* Mutant: only an edge between the two ends is considered.
CandidateSwapsBetween(l, a, b) == {e \in Edges : {e[1], e[2]} = {a, b}}

\* Edges at one end of the gate, both slots occupied, that do not lengthen it.
CandidateSwaps(l, a, b) ==
  {e \in Edges :
     /\ {e[1], e[2]} \cap {a, b} # {}
     /\ l.inv[e[1]] # None /\ l.inv[e[2]] # None
     /\ Dist(Exchanged(a, e[1], e[2]), Exchanged(b, e[1], e[2])) <= Dist(a, b)}

\* Mutant: a SWAP that shortens nothing is as good as one that does.
BestSwapsOfAll(l, a, b) == CandidateSwaps(l, a, b)

\* The shortest distance wins.  Lookahead and noise only choose among edges that
\* reach it, so here any of them may be chosen.
BestSwaps(l, a, b) ==
  LET after(e) == Dist(Exchanged(a, e[1], e[2]), Exchanged(b, e[1], e[2]))
  IN {e \in CandidateSwaps(l, a, b) :
        \A f \in CandidateSwaps(l, a, b) : after(e) <= after(f)}

\* Mutant: the slots are not told of the exchange.
SwapPhysMapOnly(l, u, v) ==
  [l EXCEPT !.map = [q \in Qubits |-> CASE l.inv[u] = q -> v
                                       [] l.inv[v] = q -> u
                                       [] OTHER -> l.map[q]]]

SwapPhys(l, u, v) ==
  [map |-> [q \in Qubits |-> CASE l.inv[u] = q -> v
                               [] l.inv[v] = q -> u
                               [] OTHER -> l.map[q]],
   inv |-> [l.inv EXCEPT ![u] = l.inv[v], ![v] = l.inv[u]]]

\* The unplaced qubits of S take the slots from nextPhys on, in register order.
NewSlots(S) ==
  LET new == {q \in S : layout.map[q] = None}
  IN [q \in new |-> nextPhys + Cardinality({r \in new : r < q})]
\* Mutant: off by one.
FitsOneMore(S) == nextPhys + Cardinality({q \in S : layout.map[q] = None}) <= NumSlots + 1
Fits(S) == nextPhys + Cardinality({q \in S : layout.map[q] = None}) <= NumSlots
Taken(new, s, old) == IF \E q \in DOMAIN new : new[q] = s
                      THEN CHOOSE q \in DOMAIN new : new[q] = s ELSE old

Inside == pc \in {"region", "then", "else"}
Visible == IF Inside THEN operands ELSE Qubits

\* The qubit whose state reading q's value really yields.
Carried(q) ==
  LET w == wires[q]
  IN IF ~w.live \/ (w.inner /\ ~Inside) THEN None
     ELSE IF w.slot = None THEN q ELSE content[w.slot]

\* Consuming the values of the qubits of S leaves every other use of them stale.
\* The results continue the slots "slot" gives.
Consumed(S, slot, inner) ==
  [q \in Qubits |->
     IF q \in S THEN [slot |-> slot[q], live |-> TRUE, inner |-> inner]
     ELSE IF wires[q].slot # None /\ \E r \in S : wires[r].slot = wires[q].slot
     THEN [wires[q] EXCEPT !.live = FALSE]
     ELSE wires[q]]

\* A terminator takes one operand for each qubit it returns.
EachOf(S) == [q \in S |-> q]

SlotOfWire == [q \in Qubits |-> wires[q].slot]

Emitted(op, qs, routed) ==
  [op |-> op, qubits |-> qs, carried |-> [i \in DOMAIN qs |-> Carried(qs[i])],
   slots |-> [i \in DOMAIN qs |-> wires[qs[i]].slot], routed |-> routed]

--------------------------------------------------------------------------------

MoreOps == ops < MaxOps /\ pc \in {"top", "func", "region", "then", "else"} /\ gate = None
\* A run block prepares single qubits; gates of two are in the regions it applies.
InCircuit == pc # "top"

\* Place the qubits of S.  The value each was read from, and its state, are in the
\* slot it gets.
Place(new) ==
  /\ layout' = [map |-> [q \in Qubits |-> IF q \in DOMAIN new THEN new[q] ELSE layout.map[q]],
                inv |-> [s \in Slots |-> Taken(new, s, layout.inv[s])]]
  /\ nextPhys' = nextPhys + Cardinality(DOMAIN new)
  /\ content' = [s \in Slots |-> Taken(new, s, content[s])]

PlacedWires(new) ==
  [q \in Qubits |-> IF q \in DOMAIN new THEN [wires[q] EXCEPT !.slot = new[q]] ELSE wires[q]]

\* A one-qubit gate: operands are read from the wires, never routed.
LocalGate(q) ==
  /\ MoreOps /\ q \in Visible /\ (diverged \/ Fits({q}))
  /\ IF diverged
     THEN /\ wires' = Consumed({q}, SlotOfWire, Inside)
          /\ UNCHANGED <<layout, nextPhys, content>>
     ELSE LET new == NewSlots({q})
          IN /\ Place(new)
             /\ wires' = [PlacedWires(new) EXCEPT ![q].live = TRUE, ![q].inner = Inside]
  /\ out' = Emitted("local", <<q>>, FALSE)
  /\ ops' = ops + 1
  /\ UNCHANGED <<diverged, pc, operands, gate, saved>>

\* After a branch whose arms disagree a gate is left where it is.
UnroutedGate(a, b) ==
  /\ MoreOps /\ InCircuit /\ diverged /\ {a, b} \subseteq Visible /\ a # b
  /\ wires' = Consumed({a, b}, SlotOfWire, Inside)
  /\ out' = Emitted("gate", <<a, b>>, FALSE)
  /\ ops' = ops + 1
  /\ UNCHANGED <<layout, nextPhys, diverged, pc, operands, gate, saved, content>>

\* A two-qubit gate: its qubits are placed, and it is routed.
StartGate(a, b) ==
  /\ MoreOps /\ InCircuit /\ ~diverged
  /\ {a, b} \subseteq Visible /\ a # b /\ Fits({a, b})
  /\ LET new == NewSlots({a, b})
     IN Place(new) /\ wires' = PlacedWires(new)
  /\ gate' = <<a, b>>
  /\ ops' = ops + 1
  /\ UNCHANGED <<diverged, pc, operands, saved, out>>

Ends == <<layout.map[gate[1]], layout.map[gate[2]]>>
\* Mutant: two hops are taken for one.
ApartByTwo == Dist(Ends[1], Ends[2]) > 2
Apart == Dist(Ends[1], Ends[2]) > 1

\* The result that continues slot su carries the qubit that was in sv: each qubit's
\* next value is the other result.
\* Mutant: each qubit goes on in its own slot.
SwapOutputsStraight(lu, su, sv) == [q \in Qubits |-> IF q = lu THEN su ELSE sv]
SwapOutputs(lu, su, sv) == [q \in Qubits |-> IF q = lu THEN sv ELSE su]

SwapStep ==
  /\ gate # None /\ Apart
  /\ \E e \in BestSwaps(layout, Ends[1], Ends[2]) :
       LET lu == layout.inv[e[1]]
           lv == layout.inv[e[2]]
           su == wires[lu].slot
           sv == wires[lv].slot
       IN /\ layout' = SwapPhys(layout, e[1], e[2])
          /\ content' = [content EXCEPT ![su] = content[sv], ![sv] = content[su]]
          /\ wires' = Consumed({lu, lv}, SwapOutputs(lu, su, sv), Inside)
          /\ out' = Emitted("swap", <<lu, lv>>, TRUE)
  /\ UNCHANGED <<nextPhys, diverged, gate>> /\ UNCHANGED unsaved

FinishGate ==
  /\ gate # None /\ ~Apart
  /\ wires' = Consumed({gate[1], gate[2]}, SlotOfWire, Inside)
  /\ out' = Emitted("gate", gate, TRUE)
  /\ gate' = None
  /\ UNCHANGED <<layout, nextPhys, diverged, content>> /\ UNCHANGED unsaved

\* "no legal swap candidate".
NoSwap ==
  /\ gate # None /\ Apart /\ BestSwaps(layout, Ends[1], Ends[2]) = {}
  /\ pc' = "failed"
  /\ UNCHANGED <<layout, nextPhys, diverged, wires, operands, gate, saved, ops, out, content>>

--------------------------------------------------------------------------------

\* The frontend passes a region the qubits its circuit is applied to.
RegionOperands ==
  {S \in SUBSET Qubits \ {{}} :
     PartialRegions \/ {q \in Qubits : layout.map[q] # None \/ wires[q] # Fresh} \subseteq S}

\* The block's arguments are the qubits' values inside the region.  The operands
\* themselves are not resynced: one whose value was left in an earlier region stays stale.
EnteredWire(w) == [w EXCEPT !.inner = TRUE, !.live = @ /\ ~w.inner]

Enter(S) ==
  /\ IF diverged
     THEN /\ UNCHANGED <<layout, nextPhys, content>>
          /\ wires' = [q \in Qubits |-> IF q \in S THEN EnteredWire(wires[q]) ELSE wires[q]]
     ELSE LET new == NewSlots(S)
          IN /\ Fits(S)
             /\ Place(new)
             /\ wires' = [q \in Qubits |-> IF q \in S THEN EnteredWire(PlacedWires(new)[q]) ELSE wires[q]]
  /\ operands' = S

EnterRegion(S) ==
  /\ MoreOps /\ pc = "top"
  /\ Enter(S)
  /\ pc' = "region" /\ ops' = ops + 1
  /\ UNCHANGED <<diverged, gate, saved, out>>

\* A region's terminator is resynced, and the region's results are the values
\* its operands' qubits have from then on.
Returned(w, S) ==
  [q \in Qubits |-> IF q \in S THEN [slot |-> w[q].slot, live |-> TRUE, inner |-> FALSE] ELSE w[q]]

LeaveRegion ==
  /\ pc = "region" /\ gate = None
  /\ wires' = Returned(wires, operands)
  /\ out' = Emitted("yield", EachOf(operands), FALSE)
  /\ pc' = "top" /\ operands' = {}
  /\ UNCHANGED <<layout, nextPhys, diverged, gate, saved, ops, content>>

Snapshot == [layout |-> layout, nextPhys |-> nextPhys, diverged |-> diverged,
             wires |-> wires, content |-> content]

EnterThen(S) ==
  /\ MoreOps /\ pc = "top"
  /\ Enter(S)
  /\ saved' = <<Snapshot>>
  /\ pc' = "then" /\ ops' = ops + 1
  /\ UNCHANGED <<diverged, gate, out>>

\* Each arm is routed from the layout at the branch.
FinishThen ==
  /\ pc = "then" /\ gate = None
  /\ out' = Emitted("yield", EachOf(operands), FALSE)
  /\ saved' = Append(saved, Snapshot)
  /\ layout' = saved[1].layout /\ nextPhys' = saved[1].nextPhys
  /\ diverged' = saved[1].diverged
  /\ wires' = saved[1].wires /\ content' = saved[1].content
  /\ pc' = "arms"
  /\ UNCHANGED <<operands, gate, ops>>

EnterElse ==
  /\ pc = "arms"
  /\ Enter(operands)
  /\ pc' = "else"
  /\ UNCHANGED <<diverged, gate, saved, ops, out>>

\* After the branch the values are those before it, but for the results.  At run
\* time either arm was taken: its slots are the ones the results continue, and a
\* value it consumed is gone.
AfterBranch(arm) ==
  [q \in Qubits |->
     IF q \in operands THEN [slot |-> arm.wires[q].slot, live |-> TRUE, inner |-> FALSE]
     ELSE [saved[1].wires[q] EXCEPT !.live = @ /\ arm.wires[q] = saved[1].wires[q]]]

\* Mutant: the permutations of the two arms are not compared.
AgreedAlways == ~saved[2].diverged /\ ~diverged
Agreed == saved[2].layout.map = layout.map /\ ~saved[2].diverged /\ ~diverged

FinishElse ==
  /\ pc = "else" /\ gate = None
  /\ out' = Emitted("yield", EachOf(operands), FALSE)
  /\ \E arm \in {saved[2], Snapshot} :
       wires' = AfterBranch(arm) /\ content' = arm.content
  /\ IF Agreed
     THEN /\ layout' = saved[2].layout
          /\ nextPhys' = IF saved[2].nextPhys > nextPhys THEN saved[2].nextPhys ELSE nextPhys
          /\ diverged' = saved[1].diverged
     ELSE /\ layout' = NoLayout /\ diverged' = TRUE
          /\ UNCHANGED nextPhys
  /\ pc' = "top" /\ operands' = {} /\ saved' = <<>>
  /\ UNCHANGED <<gate, ops>>

\* "exceeds physical device size": an operation with more unseen qubits than slots.
DeviceTooSmall ==
  /\ MoreOps /\ ~diverged
  /\ \E S \in SUBSET Visible :
       /\ ~Fits(S)
       /\ IF InCircuit THEN Cardinality(S) <= 2
          ELSE Cardinality(S) = 1 \/ S \in RegionOperands
  /\ pc' = "failed"
  /\ UNCHANGED <<layout, nextPhys, diverged, wires, operands, gate, saved, ops, out, content>>

\* A circuit's terminator is resynced like a gate.  A run block ends with measurements,
\* which name the results of its regions.
Return ==
  /\ pc \in {"top", "func"} /\ gate = None
  /\ out' = Emitted("return", EachOf(Qubits), FALSE)
  /\ pc' = "done"
  /\ UNCHANGED <<layout, nextPhys, diverged, wires, operands, gate, saved, ops, content>>

Next ==
  \/ \E q \in Qubits : LocalGate(q)
  \/ \E a, b \in Qubits : StartGate(a, b) \/ UnroutedGate(a, b)
  \/ SwapStep \/ FinishGate \/ NoSwap
  \/ \E S \in RegionOperands : EnterRegion(S) \/ EnterThen(S)
  \/ LeaveRegion \/ FinishThen \/ EnterElse \/ FinishElse
  \/ DeviceTooSmall
  \/ Return

\* The pass is a loop of one thread: it never stops between two steps of a gate.
Spec == Init /\ [][Next]_vars /\ WF_vars(SwapStep \/ FinishGate \/ NoSwap)

--------------------------------------------------------------------------------

Snap == [layout : Layout, nextPhys : 0 .. NumSlots, diverged : BOOLEAN,
         wires : [Qubits -> Wire], content : [Slots -> Qubits \cup {None}]]

TypeOK ==
  /\ layout \in Layout /\ nextPhys \in 0 .. NumSlots /\ diverged \in BOOLEAN
  /\ wires \in [Qubits -> Wire]
  /\ content \in [Slots -> Qubits \cup {None}]
  /\ pc \in {"top", "func", "region", "then", "arms", "else", "done", "failed"}
  /\ operands \subseteq Qubits
  /\ gate \in {None} \cup (Qubits \X Qubits)
  /\ Len(saved) <= 2 /\ \A i \in DOMAIN saved : saved[i] \in Snap
  /\ ops \in 0 .. MaxOps

\* The two halves of the layout agree: a qubit is in the slot that names it, and no
\* slot is given twice (Layout: assign, swap_phys, clear and the branch's restore).
LayoutIsABijection ==
  \A q \in Qubits, s \in Slots : layout.map[q] = s <=> layout.inv[s] = q

\* Every operation the pass emits or resyncs, the terminators and its own SWAPs
\* included, reads for each qubit a value that is in scope, that nothing consumed,
\* and that holds that qubit's state, whoever was swapped as a bystander meanwhile
\* ("otherwise this gate would silently operate on a value the inserted SWAP has
\* already consumed").
OperandsCarryTheirQubit == out.carried = out.qubits

\* A routed two-qubit gate, or SWAP, acts on the two ends of an edge: on the slots
\* its operands really are in, not only on those the layout gives.
RoutedOnEdges == out.routed => Near(out.slots[1], out.slots[2])

\* While no branch has diverged the layout is what the device holds, whichever arm
\* of each branch was taken.
LayoutIsTheDevice ==
  ~diverged => \A s \in Slots : content[s] = layout.inv[s]

Occupied == {s \in Slots : layout.inv[s] # None}
Connected == \A u, v \in Slots : Dist(u, v) # Unreachable

\* On a connected device whose slots are all occupied a gate is never refused.
RefusesOnlyPartlyFilled ==
  pc = "failed" /\ gate # None /\ Connected => Occupied # Slots

\* And routing a gate there ends: the SWAPs bring its qubits together.
RoutingEnds ==
  gate # None /\ Connected /\ Occupied = Slots ~> gate = None
================================================================================
