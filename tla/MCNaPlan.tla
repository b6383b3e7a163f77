-------------------------------- MODULE MCNaPlan --------------------------------
(***************************************************************************)
(* Model-checking instances of the planner.  Three pairs, two of them too  *)
(* close to run together; four atoms in storage, one that an earlier phase *)
(* left on a pair, three more in storage; two readout sites.  A schedule   *)
(* may also be given to the compaction as another backend or caller would: *)
(* any few layers of a catalogue, with any dependency.                     *)
(***************************************************************************)
EXTENDS NaPlan, TLC

CONSTANTS MaxLayers,    \* bound: layers of a circuit; one more for each round
          MaxGates,     \* bound: gates of the program
          MaxRounds,    \* bound: QEC rounds
          MaxGiven      \* bound: layers of a schedule that is given

\* Sites 0-7 are storage, 8 9 | 10 11 | 12 13 the pairs, 14 and 15 readout.
MCSites == 0 .. 15
MCPairs == {<<8, 9>>, <<10, 11>>, <<12, 13>>}
MCReadout == {14, 15}
Xs == <<0, 4, 8, 12, 16, 20, 24, 28, 4, 6, 9, 11, 16, 18, 0, 4>>
Ys == <<0, 0, 0, 0, 0, 0, 0, 0, 10, 10, 10, 10, 10, 10, 20, 20>>
MCX == [s \in MCSites |-> Xs[s + 1]]
MCY == [s \in MCSites |-> Ys[s + 1]]
MCStart == [a \in Atoms |-> IF a = 4 THEN 10 ELSE a]
MCClose == {{9, 10}} \cup {{s} : s \in MCSites}

Layers == {<<<<2, 1>>>>, <<<<2, 4>>>>, <<<<2, 3>>>>, <<<<0, 1>>, <<2, 3>>>>}
TooWide == <<<<0, 1>>, <<2, 3>>, <<4, 5>>, <<6, 7>>>>
Locals == {{Act("local", {1})}, {Act("ry", {})}}
Terminals == {{Act("measure", {1}), Act("reset", {1})}, {Act("measure", {1})}}
TooMany == {Act("measure", {a}) : a \in 0 .. 2}

GateCount ==
  LET upTo[k \in 0 .. Len(program)] ==
        IF k = 0 THEN 0 ELSE upTo[k - 1] + Cardinality(Gates(program[k]))
  IN upTo[Len(program)]

Catalogue ==
  {{Act("entangle", {0, 1})}, {Act("entangle", {2, 3})}, {Act("entangle", {1, 2})},
   {Act("entangle", {0, 1}), Act("entangle", {2, 3})},
   {Act("entangle", {0, 1}), Act("entangle", {1, 2})},
   {ActAt("move", 3, 10), ActAt("move", 1, 9)}, {Act("measure", {0})}, {Act("ry", {})},
   {Act("local", {2}), Act("wait", {})}}

VARIABLE given  \* the schedule being given

mcvars == <<vars, given>>

MCInit == Init /\ given = <<>>

GiveLayer ==
  /\ stage = "idle" /\ program = <<>> /\ step = "ready" /\ Len(given) < MaxGiven
  /\ \E layer \in Catalogue : given' = Append(given, layer)
  /\ UNCHANGED vars

Give ==
  /\ given # <<>> /\ given' = <<>>
  /\ \/ CompactForeign(given, {})
     \/ \E i, j \in 1 .. Len(given) + 1, k \in {"Barrier", "FeedForward"} :
          CompactForeign(given, {Dep(i, j, k)})

PlanLayer ==
  \/ \E gates \in {g \in Layers : GateCount + Len(g) <= MaxGates} \cup {TooWide} :
       PlanGates(gates, {})
  \/ rounds = 0 /\ \E layer \in Locals : PlanLocal(layer)
  \/ rounds > 0 /\ PlanLocal({Act("wait", {})})
  \/ rounds < MaxRounds /\ \E acts \in Terminals \cup {TooMany} : EndRound(acts)

MCNext ==
  \/ /\ given = <<>> /\ UNCHANGED given
     /\ \/ Len(program) < MaxLayers + rounds /\ PlanLayer
        \/ Compact
        \/ \E measured \in {{1}, {0, 2}} : TerminalMeasure(measured)
        \/ PlanStep
  \/ GiveLayer \/ Give
  \/ (stage = "refused" \/ (stage = "done" /\ step = "ready")) /\ UNCHANGED mcvars

MCSpec == MCInit /\ [][MCNext]_mcvars
================================================================================
