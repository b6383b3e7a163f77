------------------------------ MODULE NaCompaction ------------------------------
(***************************************************************************)
(* Schedule compaction (quon_na/src/compaction.rs): the exclusive-cycle    *)
(* ASAP baseline, the greedy merge of entangling layers and the critical   *)
(* path report, with the options both callers use (order only, isolation   *)
(* checked by replaying the moves).                                        *)
(*                                                                         *)
(* A layer is a set of actions; a layer of the output also knows its cycle *)
(* and the input layers it stands for (the lineage vector).  Layers are    *)
(* numbered from 1, cycles from 0.                                         *)
(***************************************************************************)
EXTENDS Integers, SequencesExt

CONSTANTS Atoms, Sites,
          None,
          Start,  \* the site each atom is declared to start at
          Close   \* the pairs of sites that are not isolated from each other

Ops == {"entangle", "move", "load", "store", "local", "measure", "reset", "reuse", "ry", "wait"}

ASSUME CompactionAssumption ==
  /\ None \notin Sites
  /\ Start \in [Atoms -> Sites]
  /\ Close \subseteq SUBSET Sites /\ \A s \in Sites : {s} \in Close

Action == [op : Ops, atoms : SUBSET Atoms, to : Sites \cup {None}]
Act(op, S) == [op |-> op, atoms |-> S, to |-> None]
ActAt(op, a, s) == [op |-> op, atoms |-> {a}, to |-> s]
Kinds == {"AtomHazard", "Barrier", "Measurement", "FeedForward"}
Dep(b, a, kind) == [before |-> b, after |-> a, kind |-> kind]

VARIABLES stage,   \* the pass that runs next
          input,   \* the layers submitted, as sets of actions
          deps,    \* the inferred dependencies and the caller's
          asap,    \* the cycle of each input layer placed so far
          layers,  \* the layers of the output
          report   \* the critical path report

cvars == <<stage, input, deps, asap, layers, report>>

NoReport == [length |-> 0, critical |-> {}]

CompactionInit ==
  /\ stage = "idle" /\ input = <<>> /\ deps = {} /\ asap = <<>>
  /\ layers = <<>> /\ report = NoReport

--------------------------------------------------------------------------------

Has(layer, op) == \E x \in layer : x.op = op
LayerAtoms(layer) == UNION {x.atoms : x \in layer}

\* The layers that use an atom.  A GlobalRy rotates the whole plane: it uses every
\* atom of the schedule.
\* Mutant: only those that name it.
UsersNamed(ls, a) == {i \in DOMAIN ls : a \in LayerAtoms(ls[i])}
Users(ls, a) ==
  {i \in DOMAIN ls :
     \/ a \in LayerAtoms(ls[i])
     \/ Has(ls[i], "ry") /\ \E k \in DOMAIN ls : a \in LayerAtoms(ls[k])}

Consecutive(S) == {p \in S \X S : p[1] < p[2] /\ \A k \in S : (k <= p[1] \/ p[2] <= k)}

\* Consecutive uses of an atom.
AtomHazards(ls) ==
  UNION {{Dep(p[1], p[2], "AtomHazard") : p \in Consecutive(Users(ls, a))} : a \in Atoms}

\* A Barrier cuts the schedule at its first layer.
BarrierCut(ls, b) ==
  {Dep(i, b, "Barrier") : i \in 1 .. b - 1}
    \cup {Dep(b, j, "Barrier") : j \in b + 1 .. Len(ls)}
    \cup {Dep(i, j, "Barrier") : i \in 1 .. b - 1, j \in b + 1 .. Len(ls)}

MergedDeps(ls, caller) ==
  AtomHazards(ls) \cup caller
    \cup UNION {BarrierCut(ls, d.before) : d \in {e \in caller : e.kind = "Barrier"}}

\* Mutant: the later layer is not looked at.
InRangeBefore(ls, caller) == \A d \in caller : d.before \in DOMAIN ls /\ d.before # d.after
InRange(ls, caller) ==
  \A d \in caller : {d.before, d.after} \subseteq DOMAIN ls /\ d.before # d.after

\* compact_schedule is called.  An empty schedule and a dependency that names no
\* layer are refused; one that points backwards is not.
Submit(ls, caller) ==
  /\ stage = "idle"
  /\ IF ls # <<>> /\ InRange(ls, caller)
     THEN stage' = "asap" /\ input' = ls /\ deps' = MergedDeps(ls, caller)
     ELSE stage' = "refused" /\ UNCHANGED <<input, deps>>
  /\ UNCHANGED <<asap, layers, report>>

--------------------------------------------------------------------------------

MaxOf(S) == IF S = {} THEN 0 ELSE CHOOSE m \in S : \A n \in S : n <= m

Preds(i) == {d.before : d \in {e \in deps : e.after = i}}

\* A cycle the loop has not assigned yet reads as zero.
CycleSoFar(p) == IF p \in DOMAIN asap THEN asap[p] ELSE 0

\* Mutant: layers that do not depend on each other share a cycle.
TakenNever(c) == FALSE
Taken(c) == \E k \in DOMAIN asap : asap[k] = c

\* The first cycle after those of the predecessors, or the first free one behind it.
AsapStep ==
  /\ stage = "asap" /\ Len(asap) < Len(input)
  /\ LET ready == MaxOf({CycleSoFar(p) + 1 : p \in Preds(Len(asap) + 1)})
     IN \E t \in {c \in ready .. ready + Len(asap) : ~Taken(c)} :
          (\A c \in ready .. t - 1 : Taken(c)) /\ asap' = Append(asap, t)
  /\ UNCHANGED <<stage, input, deps, layers, report>>

\* Sort the layers by their cycles, which are distinct.
AtRank(k) ==
  CHOOSE i \in DOMAIN asap : Cardinality({j \in DOMAIN asap : asap[j] < asap[i]}) = k - 1

SortByCycle ==
  /\ stage = "asap" /\ Len(asap) = Len(input)
  /\ layers' = [k \in DOMAIN input |->
                  [cycle |-> asap[AtRank(k)], acts |-> input[AtRank(k)],
                   lineage |-> {AtRank(k)}]]
  /\ stage' = "merge"
  /\ UNCHANGED <<input, deps, asap, report>>

--------------------------------------------------------------------------------

Makespan(ls) ==
  IF ls = <<>> THEN 0
  ELSE 1 + CHOOSE c \in {ls[k].cycle : k \in DOMAIN ls} : \A k \in DOMAIN ls : ls[k].cycle <= c

RenumberDense(ls) ==
  LET cycles == {ls[k].cycle : k \in DOMAIN ls}
  IN [k \in DOMAIN ls |-> [ls[k] EXCEPT !.cycle = Cardinality({c \in cycles : c < @})]]

\* Layer b joins layer a, at the earlier of their cycles.
ApplyMerge(ls, a, b) ==
  LET joined == [cycle |-> IF ls[a].cycle <= ls[b].cycle THEN ls[a].cycle ELSE ls[b].cycle,
                 acts |-> ls[a].acts \cup ls[b].acts,
                 lineage |-> ls[a].lineage \cup ls[b].lineage]
      kept == [ls EXCEPT ![a] = joined]
  IN [k \in 1 .. Len(ls) - 1 |-> IF k < b THEN kept[k] ELSE kept[k + 1]]

Merged(ls, a, b) == RenumberDense(ApplyMerge(ls, a, b))

EntangleOnly(layer) ==
  Has(layer, "entangle") /\ \A x \in layer : x.op \in {"entangle", "wait"}

\* Two gates of one layer may not share an atom.
Conflicts(layer) ==
  \E x, y \in layer : x # y /\ x.op = "entangle" /\ y.op = "entangle" /\ x.atoms \cap y.atoms # {}

IsHard(d) == d.kind \in {"Barrier", "Measurement", "FeedForward"}
HardAcross(l, m) ==
  \E d \in deps : IsHard(d) /\ \/ d.before \in l.lineage /\ d.after \in m.lineage
                               \/ d.before \in m.lineage /\ d.after \in l.lineage

VertexOf(ls, i) == CHOOSE k \in DOMAIN ls : i \in ls[k].lineage
CycleOf(ls, i) == ls[VertexOf(ls, i)].cycle
\* Mutant: the hazards of third layers are forgotten.
OrderKeptIfHard(ls) == \A d \in {e \in deps : IsHard(e)} : CycleOf(ls, d.before) < CycleOf(ls, d.after)
OrderKept(ls) == \A d \in deps : CycleOf(ls, d.before) < CycleOf(ls, d.after)

\* Where an atom is at the start of a cycle, replaying the moves before it.
MovesBefore(ls, a, cycle) ==
  {k \in DOMAIN ls : ls[k].cycle < cycle /\ \E x \in ls[k].acts : x.op = "move" /\ a \in x.atoms}
SiteBefore(ls, a, cycle) ==
  LET ks == MovesBefore(ls, a, cycle)
      last == CHOOSE k \in ks : \A m \in ks : ls[m].cycle <= ls[k].cycle
  IN IF ks = {} THEN Start[a]
     ELSE (CHOOSE x \in ls[last].acts : x.op = "move" /\ a \in x.atoms).to

Gates(layer) == {x.atoms : x \in {y \in layer : y.op = "entangle"}}

\* Atoms of two gates of layer k that are not isolated where they are.
Isolated(ls, k) ==
  \A p, q \in Gates(ls[k].acts) : p # q =>
    \A a \in p, b \in q :
      {SiteBefore(ls, a, ls[k].cycle), SiteBefore(ls, b, ls[k].cycle)} \notin Close

\* The merged layer is looked up by its gates: the first layer that has them all.
FirstWith(ls, gates) ==
  CHOOSE k \in DOMAIN ls : gates \subseteq Gates(ls[k].acts)
                           /\ \A j \in 1 .. k - 1 : ~(gates \subseteq Gates(ls[j].acts))
\* Mutant: the sites the atoms started at.
BreaksIsolationAtStart(ls, union) ==
  \E p, q \in Gates(union) : p # q /\ \E a \in p, b \in q : {Start[a], Start[b]} \in Close
BreaksIsolation(ls, union) == ~Isolated(ls, FirstWith(ls, Gates(union)))

CanMerge(ls, a, b) ==
  LET union == ls[a].acts \cup ls[b].acts
  IN /\ EntangleOnly(ls[a].acts) /\ EntangleOnly(ls[b].acts)
     /\ ~HardAcross(ls[a], ls[b])
     /\ ~Conflicts(union) /\ Gates(ls[a].acts) \cap Gates(ls[b].acts) = {}
     /\ OrderKept(Merged(ls, a, b))
     /\ ~BreaksIsolation(Merged(ls, a, b), union)
     /\ Makespan(Merged(ls, a, b)) < Makespan(ls)

\* Candidates in the order of the later cycle, then of the earlier one.
Before(ls, p, q) ==
  \/ ls[p[2]].cycle < ls[q[2]].cycle
  \/ ls[p[2]].cycle = ls[q[2]].cycle /\ ls[p[1]].cycle < ls[q[1]].cycle
Candidates(ls) ==
  {p \in (DOMAIN ls) \X (DOMAIN ls) : ls[p[1]].cycle < ls[p[2]].cycle /\ CanMerge(ls, p[1], p[2])}

Merge ==
  /\ stage = "merge"
  /\ LET improving == Candidates(layers)
     IN \E p \in improving :
          /\ \A q \in improving : ~Before(layers, q, p)
          /\ layers' = Merged(layers, p[1], p[2])
  /\ UNCHANGED <<stage, input, deps, asap, report>>

--------------------------------------------------------------------------------

VertexEdges(ls) ==
  {e \in {<<VertexOf(ls, d.before), VertexOf(ls, d.after)>> : d \in deps} : e[1] # e[2]}

\* Longest chains to and from each layer, in one sweep each over the layers.  A
\* layer the sweep has not reached counts one, or none on the way back.
LongestTo(E, ls) ==
  LET sweep[v \in 0 .. Len(ls)] ==
        IF v = 0 THEN <<>>
        ELSE LET to == sweep[v - 1]
             IN Append(to, 1 + MaxOf({IF e[1] < v THEN to[e[1]] ELSE 1 : e \in {g \in E : g[2] = v}}))
  IN sweep[Len(ls)]
LongestFrom(E, ls) ==
  LET sweep[v \in 1 .. Len(ls) + 1] ==
        IF v > Len(ls) THEN <<>>
        ELSE LET from == sweep[v + 1]
             IN <<1 + MaxOf({IF e[2] > v THEN from[e[2] - v] ELSE 0 : e \in {g \in E : g[1] = v}})>> \o from
  IN sweep[1]

\* Mutant: a layer counts for both of its chains.
CriticalPathOffByOne(to, from) ==
  [length |-> MaxOf(Range(to)),
   critical |-> UNION {layers[v].lineage : v \in {u \in DOMAIN layers : to[u] + from[u] = MaxOf(Range(to))}}]
CriticalPath(to, from) ==
  LET length == MaxOf(Range(to))
  IN [length |-> length,
      critical |-> UNION {layers[v].lineage : v \in {u \in DOMAIN layers : to[u] + from[u] - 1 = length}}]

\* Nothing more to merge: check the layers and report the critical path.
Finish ==
  /\ stage = "merge" /\ Candidates(layers) = {}
  /\ IF \E k \in DOMAIN layers : Conflicts(layers[k].acts)
     THEN stage' = "refused" /\ UNCHANGED report
     ELSE /\ stage' = "done"
          /\ \E E \in {VertexEdges(layers)} :
               report' = CriticalPath(LongestTo(E, layers), LongestFrom(E, layers))
  /\ UNCHANGED <<input, deps, asap, layers>>

CompactionNext == AsapStep \/ SortByCycle \/ Merge \/ Finish

--------------------------------------------------------------------------------

CompactionTypeOK ==
  /\ stage \in {"idle", "asap", "merge", "done", "refused"}
  /\ \A i \in DOMAIN input : input[i] \subseteq Action
  /\ deps \subseteq [before : DOMAIN input, after : DOMAIN input, kind : Kinds]
  /\ DOMAIN asap \subseteq DOMAIN input /\ \A i \in DOMAIN asap : asap[i] \in Nat
  /\ \A k \in DOMAIN layers : layers[k].cycle \in Nat /\ layers[k].acts \subseteq Action
                              /\ layers[k].lineage \subseteq DOMAIN input
  /\ report.critical \subseteq DOMAIN input

Forward == \A d \in deps : d.before < d.after
Compacting == stage \in {"merge", "done"}

\* The baseline never moves a layer: with forward dependencies every layer keeps its
\* place and its cycle (exclusive_cycle_asap; "true ASAP" it is not).
AsapIsIdentity == Forward => \A i \in DOMAIN asap : asap[i] = i - 1

\* After every merge each dependency, of every kind, is still strictly ordered, also
\* those of third layers a merge pulls a successor past (hard_dep_cycle_order_ok:
\* "a side-merge can pull the successor onto an earlier cycle").
DependenciesHold ==
  Compacting /\ Forward => \A d \in deps : CycleOf(layers, d.before) < CycleOf(layers, d.after)

\* A merged layer keeps the isolation its parts had ("a merge that would put
\* non-partner atoms inside that spacing is refused and the layers stay split"),
\* unless an earlier layer runs all its gates: the check then reads that one.
IsolationKept ==
  Compacting /\ Forward =>
    \A k \in DOMAIN layers :
      \/ Isolated(layers, k)
      \/ \E i \in DOMAIN input : layers[k].acts = input[i]
      \/ \E j \in 1 .. k - 1 : Gates(layers[k].acts) \subseteq Gates(layers[j].acts)

\* The layers a chain of n dependent layers ends, or starts, at.
ChainEnds(E, n) ==
  LET ends[m \in 1 .. n] ==
        IF m = 1 THEN DOMAIN layers ELSE LET before == ends[m - 1] IN {e[2] : e \in {g \in E : g[1] \in before}}
  IN ends[n]
ChainStarts(E, n) == ChainEnds({<<e[2], e[1]>> : e \in E}, n)

\* The critical path is the longest chain of dependent layers of the output, its
\* layers are those of the longest chains, and it is a lower bound of the makespan,
\* which no merge makes longer (critical_path_report).
CriticalPathIsLongestChain ==
  stage = "done" /\ Forward =>
    LET E == VertexEdges(layers)
        n == report.length
    IN /\ ChainEnds(E, n) # {} /\ ChainEnds(E, n + 1) = {}
       /\ report.critical =
            UNION {UNION {layers[v].lineage : v \in ChainEnds(E, m) \cap ChainStarts(E, n + 1 - m)} :
                     m \in 1 .. n}
       /\ n <= Makespan(layers) /\ Makespan(layers) <= Len(input)
================================================================================
