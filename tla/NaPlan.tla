--------------------------------- MODULE NaPlan ---------------------------------
(***************************************************************************)
(* The neutral-atom pipeline over the zoned backend: the layers of a       *)
(* circuit or of QEC rounds are planned (plan_backend), compacted with the *)
(* dependencies of their caller, and a circuit's terminal measurement is   *)
(* placed behind them (quon_na/src/pipeline.rs, qec_schedule.rs).          *)
(*                                                                         *)
(* "program" is the history of what the planner was given; it is what the  *)
(* schedule is compared with.                                              *)
(***************************************************************************)
EXTENDS NaZoned

VARIABLES program,  \* layers of operations taken so far
          rounds,   \* QEC rounds finished; a circuit has none
          foreign   \* is the schedule one this backend did not plan?

pvars == <<program, rounds, foreign>>
vars == <<cvars, zvars, pvars>>

Init == /\ CompactionInit /\ ZonedInit
        /\ program = <<>> /\ rounds = 0
        /\ foreign = FALSE

--------------------------------------------------------------------------------

Planning == stage = "idle" /\ step = "ready"

GatesOf(gates) == {Act("entangle", {g[1], g[2]}) : g \in Range(gates)}

\* schedule_zoned takes its next layer.
PlanGates(gates, rest) ==
  /\ Planning
  /\ \/ /\ GateLayer(gates, rest)
        /\ program' = Append(program, GatesOf(gates) \cup rest)
        /\ UNCHANGED cvars
     \/ TooManyGates(gates) /\ UNCHANGED program
  /\ UNCHANGED <<rounds, foreign>>

PlanLocal(layer) ==
  /\ Planning
  /\ PassLayer(layer)
  /\ program' = Append(program, layer)
  /\ UNCHANGED cvars /\ UNCHANGED <<rounds, foreign>>

\* The n-th of a set of numbers.
Nth(S, n) == CHOOSE k \in S : Cardinality({j \in S : j <= k}) = n

\* Those of a sequence of sets that are not empty, in their order.
Filled(sets) == {k \in DOMAIN sets : sets[k] # {}}
NonEmpty(sets) == [n \in 1 .. Cardinality(Filled(sets)) |-> sets[Nth(Filled(sets), n)]]

ReadoutGroups(acts) == NonEmpty([k \in DOMAIN ReadoutKinds |-> OfKind(acts, ReadoutKinds[k])])

\* A round ends with its measures and resets, each kind a layer.
EndRound(acts) ==
  /\ Planning
  /\ ReadoutLayer(acts)
  /\ program' = program \o ReadoutGroups(acts)
  /\ rounds' = rounds + 1
  /\ UNCHANGED cvars /\ UNCHANGED foreign

IsWait(layer) == Has(layer, "wait")
Active(layer) == Has(layer, "entangle") \/ Has(layer, "measure")

\* The first layer after i that S names, if any.
FirstAfter(i, S) == {j \in S : j > i /\ \A k \in S : k > i => j <= k}

\* A wait or a reset is cut from the next gates or measures; a reset followed by
\* the wait is left to the wait.
RoundBarrierCuts(ls) ==
  LET active == {j \in DOMAIN ls : Active(ls[j])}
      cut == {i \in DOMAIN ls :
                \/ IsWait(ls[i])
                \/ Has(ls[i], "reset") /\ ~(i + 1 \in DOMAIN ls /\ IsWait(ls[i + 1]))}
  IN UNION {{Dep(i, j, "Barrier") : j \in FirstAfter(i, active)} : i \in cut}

\* What follows the wait after a measure is fed forward from it.
FeedForwardDeps(ls) ==
  LET waits == {j \in DOMAIN ls : IsWait(ls[j])}
      next == {j \in DOMAIN ls : Active(ls[j]) \/ Has(ls[j], "local")}
  IN UNION {UNION {{Dep(i, j, "FeedForward") : j \in FirstAfter(w, next)} :
                     w \in FirstAfter(i, waits)} :
              i \in {k \in DOMAIN ls : Has(ls[k], "measure")}}

\* Mutant: the compaction is called without them.
CallerDepsNone(ls) == {}
CallerDeps(ls) == IF rounds = 0 THEN {} ELSE RoundBarrierCuts(ls) \cup FeedForwardDeps(ls)

\* The planned layers are handed to the compaction.
Compact ==
  /\ Planning
  /\ Submit(out, CallerDeps(out))
  /\ out' = <<>>
  /\ UNCHANGED <<step, at, holder, todo, moves, last, readouts>> /\ UNCHANGED pvars

\* "Appended as one dedicated layer after compaction".
TerminalMeasure(measured) ==
  /\ stage = "done" /\ rounds = 0 /\ ~foreign /\ out = <<>> /\ step = "ready"
  /\ ReadoutLayer({Act("measure", {a}) : a \in measured})
  /\ program' = Append(program, {Act("measure", {a}) : a \in measured})
  /\ UNCHANGED cvars /\ UNCHANGED <<rounds, foreign>>

\* A schedule of another backend, with the dependencies of its caller.
CompactForeign(ls, caller) ==
  /\ Planning /\ program = <<>> /\ rounds = 0
  /\ Submit(ls, caller)
  /\ program' = ls /\ foreign' = TRUE
  /\ UNCHANGED zvars /\ UNCHANGED rounds

PlanStep ==
  \/ ZonedStep /\ UNCHANGED cvars /\ UNCHANGED pvars
  \/ ZonedRefusal /\ stage # "refused" /\ UNCHANGED pvars
  \/ CompactionNext /\ UNCHANGED zvars /\ UNCHANGED pvars

\* What a program asks for: no two gates of a layer share an atom; the planner alone
\* loads, moves and stores, and readout ends a round.
GateLists ==
  {gates \in Seq(Atoms \X Atoms) :
     /\ \A i \in DOMAIN gates : gates[i][1] # gates[i][2]
     /\ \A i, j \in DOMAIN gates : i # j => PairSites(gates[i]) \cap PairSites(gates[j]) = {}}
Operations == {x \in Action : x.op \in {"local", "ry", "wait"}}
Readouts == {x \in Action : x.op \in {"measure", "reset", "reuse"}}

\* What may share a layer with gates: an operation of other atoms (interleave_local_gates
\* shares no layer at all).
Beside(gates) ==
  {x \in Operations : x.op # "ry" /\ \A i \in DOMAIN gates : x.atoms \cap PairSites(gates[i]) = {}}

Next ==
  \/ \E gates \in GateLists : \E rest \in SUBSET Beside(gates) : PlanGates(gates, rest)
  \/ \E layer \in SUBSET Operations : PlanLocal(layer)
  \/ \E acts \in SUBSET Readouts : EndRound(acts)
  \/ Compact
  \/ \E measured \in SUBSET Atoms : TerminalMeasure(measured)
  \/ \E ls \in Seq(SUBSET Action), caller \in SUBSET [before : Nat, after : Nat, kind : Kinds] :
       CompactForeign(ls, caller)
  \/ PlanStep

Spec == Init /\ [][Next]_vars

--------------------------------------------------------------------------------

\* The schedule: what was planned, or what compaction made of it, then the layers
\* planned since.
Schedule ==
  CASE stage = "idle" -> out
    [] stage = "asap" -> input
    [] OTHER -> [k \in DOMAIN layers |-> layers[k].acts] \o out

\* Is there a schedule to look at?  The ASAP pass has the one it was submitted.
Settled == stage \in {"idle", "merge", "done"}

\* Where an atom is before layer k, replaying the moves.
MovesOf(layer, a) == {x \in layer : x.op = "move" /\ a \in x.atoms}
Where(ls, a, k) ==
  LET ks == {i \in 1 .. k - 1 : MovesOf(ls[i], a) # {}}
      last_move == CHOOSE j \in ks : \A m \in ks : m <= j
  IN IF ks = {} THEN Start[a] ELSE (CHOOSE x \in MovesOf(ls[last_move], a) : TRUE).to

PlanTypeOK ==
  /\ CompactionTypeOK /\ ZonedTypeOK
  /\ \A k \in DOMAIN program : program[k] \subseteq Action
  /\ rounds \in Nat /\ foreign \in BOOLEAN

\* The sites at which an operation must find its atoms.
FindsItsAtoms(x, spots) ==
  /\ x.op \in {"load", "store"} => spots = {x.to}
  /\ x.op = "entangle" => \E p \in Pairs : spots = PairSites(p)
  /\ x.op \in {"measure", "reset"} => spots \subseteq ReadoutSites

\* Replayed from the declared start, after planning, compaction and readout, every
\* load picks its atom up where it is, every store leaves it where its move ended,
\* the two atoms of a gate are on the two sites of one pair, and what is measured
\* or reset is in the readout zone (replay.rs and validate_zone_constraints require
\* it of the schedule; the planner never replays what it emits).
OperationsFindTheirAtoms ==
  Settled /\ ~foreign =>
    LET ls == Schedule IN
    \A k \in DOMAIN ls : \A x \in ls[k] : FindsItsAtoms(x, {Where(ls, a, k) : a \in x.atoms})

\* The operations of an atom, layer by layer; a GlobalRy is one of every atom.
OpsOf(layer, a) ==
  {x \in layer : x.op \notin {"load", "move", "store"} /\ (a \in x.atoms \/ x.op = "ry")}
History(ls, a) == NonEmpty([k \in DOMAIN ls |-> OpsOf(ls[k], a)])

\* Every atom undergoes the operations of the program in the order of the program,
\* none lost, doubled or overtaken, through deferred stages, merges and readout, unless
\* a caller of the compaction asks for another order.
ProgramOrderKept ==
  Settled /\ Forward =>
    LET ls == Schedule IN
    \A a \in Atoms :
      IF step = "ready" THEN History(ls, a) = History(program, a)
      ELSE IsPrefix(History(ls, a), History(program, a))

\* Between two stages the planner's maps agree with each other and with a replay of
\* what it emitted: the next stage's moves start from them (schedule_zoned, and the
\* layout handed to the next phase, to readout and to lowering).
LayoutIsTheReplay ==
  step # "moving" /\ Settled /\ ~foreign =>
    /\ LET ls == Schedule
       IN \A a \in Atoms : at[a] = Where(ls, a, Len(ls) + 1) /\ holder[at[a]] = a
    /\ \A s \in Sites : holder[s] # None => at[holder[s]] = s

\* What was done before a round's wait is done before all that follows its end.
RoundsStayApart ==
  stage \in {"merge", "done"} /\ rounds > 0 =>
    \A w \in DOMAIN input : IsWait(input[w]) =>
      \A i \in 1 .. w - 1, j \in w + 1 .. Len(input) :
        CycleOf(layers, i) < CycleOf(layers, j)

\* No two atoms are ever on one site: "DestinationOccupied" is what replay.rs says of
\* a schedule that does that, and "two atoms claiming one site" what pair_occupancy_ok
\* is there to prevent.
OneAtomPerSite ==
  LET ls == Schedule
  IN \A k \in DOMAIN ls : \A a, b \in Atoms : a # b => Where(ls, a, k) # Where(ls, b, k)

\* What is left of the layer being planned, most significant first.
Work == <<Cardinality(DOMAIN readouts), Cardinality(DOMAIN todo),
          IF step = "moving" THEN 1 ELSE 0, Cardinality(DOMAIN moves)>>
Less(v, w) == \E i \in DOMAIN v : v[i] < w[i] /\ \A j \in 1 .. i - 1 : v[j] = w[j]

\* The stages of a layer end: every one runs a gate that was put off or a kind of
\* readout, every group carries a move, or the layer is refused; it is never put off
\* for ever (the loop of schedule_zoned over the deferred gates, emit_aod_move_groups).
DeferralEnds == [][step # "ready" /\ stage' # "refused" => Less(Work', Work)]_vars
================================================================================
