# Quon: a verification project

TLA+ models of the parts of the Quon toolchain whose correctness depends on the
order in which things happen, the TLC runs that check them on small instances,
and theorems about them that TLAPS has proved. Paths are relative to the
repository root, which the manifest calls `src/`.

Quon is a quantum programming language. Most of the repository is a batch
compiler: one pass over data after another, with nothing that interleaves. The
parts modelled are those that keep a state over a long walk, or that several
actors share:

* the **linear context** of the type checker (`frontend`), which decides that
  every qubit is used exactly once;
* the **pass pipeline** (`mlir_bridge`, `zx`), rounds of circuit optimisations that
  rewrite what the others left, and the two passes over the run block;
* **SABRE routing** (`mlir_bridge`), which carries a layout through gates,
  regions and branches;
* the **zoned planner and compaction** of neutral-atom schedules (`quon_na`),
  which move atoms and then reorder what was planned;
* the **verifier of neutral-atom schedules** (`quon_na`), the gatekeeper that
  reads what any of the planners emitted; and
* the **language server** (`quon_lsp`), where handlers, debounced analysis
  tasks, save tasks, a workspace scan and file events update shared state.

## Inventory

| component | state it keeps | operations | interacts with | what is hard | what makes it correct |
|---|---|---|---|---|---|
| document store (`quon_lsp/src/document.rs`) | text, version, cached analysis of each open buffer | open, apply changes, close, store analysis if current | written by handlers and analysis tasks under one lock | results computed from old snapshots | the cached analysis is that of the text |
| analysis scheduler (`quon_lsp/src/analysis.rs`) | map from document to task and generation | request (aborts the previous task), cancel, shut down, clean up | spawns tasks that lock the store and the index and publish to the client | abort only takes effect at an await; tasks end in any order; the analyzer panics | at most one live task for each document, always cancellable; open buffers end up analysed |
| workspace index (`quon_lsp/src/workspace.rs`) | one unit for each file: intelligence and whether a buffer owns it | commit of a buffer, reload, note closed, scan, replace disk units, remove | scan task, save tasks, analysis tasks, file events | the same unit is written by five actors | an open buffer wins; a closed one follows the disk |
| handlers (`quon_lsp/src/server.rs`) | map of save tasks, generations | did_open, did_change, did_close, did_save, did_change_watched_files, initialized, shutdown | all of the above, the client | several lock sections in one handler, tasks between them | nothing runs on for a closed document or after shutdown |
| requests (`quon_lsp/src/intel`) | none | hover, completion, rename, symbols, formatting | read the store and the index | edits computed from stale spans | not modelled yet |
| ordering verifier (`quon_na/src/dialect.rs`) | phase of each atom | cycles, wait barriers, same-cycle conflicts, lifecycle | reads the events of the layer walk | one phase must summarise a whole history | what is accepted is legal; no legal schedule is refused but for one known order |
| layer verifier and replay (`quon_na/src/dialect.rs`, `replay.rs`) | trap bindings; site, trap and holder of atoms | moves, transfers, entangling, end of layer | reads the schedule of any planner | two views of the same traps, group moves | the views agree, occupancy, AOD rules |
| zoned planner (`quon_na/src/zoned.rs`) | position of each atom, holder of each site, gates put off | assign gates to pairs, group moves by AOD, put gates off, shuttle to readout | its layers go to compaction; placement starts it | two maps that must agree, parked atoms, deferral | every operation finds its atoms; the program's order; deferral ends |
| compaction (`quon_na/src/compaction.rs`) | cycles and lineage of layers | infer dependencies, exclusive-cycle ASAP, greedy merges, critical path | dependencies from callers (rounds, feed-forward) | merges that pull layers past others, several at once | dependencies and isolation hold, the order of each atom is kept |
| pipeline, QEC scheduling (`quon_na/src/pipeline.rs`, `plan.rs`, `qec_schedule.rs`) | layout handed from phase to phase | plan, compact, measure | planner, compaction, readout | a cut between two layers must hold back all that follows | rounds stay apart |
| movement (flat AOD) planner, placement, colouring, exact solvers (`quon_na`) | occupancy of sites | load, move, store, evict, reuse | emit schedules | eviction protocol, search | not modelled yet |
| linear type checker (`frontend/src/typecheck`) | available and consumed resources, names of enclosing lambdas | introduce, consume, split and merge for branches, scope exit | walks the tree the parser built; elaboration trusts it | names that are rebound or hidden, branches in lambdas in borrow blocks | what is accepted uses each resource once on every way; what is refused misuses one |
| rest of the frontend (`frontend`) | scopes | lex, parse, desugar, unify, elaborate, lower | Z3, MLIR | recursion over trees | not modelled |
| SABRE routing (`mlir_bridge/src/passes/sabre_routing.rs`) | layout, values of the qubits, divergence | place, SWAP, recurse into regions and branches, resync operands | topology of the target | bystanders of SWAPs, arms that end in other layouts, progress | operands carry their qubits, gates are on edges, routing ends |
| optimising passes (`mlir_bridge/src/passes`, `pipeline.rs`, `zx`) | the module | cancel, merge, Clifford+T, ZX, defer, fuse | each rewrites what the one before left, in rounds | signs, parities, positions of operands, an order that must be kept | the meaning is kept, rounds end by themselves, nothing gets dearer |
| other MLIR passes (`mlir_bridge`) | IR | uncomputation, native gates, depth schedule, verifiers, emission | targets | rewriting in place | emission: what the emitter refuses; the rest not modelled |
| core, backends, QEC (`quon_core`, `backend`, `quon_qec`) | none | pure functions, patch planning | compiler | algebraic identities | reference definitions |
| driver and watch loop (`quonc`) | previous snapshot | compile, debounce, compare | file watcher | events during a debounce or a compile | the last write is compiled |
| formatter, linter (`quonfmt`, `quonlint`) | none | print, report | parser | none that a checker reaches | idempotence |
| editor extensions, Python harness, website, packaging | none | glue | | | out of scope |

`PROJECT.json` lists each with its sources and status, and the hazards of this
code at their lines.

## Modules

```
DocumentStore   WorkspaceIndex      the stores: their operations as operators
        \           /
         LspServer                  the server as a state machine
             |
        LspProperties --- BufferOwnership   what it promises
         /         \
      MCLsp      LspProofs
                     |
             LspDocumentProofs

LinearContext -- MCLinear           the walk of the linear type checker
     |
LinearProofs

Circuits                            gates, programs and their exact meaning
   /          \
CircuitPasses  DynamicPasses        what each pass makes of a block
   \          /
 CircuitPipeline -- MCPasses        rounds of passes over a module
        |
    PassProofs

SabreRouting -- MCSabre             the router
     |
SabreProofs

NaCompaction                        dependencies, ASAP, merges, critical path
     |
NaZoned                             the planner, which shares its layers
     |
NaPlan -- MCNaPlan                  the pipeline: plan, compact, read out
     |
NaPlanProofs

NaLifecycle -- NaLifecycleProofs    ordering passes of the schedule verifier
NaReplay -- MCNaReplay              layer walk and replay
     |
NaReplayProofs
```

Both stores are written as pure operators because the server composes them: a
lock section that updates both is one action. Definitions marked `Mutant:`
are plausible bugs of the definition after them. The specification does not use
them; a run is repeated with each in place of the original, and the property
it is paired with must then fail.

### The language server (`LspServer`)

**Granularity.** tower-lsp polls all handlers from one task, and no handler
awaits before its last statement, so handlers do not interleave with each
other. They do interleave with the tasks they spawn. One action is one lock
section, or what a task does between two awaits:

| code | actions |
|---|---|
| `did_open` | `DidOpen`, `DidOpenRequest` |
| `did_change` (holds the document lock throughout) | `DidChange`, `DidChangeRejected` |
| `did_close` | `DidClose`, `CancelAnalysis`, `CancelSaveIndex`, `DidCloseNoteClosed`, `DidClosePublish` |
| `did_save` | `DidSave`, `InsertSaveTask`; `DidSaveNoText` |
| `did_change_watched_files` | `DidChangeWatchedFile`, one change each |
| `shutdown` | `Shutdown` (its two mutex sections share no state) |
| task of `request_analysis` | `Wake`, `Snapshot`, `AnalyzeText`, `CommitAnalysis`, `PublishAnalysis`, `CleanUpAnalysis` |
| task of `index_text` | `AnalyzeSavedText`, `CommitSave`, `CleanUpSave` |
| `scan_workspace` | `ScanFile` (one read each), `ScanReplace` |

**Abort.** `JoinHandle::abort` drops a task that is suspended and only flags one
that is being polled; the flagged task goes on to its next await. `Abort` does
the same: an `Awaiting` task is finished, a `Running` one gets `aborted` and
keeps its actions. `Snapshot` has the two outcomes this leaves at the await of
the blocking analysis. A panic of the analyzer (`Panics`) reaches the analysis
task as a join error, which still cleans up, and the save task as an early
return, which does not.

**Data.** A text is a model value and its analysis is the text it was made from;
splicing an edit yields any other text. Published diagnostics are the pair of
text and version. A file holds a text, is unreadable, or does not exist. Files larger
than `MAX_INDEX_BYTES` are left out: the scan skips them (`workspace.rs:558`) and a reload
reads them (`workspace.rs:153`), which the model does not tell apart. Files on which the analyzer would panic
are left out: files are analysed inside handlers, where a panic ends the process.
Branches of poisoned locks and requests that only read are not modelled.

**Environment.** Four constants say what the environment is assumed to do, and
the runs choose: `VersionsRestart` (a client numbers a reopened buffer from 1
again), `QuietScan` (no file changes during the scan), `QuietUntilWatched` (none
before the watcher is registered) and `DebounceOutlasts` (the debounce lasts
longer than the code between two awaits). `MaxAnalyses`, `MaxSaves`,
`MaxVersion`, `MaxEvents` bound the tasks spawned, the versions a client numbers
and the events under way.

### The promise (`BufferOwnership`)

No tasks, versions or debounce: intelligence about a buffer is always about the
text it has; the index takes a buffer over with its text at that moment and
gives it back only after it has closed. `LspProperties!KeepsOwnership` says that
the server implements it, with texts, cached analyses and units as the mapping.

### The schedule verifier (`NaLifecycle`, `NaReplay`)

`verify_schedule` walks the layers and then runs `verify_schedule_ordering` on
the events it collected. The two halves share nothing but the schedule, so they
are two modules.

`NaLifecycle` first lets somebody emit a schedule event by event (measure,
reset, reuse, use of an atom, a wait barrier, or an operation of no atom), and
then runs the four passes; the lifecycle pass visits one event a step. Its
reference definition (`Legal`) reads the documented rules off the whole schedule, without
phases: section 3 of `docs/neutral_atom/measure_reset_reuse.md` for the reuse
(`ReuseIsReclaim`: measured, later reset, reused in a later cycle than the resets, and not reused
already; same-cycle reset and reuse is excluded as its table says) and the error texts of
`dialect.rs:416-460` for cycles, barriers, gates and measurements. The pass itself is
stricter: it lets a reuse through only if nothing but one reset lies between it and the
measurement (`ReuseIsImmediate`, a part of the invariant and not of `Legal`).
`RefusesIllegalOrForgotten` names what that costs: a legal reuse of an atom that was used or
reset again is refused. It is the first of the divergences of schedules below.

`NaReplay` is the machine that reads one action of a layer at a time and stops at
the first that is refused. It has the state of the walk (`bindings`, `moves`,
`transfers`, `pairs`) and that of the replay (`site`, `trap`, `holder`). The code
runs the two one after the other; since neither reads the other's state and
either refuses the schedule, they accept together what this machine can read.
Inputs whose stated origin, trap or position differ from the replay's are refused
by the code and are not enumerated (`MoveOf`, `TransferOf`, `PairOf`).
Coordinates are integers. All atoms start in static traps, which is what
`placement.rs` emits.

### The linear context (`LinearContext`)

The checker walks a function body once, from left to right, and threads the
context through it. The module is that walk as a stack machine: a frame is a
call of `synth` or `check` that waits for a part of its expression, and since
nothing looks ahead the body is chosen while it is walked. `delta` is the
`Delta` of `linear.rs`, `env` the unrestricted context.

| code | actions |
|---|---|
| `synth_var`, `Delta::try_consume` | `UseUnrestricted`, `UseLinear`, `UsedTwice`, `Capture` |
| literals, gates, `qubit()`, `qreg(n)`; `measure`, `discard`, `reset`; `synth_return` | `Literal`, `Gate`, `Allocate`; `Measure`, `Reset`; `Return` with the escape check of borrow blocks |
| `let` and `synth_bind`, `check_pat_into`, `ensure_consumed` | `OpenRhs`, `CloseRhs`, `CloseBody` |
| `branch_if`, `check_match`, `merge_branches` | `OpenBranch`, `NextArm`, `Merge` |
| `synth_lambda`, `check_lambda`, `in_lambda_scope` | `OpenLambda`, `CloseLambda` |
| `synth_for`; `synth_borrow`; `synth_tuple` | `OpenFor`, `CloseFor`; `OpenBorrow`, `CloseBorrow`; `OpenPair`, `CloseLeft`, `CloseRight` |
| `bind_fn_params`, `check_fn_body` | `Init`, `CloseFunction` |

Two ghosts say what the program does when it runs: `runs` has an element for each
way through the branches and counts what that run has used, and `scope` is the
binding a name denotes by lexical scoping. The code knows neither.

Types are reduced to what the context asks of them: `Int`, `Qubit`, `QReg<2>`, a
circuit, and whether a computation `Q<..>` has been fed a resource. Only
programs without another type error are walked. Conditions and scrutinees are
classical. The escape check is made at the `return` and not before the block is walked, so which of two
errors of one function is reported is not modelled.

### The pass pipeline (`Circuits`, `CircuitPasses`, `DynamicPasses`, `CircuitPipeline`)

`CircuitPipeline` is `run_circ_passes_to_fixpoint_bounded` and then
`run_dynamic_passes`, a pass a step, over one definition and a run block. Which
pass reaches what is in the actions: the pair passes go through definitions,
regions and branches, ZX leaves out branches, Clifford+T takes only definitions.

| code | operators |
|---|---|
| `gate_cancellation.rs` | `CancelInto`, `GateCancellation` |
| `rotation_merging.rs` | `MergeInto`, `RotationMerging`; angles are added and not normalised |
| `stabilizer_tableau.rs`, `phase_polynomial.rs`, `clifford_t_opt.rs` | `Tableau`, `OptimizeClifford`; `Polynomial`, `Synthesize`, `OptimizeTCount`; `CliffordTOpt` |
| `zx_simplification.rs`, `zx/src` | `Simplified`, `ZxSimplification`, for chains on one wire |
| `measurement_deferral.rs` | `ComposeUVDagger`, `DeferMeasurement`, `MeasurementDeferral` |
| `classical_region_fusion.rs` | `FuseSame`, `FuseIndependent`, `ClassicalRegionFusion` |
| `emit/openqasm3.rs` | `Emits`: what the emitter accepts |

SSA values are abstracted to wires: a gate's results continue its operands, so a
value is a wire at a place in the order, and "produced by" is "the last gate on
the wire". The passes that work on pairs scan again after each rewrite; as the
module says, one walk that keeps a stack gives the same block. `compiler_uncomputation`
is the one pass of a round that has no action: it looks for borrows in the run
block, where lowering puts none. Depth attributes are left out.

`Circuits` also says what a program means, exactly: an amplitude is an integer
combination of powers of the eighth root of unity, unnormalised, with Hadamards
counted, so two operators are compared without rounding and up to a global phase.
A run block has one operator for each outcome of its measurements. The angles in
the runs are multiples of pi/4, where a rotation is such an amplitude.

### SABRE routing (`SabreRouting`)

The pass walks a block once, so here too the program is chosen while it is
walked. An SSA value is named by the register slot it continues; the ghost
`content` says which qubit's state a slot really holds. `route_block` is
`LocalGate`, `StartGate`, `UnroutedGate` (after a divergence) and `Return`;
`route_two_qubit` is `SwapStep`, `FinishGate`, `NoSwap`; `recurse_region` is
`EnterRegion` and `LeaveRegion`; `route_if` is `EnterThen`, `FinishThen`,
`EnterElse`, `FinishElse`. Lookahead and noise choose among the SWAPs that bring
the pair closest, so the choice among those is free. `PartialRegions` says
whether a region may be given some of the live qubits only. The operands of a region or an
if are not resynced when it is entered (`sabre_routing.rs:604-607`), so one whose value an
earlier region kept stays stale inside (`EnteredWire`). Measurements come
last.

### Planner, compaction and pipeline (`NaZoned`, `NaCompaction`, `NaPlan`)

`NaZoned` is the loop of `schedule_zoned` a stage at a time: `GateLayer` takes a
layer, `AssignPairs` assigns gates to pairs and plans their moves, `EmitGroup`
emits the load, move and store layers of one AOD group, `EmitLast` the gates, and
what found no pair goes round again. `ReadoutLayer` and `MoveToReadout` shuttle
measured atoms. The cost models choose among legal pairs, orientations and
splits, so any legal assignment may be chosen. The code's two maps are `at` and
`holder`.

`NaCompaction` is `compact_schedule`: `Submit` infers the dependencies, `AsapStep`
places one layer, `SortByCycle` orders them, `Merge` is one greedy merge,
`Finish` the report. Options are those both callers use.

`NaPlan` composes them: layers of a circuit, or rounds with their waits and
feed-forward cuts, are planned, compacted, and measured. Refusals for a missing layout
(`qec_schedule.rs:366`) and by `validate_zone_constraints` (`zoned.rs:644`) and
`validate_occupancy` (`schedule.rs:244`) are left out, so the model goes on with schedules
the code may give up on; what is shown of all of them holds of the ones it returns. `program` is the history
of what was asked for, and the schedule is compared with it atom by atom.
`MCNaPlan` also gives compaction schedules this backend would not plan.

## Runs

| run | question | result |
|---|---|---|
| `saves` | one file: analyses, saves, closes, reopens, disk changes and shutdown in every order | cache, index, diagnostics and task maps agree; the index follows the disk; the server implements `BufferOwnership` |
| `live` | what must eventually happen, with an analyzer that panics on one text | open buffers are analysed, diagnostics converge, the map empties |
| `linear` | function bodies of up to five expressions, with branches, lambdas, loops and borrow blocks | accepted bodies use each resource exactly once on every way; `delta` is what is left; refused bodies misuse something |
| `passes` | every circuit of up to four gates over three alphabets, circuits that undo themselves, run blocks of up to three measurements and three ifs | the passes keep the definition's unitary and every outcome's operator, reach the fixpoint, never add T gates, gates or ifs, and leave emittable what was (fusion: without ifs on different bits side by side) |
| `routing` | programs of four operations, five qubits on four slots, regions and branches | operands carry their qubits, gates are on edges, the layout is the device's, routing ends |
| `na_plan` | circuits and QEC rounds planned, compacted and read out; schedules of others compacted | atoms are where operations need them, order and dependencies hold, the critical path is one, deferral ends |
| `lifecycle` | all schedules of four events, two atoms, two cycles | accepted schedules are legal; refused ones are not, or forget a measurement that was made |
| `replay` | three atoms, a two by two grid, four AOD traps, two layers | both views of the traps agree, no lost or doubled holder, nobody in straight lines trades places |

Four runs refute something the repository says of itself:

| run | statement | what happens |
|---|---|---|
| `stale_diagnostics` | `analysis.rs:189`: a stale analysis never publishes for a closed document | abort takes effect at the next await, which is after the message is queued |
| `partial_region` | `sabre_routing.rs:622`: operands are resynced, so that no gate operates on a value a SWAP has consumed | a region's gate is routed through a qubit the region was not given, and what reads that qubit afterwards is not resynced |
| `lost_rotation` | `measurement_deferral.rs:122`: the correction's composite operator is `U · V†` | a rotation's inverse is left out of it and its angle is dropped, so `else Rz(t)` does nothing on any outcome |
| `double_occupancy` | `zoned.rs:1925`: a parked atom blocks its pair | not if it is an atom of the gate itself; the groups then store the other atom on its site before it leaves |

Divergences seen while modelling that have no run:

* Language server. A client that numbers a reopened buffer from 1 again lets a task of the
  buffer before pass the version check (`workspace.rs:81`, against line 71; with
  `VersionsRestart` the run `saves` would fail). A file refreshed by an event
  while a scan is between reading and installing goes back to its old text
  (`server.rs:94`; `QuietScan`). A save task that ends before its handle is
  inserted leaves an entry (`server.rs:134`). A file event indexes files of
  directories the scan skips, and files it skips as too large (`workspace.rs:154`, against line 558).
* Passes. When `clifford_t_opt` lowers the T count of a definition it rebuilds all gates without
  their angles (`clifford_t_opt.rs:169`), and `classical_region_fusion` does so to
  the gates of the branches it joins (line 193). `gates.rs:195` registers iSWAP as its own
  inverse, so two of them are cancelled though they are Z on both wires
  (`MeaningKept` fails with iSWAP in an alphabet). Ifs on different bits are
  fused into a nested if, which the emitter refuses
  (`classical_region_fusion.rs:468`, `openqasm3.rs:292`). Ifs that stood apart may come
  side by side by then: deferral turns the if between them into a region, or takes away the
  measurement between them, as in the source of `ThreeBits`. `KeepsEmittable` therefore asks of the block that
  fusion gets, and not of the source, that no ifs on different bits are side by side; without
  that premise the run `passes` refutes it. A gate of the run block itself, as `init_plus` is lowered, is
  not emitted (`openqasm3.rs:443`).
* Type checker. What a `let` binds to a computation that holds a resource is
  unrestricted: `let m = measure(q) in H` is accepted and `q` never measured
  (`types.rs:79`, against `linear.rs:3`; with `"computation"` in `Reexecuted`,
  `SpentExactlyOnce` fails). A circuit in the body of a `for` is used once for each iteration
  (`circuit.rs:764`; with `"loop"` in `Reexecuted`). The escape check misses a borrowed name that was
  renamed by `let`, and a block that ends in `reset(a)` (`monad.rs:293`). `_`
  drops a register, for which the comment at `classical.rs:477` refers to SPEC
  §3.4, where it is not allowed. A linear binding does not hide a classical one of that name
  (`mod.rs:691`), so such programs are refused with "unconsumed". What an inner scope consumed
  stays in `consumed`: a gate or builtin of that name is then reported as used
  twice.
* Schedules. Two orders that section 3 of `docs/neutral_atom/measure_reset_reuse.md` allows are
  refused as `ReuseBeforeMeasure`, which its table defines as "Atom is reused but was never
  measured" (`dialect.rs:449`: "before it has ever been measured"). In measure, reset, use, reuse the
  use drops the phase (`dialect.rs:1456`) and the reuse finds none (`dialect.rs:1388`); in
  measure, reset, reset, reuse the second reset overwrites the measurement with `None`
  (`dialect.rs:1372`, refused at `dialect.rs:1403`). Both are among the schedules of the run
  `lifecycle`; with `~Legal` alone on its right-hand side `RefusesIllegalOrForgotten` fails
  on each, and the theorem `RefusesCorrect` shows that there is no other legal order the passes refuse.
  The same error is given to measure, reset, reuse, reset, reuse, which the table calls a stale
  measurement dependency. A layer may move one atom of an AOD row or column and not the one
  that rides with it: only listed moves are compared (`dialect.rs:1617`, against
  `docs/neutral_atom/architecture_model.md:131,137`). M2 of the architecture model is checked between the first moves of two
  lines (`dialect.rs:1661`): when a row is loaded from atoms at different heights,
  which nothing refuses, two atoms of one AOD can trade places in an accepted layer
  (`NobodyTradesPlaces` without `LinesAreStraight`, with sites at four heights).
  Two loads into one AOD trap are accepted (`replay.rs:405`, against
  M5 of the architecture model); entangling geometry looks only at the atoms of
  the pairs, not at idle atoms in range (`replay.rs:436`, against R2).
* Flat AOD planner, read but not modelled: it appends all layers without gates after
  those with gates (`movement/plan.rs:239`), so one-qubit layers between them
  change places.

### Bounds

* `saves`: two analyses and two saves give every overlap of a task and its
  successor; the maps compare two generations at a time. Two versions separate
  current from stale, two texts equal from different. One document: the index
  treats documents one by one, and that the scheduler's map does not mix them is
  proved for any number. One file event under way suffices, since an event
  carries no text and the reload reads the disk when it is handled. `live` has
  three analyses, for a successor that is itself replaced.
* `linear`: five expressions hold a branch in a lambda or a borrow block with a use in each arm, or
  a register taken apart and put together; two names show rebinding, hiding and
  the exchange of one for another; three bindings, so that a name is bound again. Only expressions that can still be finished are begun.
* `routing`: the paw graph has an edge whose SWAP keeps a distance, a slot of one edge and one that
  is filled last; five qubits on four slots overflow it; four operations are a
  branch with a gate before, in each arm and after it.
* `na_plan`: eight atoms in storage or parked, three pairs of which two are too
  close to run together, two readout sites, three layers, three gates, one
  round; given schedules have three layers.
* `passes`: the code's cap on rounds is ten; `MaxRounds = 3` is stricter. Two wires
  and `MaxGates = 4` hold every pair of neighbours a rewrite can meet and a parity
  that is met again on another wire. `MaxConjugate = 2` makes circuits of five
  and six gates that cancel from the inside. The alphabets keep T gates and
  rotations apart and leave iSWAP out (above). `AnyBranch` puts
  rotations into branches: it is FALSE in `passes` and TRUE in `lost_rotation`.
* `lifecycle`: four events cover measure, reset, reuse and each rule with an
  intruder, among them both legal orders that are refused; two atoms and two cycles cover mixed atoms and both sides of every
  cycle comparison.
* `replay`: one layer to load, one to move and store. The grid has one empty site,
  so groups pass sites on; two rows share a column, one row has a second column, and
  one trap belongs to another AOD. A crooked row whose atoms trade places needs four
  heights; it is excluded by `LinesAreStraight` and the theorem covers the rest.

Deadlock is checked in `na_plan`, where a planner that has neither refused nor
finished must go on. Elsewhere `CHECK_DEADLOCK FALSE`: a client may stop sending and files may stop
changing, a verifier or a checker stops when it has answered, and the bounds end a behaviour.

### Fairness

`live` uses weak fairness for the sections of a handler, for each analysis task,
for each save task and for the scan (`FairSpec`). The tokio runtime polls every
task that is ready, lock sections are finite, and timers fire. Nothing is assumed
of the client, the watcher or the file system. `DebounceOutlasts` is assumed for
convergence of the diagnostics: without it two tasks of one document could
publish out of order.

`routing` uses weak fairness of the steps of one gate: the pass is a loop of one
thread. `na_plan` needs none: that its stages end is stated by a variant
(`DeferralEnds`), which every step of a stage lessens.

## Proofs

`LspProofs`, for all sets of documents and texts and all bounds:

* `TypeCorrect`: `Spec => []TypeOK`. `TypeOK` is not inductive, since a task's URI may
  be `None` in it; `Typing` adds that a handler past its first section has a URI
  and that a task that has not ended has a URI and, once it has read the buffer,
  a text.
* `PendingCorrect`: `Spec => []PendingIsTheLiveTask`. The entry of a document is
  the generation of its one live task, and there is none exactly when it has no
  live task. The inductive invariant is `PendingInv`: `Typing`, the property, and
  `FreshGenerations`, that generations not yet given out have no task. The last is
  needed when `RequestAnalysis` installs the next generation. The argument has a
  lemma for each way the map changes: a request aborts and replaces, a step moves
  a task on, clean-up removes only its own entry, close and shutdown abort what
  they remove.

`LspDocumentProofs`, for clients that never reuse a version of a document
(`~VersionsRestart`; a restart lets an old task pass the version check, so the
theorems would be false without it):

* `CacheCorrect`, `IndexCorrect`, `UnitsCorrect`, `DiagnosticsCorrect`. They are one
  argument, `DocumentInv`: whatever a task holds is the text its version has, since a
  later text of the buffer gets a later version (`TasksHoldCurrentTexts`,
  `VersionsWereGiven`). So a commit that passes the version check writes the
  analysis of the current text, in whichever order tasks, saves, closes and reopens
  come. `HandlerKnowsItsBuffer` is what the second halves of `did_open` and
  `did_close` rely on.
* `OwnershipCorrect`: `Spec => KeepsOwnership`, the refinement of
  `BufferOwnership`. Initial states map to initial states; each action is shown
  to be an edit, an analysis, a take-over, a release or a stutter of the
  abstract module under `DocumentInv`.

The second part of `LspDocumentProofs`, of tasks, with or without reused versions:

* `OrphanCorrect` and `SavesCorrect`. `OrphanInv` says that entries of both maps
  belong to open buffers or to the one being closed, that entries are of tasks that
  were given out, and that a live save is in its map unless its handle is about to
  be inserted.

and of files, with `QuietScan` and `QuietUntilWatched`:

* `DiskCorrect` (`IndexFollowsDisk`). `DiskInv`: what the scan has read is still on
  disk; of the events of a file only the last has to be true; a unit that differs
  from its file has an event on its way.

`NaReplayProofs`, for all arrays, AODs and schedules:

* `TypeCorrect`, `HoldersCorrect`, `BindingsCorrect`, by `ReplayInv`, which adds
  that destinations and transferred atoms of a layer are claimed once. The heart is
  `GroupKeepsHolders`: a group may pass sites on in any order because every source
  is left before any destination is taken.
* `TradesCorrect` (`NobodyTradesPlaces`), when no two sites share a position: each
  line has a first move (`RowHasLeader`), which in a straight line starts and ends
  where the others do, so comparing first moves is comparing all.

`NaLifecycleProofs`, for all atoms, cycles and lengths:

* `TypeCorrect`, `AcceptsCorrect` (`AcceptsOnlyLegal`) and `RefusesCorrect`
  (`RefusesIllegalOrForgotten`): what the ordering passes accept obeys the documented rules,
  and what they refuse breaks one, or is a reuse said to be before any measurement of an
  atom that was measured, reset, and used or reset again. In `LifecycleInv`,
  `PhaseTells` relates the phase of
  an atom to its past: after `none` or `reused` no measurement or reset is its last
  event and every measurement has been retired, and after `reused` there is a reuse with no
  measurement since; `measured` and `reset` give the
  last event and its cycle, and `reset` whether a measurement came right before.
  The events visited obey the rules (`VisitedAreLegal`), with `ReuseIsImmediate` for reuses,
  which implies the documented one. Each error is shown to contradict a rule, but for
  `ReuseBeforeMeasure`: there a reuse that is legal has at least two events since its measurement, of which the
  first is a reset.

`SabreProofs`, for all devices, registers and programs, whatever regions are given:

* `TypeCorrect` and `LayoutCorrect` (`LayoutIsABijection`). The invariant `IInv`
  adds the same of the saved states of a branch and that the slots from
  `nextPhys` on are empty, which makes placing a qubit harmless.

and for programs whose regions take every qubit in use
(`~PartialRegions`, without which the run `partial_region` refutes the first):

* `OperandsCorrect`, `RoutedCorrect`, `DeviceCorrect`: the invariants of those
  names in the run `routing`. They are one argument, the invariant `DInv`: the
  values are where the layout says, also in the saved states, so a SWAP
  exchanges what it means to exchange, and so they stay there.
* `RefusalCorrect` and `EverySwapHelps`: on a connected device whose slots are all
  occupied a gate is never refused, and each SWAP lessens the distance of its
  qubits by one. The second is the variant behind `RoutingEnds`. Both rest on
  `IsDistance`, which says of the matrix only what makes it the all-pairs matrix:
  some neighbour is one nearer, so the edge towards it is a candidate.

`LinearProofs`, for all names, arms, body sizes and bindings:

* `TypeCorrect`, and with `Reexecuted = {}` (with `"loop"` or
  `"computation"` in it `SpentExactlyOnce` fails, see the divergences) `RestCorrect`, `SpentCorrect` and
  `MisuseCorrect`: the three properties of the run `linear`.
* The inductive invariant is `LinearInv`. The checker has one delta per lambda that is
  open (`Ctx`) and one scope per call that waits (`Levels`); `Good` relates them all to the
  runs so far. Bindings are numbered as they are made, and what a context holds is older
  than the lambda around it (`Older`); no binding is available in two contexts or under two
  names (`Distinct`); what is available has a call on the stack that will ask for it
  (`Owned`, without which a resource could be dropped at the end); what a name denotes
  further in is what it denoted outside unless it is bound again (`Nested`); what a visible
  name denotes is what delta has for it and is unused, and what a classical name hides stays
  (`Denoted`, `Named`); what a run has not used is still available (`Kept`). For branches,
  `Branches` says that what an arm binds is gone when it ends, and `BranchGood` that each arm
  started from the same context and that each run through it ended as its delta says, so
  comparing the deltas of the arms is comparing the runs. `ClassicalInv`: names of the
  unrestricted context hold no resource.
* The attempt to prove `RejectsOnlyMisuse` refuted its first form beyond the bounds of the run:
  in a lambda, where an inner resource with the name of an outer one has been spent, the name is
  reported as used twice although no run has used what it denotes. It is a capture all the
  same (`error.rs:85`), and the property now says so.

`NaPlanProofs`, for all atoms, sites and isolated pairs, any program and any given schedule:

* `AsapCorrect`, `DependenciesCorrect`, `IsolationCorrect`, `RoundsCorrect`: properties of
  the run `na_plan`; and three facts no run states: `ForwardCorrect` (the hypothesis `Forward`
  of the others holds of every schedule the pipeline plans), `UsesCorrect` (layers that use one
  atom keep their order: with `LineageCorrect`, what compaction owes to the program) and
  `LineageCorrect`.
* In the inductive invariant, `Baseline` is the ASAP pass and `Sound` the layers while they
  are merged. `Dense` makes a layer's cycle its place. `Covered` follows the lineage.
  `Overtaking` says that only layers of gates pass others; `RoundsCorrect` needs it where
  nothing behind a wait is active. `MergedView` shows what `apply_merge` and the
  renumbering make of each place, and the lemmas on merges use nothing else. `Spread` is
  kept because a merged layer moves no atom, so all other layers find the atoms where
  they were (`MergeMovesNothing`).

  Of the schedules the zoned backend planned itself:

* `OperationsCorrect`, `LayoutCorrect` (`OperationsFindTheirAtoms`, `LayoutIsTheReplay`) and the
  action property `DeferralCorrect` (`DeferralEnds`), from finitely many atoms that start on
  different sites, and pairs of two sites. The inductive invariant is `ZonedInv`. `LayoutOK`:
  the maps `at` and `holder` agree. They do between stages because moves are `GoodMoves`: to
  different sites, each empty or left by its own atom, which for gates is what `pair_occupancy_ok`
  and the conflict test of pairs give (`GateMoves`) and for readout the exclusion of sites
  already taken (`ReadoutMoves`). While groups are carried the layout is ahead of the
  schedule: `Pending` says that a move left to carry ends where the layout has its atom, `Tracked`
  that a replay leaves each atom where its pending move starts (`CarriedFound`: one
  group keeps it), and `Ready` that the operations waiting for the moves will find their
  atoms. `PutOff` and `ToBeRead` are what is left of the layer. Compaction does not disturb it:
  the layers that use an atom keep their order, so the last move of an atom before each
  of its operations stays the same (`CompactedFound`, on top of the proof of `UsesCorrect`).
  The run `double_occupancy` shows why the invariant speaks of the layout and not of the sites of the
  schedule: between two groups two atoms may be on one.
* `DeferralCorrect` needs of `ZonedInv` that gates and moves are finitely many: the first pending
  move always joins the group, and each stage places at least one gate (`StepsDoWork`).
* `ProgramOrderCorrect` (`ProgramOrderKept`): no deferral, carrying, readout by kind or merge
  drops, doubles or reorders what an atom is to go through. A history is the sequence of the
  sets of operations of an atom, layer by layer, without the layers that have none. It is
  defined by rank (`NonEmpty`: the k-th place is the one with k - 1 before it) and the proof
  knows of it only what one more layer does (`HistoryNext`: `Push`) and that histories
  with the same layers in the same order are one (`SameNonEmpty`). The invariant is `OrderInv`:
  `InOrder` says that the history of the program is that of the schedule and `Behind` it what is
  still to be done, the operations the stage moves for, the gates put off, then each kind of readout.
  That order is no real one: the gates put off are of one layer. It is one history because gates of a layer
  share no atom (`GateLists`), what runs beside them is of other atoms (`Beside`, `Apart`), and a
  layer has gates or readouts to come and never both (`Turns`). `Fresh` is for given schedules.
  Through compaction `CompactedHistory` carries it: the layers that use an atom keep
  their order (`UsesCorrect`), each once (`LineageCorrect`), and two layers that use it are never merged.
  For given schedules `Forward` is assumed, as everywhere: a dependency that points backwards asks for another order.
* `CriticalPathCorrect` (`CriticalPathIsLongestChain`), with the invariant `ReportInv`. The two sweeps
  and the chains of the property are recursive functions, so first the functions they define are
  shown to exist (`ToSweepExists`, `FromSweepExists`, by the least number of layers for which there
  is none) and what they hold is read off (`LongestToIs`, `LongestFromIs`). Each is a rank an edge
  raises, and by exactly one on some edge (`ChainRank`); a chain of m layers ends where it is at least
  m (`RankEnds`). As the dependencies point forward in the merged layers too, no layer is read before the
  sweep has reached it, and chains to and from a layer join to one (`ChainsAdd`), so that the
  test `to + from - 1 = length` finds the layers of the longest chains and no others.
The assumptions are the `ASSUME`s of the modules that declare the constants (sentinels
differ from what they stand beside, bounds are naturals, the matrix is that of the graph), and
TLC evaluates them in every run. The invariants were checked with TLC first.

`PassProofs`, for all wires, circuits of any length and run blocks of any operations:

* `NeverDearerCorrect` and `KeepsEmittableCorrect`, the action properties of the run `passes`. The
  hypothesis is `SourcesAssumption`, what lowering and the verifiers guarantee: gates have the arity of the
  registry (`gates.rs`) and name operands there are, a measured qubit has no other use
  (`linearity.rs:8`), and a bit is a result of its measurement, so it is read after it. Without the last
  two deferral could move a measurement past an operation on its wire, or take an if before it for its reader.
* The passes are recursive functions over the places of a block. Nothing is known of such a
  function until one is shown to exist that satisfies its equation: `WalkExists` does so once, by a least length
  without one, for a walk given step by step, and `WalkIn` says that a walk stays in sets its
  steps keep it in. Each pass has a `...WalkExists` of its own with what its steps keep.
* What a pass may make of a circuit is `Cheaper` (gates on the same wires, no more of them, no more T gates) and
  `Better` (emittable too, if it was). Cancellation and merging leave a selection: each gate kept comes
  from a gate of its own, in order (`Kept`), so no kind of gate grows in number. ZX extraction puts out
  rotations, none of them a T, and is taken only if it is shorter.
* T counts (`BlockIsCheaper`): the T gates that meet one parity add up to one coefficient modulo 8, which is put out at the first of
  them, with one T gate if it is odd and none otherwise. So no more T gates are put out than there are odd parities,
  and a block is replaced only if that is fewer. The number of gates needs one more thought, since a coefficient may be two gates
  (3 is S and T). What has met a single T gate is 1 or 7, which is one gate (`Coeffs`), so a parity of two
  gates meets another T gate later, at which nothing is put out: `Owed` are the parities for which that is still to come. The walk over blocks and the gates between them is `TCountIsCheaper`.
* Regions and branches get better one by one (`BetterBody`), whichever pass goes through which.
* Deferral (`DeferMeasurementKeeps`) takes a measurement, its reader and a region: `From` says where each operation of
  the new block was, the region and the measurement standing where the reader was. So measurements still end
  their wires, bits are still read after they are measured, and what
  the emitter had assigned a qubit to it still has. There is one if less.
* Fusion (`FusionKeeps`): ifs that are fused are neighbours and, where no ifs on different bits are side by side, on
  one bit, so no if gets into a branch, and the premise holds of the fused block again. The count of ifs falls in either case.
* The inductive invariant is `PassInv`: the definition is a circuit all along, the run block is well formed until fusion,
  and until deferral is over measurements end their wires and bits are read after they are measured.
* The attempt refuted the first form of `KeepsEmittable`, whose premise was about the source: with three bits (`ThreeBits` of `MCPasses`)
  deferral itself brings ifs on different bits side by side. It was true only because the run had two.

Only model-checked: `MeaningKept` (that the passes keep the meaning is an equation between the
amplitudes of two circuits of any length, over rewritings of either by induction on
programs) and `FixpointReached` (it is true of the circuits of the run and not of all: rotations that
cancel, with a pair of H inside them, rotations that cancel inside that, and so on, take a round a level). Liveness under
fairness and `ENABLED` stay with TLC: the properties of `live`, `RoutingEnds`, of
which `EverySwapHelps` proves the variant.

## Not modelled

Most of the repository is one batch transformation after another: parsing,
unification, elaboration and lowering, the depth algebra, gate decompositions,
QEC expansion, reports, statistics, viewers, formatting, linting. Their
correctness is what a function computes for large inputs, which a model checker
does not reach, or floating-point optimisation (placement, exact solvers, cost models).

Left out of what is modelled: of the passes, uncomputation of borrows, native gates, depth
schedules, the linearity verifiers, and the text that is emitted; of the language server, requests that only read,
and branches of poisoned locks; of the type checker, unification and
metavariables, depths and widths of circuits, lists, linear scrutinees and QEC blocks; of routing,
measurements in the middle of a program; of the planner, targets without a
readout zone, gates on more than two atoms (nothing produces them), and storage
that wraps around when there are more atoms than sites (`zoned.rs:1794`); of
compaction, the legality limits no caller sets; of the verifier, zone residency.
`PROJECT.json` lists every component with its reason.

## Plan

1. More of the system: the emit context of the flat AOD planner composed with
   `NaReplay`, with trap occupancy (M5) and compulsion (R2), and the order of its
   layers; linear scrutinees, lists and metavariables of the type checker; the watch loop's
   debounce against an editor that keeps writing; rename resolution and lock
   order of the language server; the patch planner of `quon_qec`.
2. More proofs: that `NaReplay` accepts what the planner emits when no gate's own parked atom is in
   the way; of `MeaningKept`, the part that needs no amplitudes: cancellation and merging only
   bring together gates with nothing between them on their wires.
