---------------------------- MODULE CircuitPipeline ----------------------------
(***************************************************************************)
(* The optimising part of the pipeline for OpenQASM targets: rounds of the *)
(* circuit passes over a module until a round changes nothing or there     *)
(* have been MaxRounds, then the two passes over the run block.  A module  *)
(* here is one circuit definition and the run block it is inlined into;    *)
(* definitions do not affect each other.  compiler_uncomputation, between  *)
(* clifford_t_opt and zx_simplification, only looks for a borrow in the    *)
(* run block, where lowering puts none: it leaves these modules alone.     *)
(***************************************************************************)
EXTENDS CircuitPasses, DynamicPasses

CONSTANTS Sources,   \* the modules that lowering may hand over
          MaxRounds  \* the cap on rounds

\* What verified input of the passes is like: gates are on wires there are, a
\* measurement takes its wire, and a bit is read after it is measured.
Funcs ==
  {f \in [clifford : BOOLEAN, wires : Nat, gates : Seq(GatesOn(Nat))] :
     f.gates \in Seq(GatesOn(1 .. f.wires))}

WiresEnd(ops) ==
  \A i, j \in DOMAIN ops : i < j /\ IsMeasure(ops[i]) => Wires(ops[i]) \cap Wires(ops[j]) = {}

ReadMeasured(ops) ==
  \A i, j \in DOMAIN ops : IsMeasure(ops[i]) /\ IsIf(ops[j]) /\ ops[i].bit = ops[j].bit => i < j

ASSUME SourcesAssumption ==
  \A s \in Sources :
    /\ s \in [func : Funcs, body : Seq(Ops)]
    /\ WiresEnd(s.body) /\ ReadMeasured(s.body)

VARIABLES func,     \* the definition: its Clifford flag, its wires, its gates
          body,     \* the operations of the run block
          source,   \* the module as lowering made it
          pass,     \* the pass that runs next
          round,    \* the round, from 1
          before,   \* the module at the start of the round
          reached   \* whether a round has left the module unchanged

vars == <<func, body, source, pass, round, before, reached>>

Init ==
  /\ source \in Sources
  /\ func = source.func /\ body = source.body
  /\ before = source
  /\ pass = "gate_cancellation" /\ round = 1 /\ reached = FALSE

InRegions(Pass(_, _), ops) ==
  [i \in DOMAIN ops |-> IF ops[i].op = "region"
                        THEN [ops[i] EXCEPT !.gates = Pass(@, Len(ops[i].on))] ELSE ops[i]]

InBranches(Pass(_, _), ops) ==
  [i \in DOMAIN ops |->
     IF IsIf(ops[i])
     THEN [ops[i] EXCEPT !.then = Pass(@, Len(ops[i].on)), !.else = Pass(@, Len(ops[i].on))]
     ELSE ops[i]]

\* A pass over pairs goes through definitions, regions and branches.
Everywhere(Pass(_, _)) ==
  /\ func' = [func EXCEPT !.gates = Pass(@, func.wires)]
  /\ body' = InBranches(Pass, InRegions(Pass, body))

Then(next) == pass' = next /\ UNCHANGED <<source, round, before, reached>>

Cancel ==
  /\ pass = "gate_cancellation"
  /\ Everywhere(LAMBDA gates, n : GateCancellation(gates))
  /\ Then("rotation_merging")

MergeRotations ==
  /\ pass = "rotation_merging"
  /\ Everywhere(LAMBDA gates, n : RotationMerging(gates))
  /\ Then("clifford_t_opt")

\* Definitions only.
OptimizeCliffordT ==
  /\ pass = "clifford_t_opt"
  /\ func' = [func EXCEPT !.gates = CliffordTOpt(func.clifford, @, func.wires)]
  /\ Then("zx_simplification")
  /\ UNCHANGED body

\* Definitions and regions, not branches.
SimplifyZx ==
  /\ pass = "zx_simplification"
  /\ func' = [func EXCEPT !.gates = ZxSimplification(@, func.wires)]
  /\ body' = InRegions(ZxSimplification, body)
  /\ Then("end_of_round")

EndRound ==
  LET now == [func |-> func, body |-> body]
  IN /\ pass = "end_of_round"
     /\ reached' = (now = before)
     /\ IF reached' \/ round = MaxRounds
        THEN pass' = "measurement_deferral" /\ UNCHANGED <<round, before>>
        ELSE pass' = "gate_cancellation" /\ round' = round + 1 /\ before' = now
     /\ UNCHANGED <<func, body, source>>

Defer ==
  /\ pass = "measurement_deferral"
  /\ body' = MeasurementDeferral(body)
  /\ Then("classical_region_fusion")
  /\ UNCHANGED func

Fuse ==
  /\ pass = "classical_region_fusion"
  /\ body' = ClassicalRegionFusion(body)
  /\ Then("done")
  /\ UNCHANGED func

Next ==
  \/ Cancel \/ MergeRotations \/ OptimizeCliffordT \/ SimplifyZx \/ EndRound
  \/ Defer \/ Fuse

Spec == Init /\ [][Next]_vars

---------------------------------------------------------------------------------
BitsOf(ops) == {ops[i].bit : i \in {j \in DOMAIN ops : IsMeasure(ops[j])}}
WiresOf(ops) == UNION {Wires(ops[i]) : i \in DOMAIN ops}

\* Every pass keeps what the module does: the definition is the same unitary,
\* and for every outcome of the measurements the run block does to every state
\* of its qubits what it did before the passes.
MeaningKept ==
  /\ func.gates = source.func.gates
     \/ SameMeaning(func.gates, source.func.gates, 1 .. func.wires, {})
  /\ body = source.body
     \/ SameMeaning(body, source.body, WiresOf(source.body), BitsOf(source.body))

\* The rounds end because nothing is left to do, not because of the cap (the
\* warning of run_circ_passes_to_fixpoint is never given).
FixpointReached == pass \in {"measurement_deferral", "classical_region_fusion", "done"} => reached

NoDearer(new, old) == TCount(new) <= TCount(old) /\ Len(new) <= Len(old)

\* A pass never makes its module dearer: no circuit pass raises the number of T
\* gates or of gates of a block, no dynamic pass the number of operations that
\* cross from bits to qubits.
NeverDearer ==
  [][/\ NoDearer(func'.gates, func.gates)
     /\ pass \notin {"measurement_deferral", "classical_region_fusion"} =>
          \A i \in DOMAIN body :
            /\ body[i].op = "region" => NoDearer(body'[i].gates, body[i].gates)
            /\ IsIf(body[i]) => /\ NoDearer(body'[i].then, body[i].then)
                                /\ NoDearer(body'[i].else, body[i].else)
     /\ Cardinality({i \in DOMAIN body' : IsIf(body'[i])})
          <= Cardinality({i \in DOMAIN body : IsIf(body[i])})]_vars

\* Two ifs on different bits with nothing between them.
SideBySide(ops) ==
  \E i \in 1 .. Len(ops) - 1 :
    IsIf(ops[i]) /\ IsIf(ops[i + 1]) /\ ops[i].bit # ops[i + 1].bit

\* A pass leaves a run block that can be emitted as OpenQASM one that can be, fusion where
\* no ifs on different bits stand side by side (as deferral may leave them).
KeepsEmittable ==
  [][Emits(body) /\ (pass = "classical_region_fusion" => ~SideBySide(body)) => Emits(body')]_vars
=================================================================================
