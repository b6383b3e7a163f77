------------------------------ MODULE NaLifecycle ------------------------------
(***************************************************************************)
(* The ordering passes of the quantum.na verifier: cycles, Wait barriers   *)
(* and the measure, reset, reuse lifecycle of each atom                    *)
(* (verify_schedule_ordering in quon_na/src/dialect.rs).                   *)
(*                                                                         *)
(* A schedule is the sequence of its events.  An event knows its layer and *)
(* the layer's cycle; "use" is any gate, move or transfer of an atom,      *)
(* "wait" the Wait barrier and "global" an operation of no atom.           *)
(***************************************************************************)
EXTENDS Integers, Sequences

CONSTANTS Atoms,
          NoAtom,     \* the atom of an event of no atom
          MaxEvents,  \* bound: events of a schedule
          MaxCycle    \* bound: cycles of a schedule

ASSUME LifecycleAssumption ==
  NoAtom \notin Atoms /\ MaxEvents \in Nat /\ MaxCycle \in Nat

AtomKinds == {"measure", "reset", "reuse", "use"}
Event == [layer : Nat, cycle : 0 .. MaxCycle, kind : AtomKinds, atom : Atoms]
           \cup [layer : Nat, cycle : 0 .. MaxCycle, kind : {"wait", "global"},
                 atom : {NoAtom}]

NoCycle == -1
Cycles == 0 .. MaxCycle

\* What the last pass knows of an atom.  A reset remembers the cycle of the
\* measurement it retired, or NoCycle.
Phases == [kind : {"none"}, cycle : {NoCycle}, measured : {NoCycle}]
            \cup [kind : {"measured", "reused"}, cycle : Cycles, measured : {NoCycle}]
            \cup [kind : {"reset"}, cycle : Cycles, measured : Cycles \cup {NoCycle}]
Phase(kind, cycle, measured) ==
  [kind |-> kind, cycle |-> cycle, measured |-> measured]
NoPhase == Phase("none", NoCycle, NoCycle)

Errors == {"NonMonotonicCycles", "RoundBarrierCycleOrder", "MeasureUseSameCycle",
           "ResetUseSameCycle", "MeasureReuseWithoutReset", "ReuseBeforeReset",
           "DoubleMeasureWithoutReset", "ResetBeforeMeasure",
           "ReuseBeforeMeasure", "StaleMeasurementDependency"}

VARIABLES schedule,  \* the events of the layers
          pass,      \* the pass being run
          next,      \* the event the lifecycle pass reads next
          phase,     \* the phase of each atom
          verdict    \* "ok", or the error that is returned

vars == <<schedule, pass, next, phase, verdict>>

TypeOK ==
  /\ schedule \in Seq(Event)
  /\ pass \in {"emit", "cycles", "waits", "conflicts", "lifecycle", "done"}
  /\ next \in 1 .. Len(schedule) + 1
  /\ phase \in [Atoms -> Phases]
  /\ verdict \in Errors \cup {"ok"}

Init ==
  /\ schedule = <<>>
  /\ pass = "emit"
  /\ next = 1
  /\ phase = [a \in Atoms |-> NoPhase]
  /\ verdict = "ok"

--------------------------------------------------------------------------------

\* The layer walk collects the events of a schedule somebody emitted: one more
\* in the last layer, or the first one of a new layer.
EmitEvent(cycle, kind, atom) ==
  LET n    == Len(schedule)
      same == IF n = 0 THEN FALSE ELSE schedule[n].cycle = cycle
      last == IF n = 0 THEN 0 ELSE schedule[n].layer
  IN /\ pass = "emit" /\ n < MaxEvents
     /\ \E layer \in {last, last + 1} :
          /\ layer = last => same
          /\ schedule' = Append(schedule, [layer |-> layer, cycle |-> cycle,
                                           kind |-> kind, atom |-> atom])
     /\ UNCHANGED <<pass, next, phase, verdict>>

EmitDone ==
  /\ pass = "emit"
  /\ pass' = "cycles"
  /\ UNCHANGED <<schedule, next, phase, verdict>>

\* A pass either returns an error or hands over to the next one.
Return(error) ==
  pass' = "done" /\ verdict' = error /\ UNCHANGED <<schedule, next, phase>>
Proceed(to) == pass' = to /\ UNCHANGED <<schedule, next, phase, verdict>>

CyclesAreMonotonic ==
  \A i, j \in DOMAIN schedule : i < j => schedule[i].cycle <= schedule[j].cycle

CheckCycles ==
  /\ pass = "cycles"
  /\ IF CyclesAreMonotonic THEN Proceed("waits") ELSE Return("NonMonotonicCycles")

\* Every layer after one with a wait has a strictly later cycle.
WaitsAreBarriers ==
  \A i, j \in DOMAIN schedule :
    schedule[i].kind = "wait" /\ schedule[i].layer < schedule[j].layer =>
      schedule[i].cycle < schedule[j].cycle

CheckWaits ==
  /\ pass = "waits"
  /\ IF WaitsAreBarriers THEN Proceed("conflicts")
     ELSE Return("RoundBarrierCycleOrder")

\* The cycles in which an atom is used and also measured (or reset).
Conflicts(kind) ==
  {c \in Cycles :
     \E i, j \in DOMAIN schedule :
       /\ schedule[i].cycle = c /\ schedule[i].kind = kind
       /\ schedule[j].cycle = c /\ schedule[j].kind = "use"
       /\ schedule[i].atom = schedule[j].atom}

\* The earliest cycle is reported, and in it the measurement.
CheckConflicts ==
  /\ pass = "conflicts"
  /\ IF Conflicts("measure") \cup Conflicts("reset") = {}
     THEN Proceed("lifecycle")
     ELSE Return(IF \E c \in Conflicts("measure") :
                      \A d \in Conflicts("reset") : c <= d
                 THEN "MeasureUseSameCycle" ELSE "ResetUseSameCycle")

--------------------------------------------------------------------------------
(* The lifecycle pass, event by event in schedule order.                       *)

Visiting(kind) ==
  pass = "lifecycle" /\ next <= Len(schedule) /\ schedule[next].kind = kind

Enter(a, p) ==
  /\ phase' = [phase EXCEPT ![a] = p]
  /\ next' = next + 1
  /\ UNCHANGED <<schedule, pass, verdict>>

\* Mutant: a measurement after a reset is refused whatever its cycle.
VisitMeasureNeverAfterReset ==
  /\ Visiting("measure")
  /\ LET a == schedule[next].atom
         c == schedule[next].cycle
     IN IF phase[a].kind = "measured" THEN Return("DoubleMeasureWithoutReset")
        ELSE IF phase[a].kind = "reset" THEN Return("ResetBeforeMeasure")
        ELSE Enter(a, Phase("measured", c, NoCycle))

VisitMeasure ==
  /\ Visiting("measure")
  /\ LET a == schedule[next].atom
         c == schedule[next].cycle
     IN IF phase[a].kind = "measured" THEN Return("DoubleMeasureWithoutReset")
        ELSE IF phase[a].kind = "reset" /\ phase[a].cycle = c
        THEN Return("ResetBeforeMeasure")
        ELSE Enter(a, Phase("measured", c, NoCycle))

VisitReset ==
  /\ Visiting("reset")
  /\ LET a == schedule[next].atom
         c == schedule[next].cycle
     IN Enter(a, Phase("reset", c, IF phase[a].kind = "measured"
                                   THEN phase[a].cycle ELSE NoCycle))

\* Mutant: a reset of the same cycle is good enough.
VisitReuseEarly ==
  /\ Visiting("reuse")
  /\ LET a == schedule[next].atom
         c == schedule[next].cycle
         p == phase[a]
     IN CASE p.kind = "none" -> Return("ReuseBeforeMeasure")
          [] p.kind = "measured" -> Return("ReuseBeforeReset")
          [] p.kind = "reset" /\ p.measured = NoCycle ->
               Return("ReuseBeforeMeasure")
          [] p.kind = "reset" /\ p.measured # NoCycle ->
               IF c < p.cycle THEN Return("ReuseBeforeReset")
               ELSE Enter(a, Phase("reused", c, NoCycle))
          [] p.kind = "reused" -> Return("StaleMeasurementDependency")

VisitReuse ==
  /\ Visiting("reuse")
  /\ LET a == schedule[next].atom
         c == schedule[next].cycle
         p == phase[a]
     IN CASE p.kind = "none" -> Return("ReuseBeforeMeasure")
          [] p.kind = "measured" -> Return("ReuseBeforeReset")
          [] p.kind = "reset" /\ p.measured = NoCycle ->
               Return("ReuseBeforeMeasure")
          [] p.kind = "reset" /\ p.measured # NoCycle ->
               IF c <= p.cycle THEN Return("ReuseBeforeReset")
               ELSE Enter(a, Phase("reused", c, NoCycle))
          [] p.kind = "reused" -> Return("StaleMeasurementDependency")

\* Mutant: a gate ends the reset but leaves its cycle behind.
VisitUseKeepingCycle ==
  /\ Visiting("use")
  /\ LET a == schedule[next].atom
         c == schedule[next].cycle
         p == phase[a]
     IN CASE p.kind = "measured" /\ c > p.cycle ->
               Return("MeasureReuseWithoutReset")
          [] p.kind = "reset" /\ c > p.cycle -> Enter(a, [p EXCEPT !.kind = "none"])
          [] OTHER -> Enter(a, p)

VisitUse ==
  /\ Visiting("use")
  /\ LET a == schedule[next].atom
         c == schedule[next].cycle
         p == phase[a]
     IN CASE p.kind = "measured" /\ c > p.cycle ->
               Return("MeasureReuseWithoutReset")
          [] p.kind = "reset" /\ c > p.cycle -> Enter(a, NoPhase)
          [] OTHER -> Enter(a, p)

VisitOther ==
  /\ Visiting("wait") \/ Visiting("global")
  /\ next' = next + 1
  /\ UNCHANGED <<schedule, pass, phase, verdict>>

Accept ==
  /\ pass = "lifecycle" /\ next > Len(schedule)
  /\ Proceed("done")

--------------------------------------------------------------------------------

Emit ==
  \/ \E c \in Cycles, k \in AtomKinds, a \in Atoms : EmitEvent(c, k, a)
  \/ \E c \in Cycles, k \in {"wait", "global"} : EmitEvent(c, k, NoAtom)
  \/ EmitDone

Verify ==
  \/ CheckCycles \/ CheckWaits \/ CheckConflicts
  \/ VisitMeasure \/ VisitReset \/ VisitReuse \/ VisitUse \/ VisitOther \/ Accept

Next == Emit \/ Verify

Spec == Init /\ [][Next]_vars

--------------------------------------------------------------------------------
(* Properties.                                                                 *)

\* The events of the atom of event k strictly between events i and k.
Between(i, k) ==
  {j \in i + 1 .. k - 1 : schedule[j].atom = schedule[k].atom}

(* The documented rules, read off the whole schedule: section 3 of             *)
(* docs/neutral_atom/measure_reset_reuse.md and the error texts of the passes. *)

\* A gate never touches an atom in the cycle of its measurement or reset, nor
\* after a measurement whose reset has not completed in an earlier cycle.
GateIsPrepared(k) ==
  schedule[k].kind = "use" =>
    \A i \in DOMAIN schedule :
      schedule[i].atom = schedule[k].atom =>
        /\ schedule[i].kind \in {"measure", "reset"} =>
             schedule[i].cycle # schedule[k].cycle
        /\ schedule[i].kind = "measure" /\ i < k =>
             \E j \in Between(i, k) : /\ schedule[j].kind = "reset"
                                      /\ schedule[j].cycle < schedule[k].cycle

\* "Measure the atom, reset it, reuse it in a later cycle": since its last
\* measurement the atom has been reset, in earlier cycles, and not reused yet.
\* What else happened to it since the reset does not matter.
ReuseIsReclaim(k) ==
  schedule[k].kind = "reuse" =>
    \E i \in 1 .. k - 1 :
      /\ schedule[i].kind = "measure" /\ schedule[i].atom = schedule[k].atom
      /\ \A j \in Between(i, k) : schedule[j].kind \notin {"measure", "reuse"}
      /\ \E j \in Between(i, k) : schedule[j].kind = "reset"
      /\ \A j \in Between(i, k) :
           schedule[j].kind = "reset" => schedule[j].cycle < schedule[k].cycle

\* Two measurements of an atom have a reset between them, and a measurement
\* does not follow a reset in its cycle.
MeasurementIsSeparate(k) ==
  schedule[k].kind = "measure" =>
    \A i \in 1 .. k - 1 :
      schedule[i].atom = schedule[k].atom =>
        /\ schedule[i].kind = "measure" =>
             \E j \in Between(i, k) : schedule[j].kind = "reset"
        /\ schedule[i].kind = "reset" /\ Between(i, k) = {} =>
             schedule[i].cycle < schedule[k].cycle

Legal ==
  /\ CyclesAreMonotonic /\ WaitsAreBarriers
  /\ \A k \in DOMAIN schedule :
       GateIsPrepared(k) /\ ReuseIsReclaim(k) /\ MeasurementIsSeparate(k)

\* A schedule the verifier accepts is legal: the one phase it keeps for each
\* atom loses nothing of the atom's past that a later event depends on.
AcceptsOnlyLegal == pass = "done" /\ verdict = "ok" => Legal

\* Not a documented rule.  A second reset overwrites the measurement the first
\* one retired, and a use drops the phase, so the measurement is forgotten
\* although the atom was measured and reset.
MeasurementIsForgotten(k) ==
  /\ schedule[k].kind = "reuse"
  /\ \E i \in 1 .. k - 1 :
       /\ schedule[i].kind = "measure" /\ schedule[i].atom = schedule[k].atom
       /\ \E j, l \in Between(i, k) :
            j < l /\ schedule[j].kind = "reset" /\ schedule[l].kind \in {"reset", "use"}

\* A schedule the verifier refuses breaks a documented rule, but for one legal
\* order it refuses as well: the event it stops at is a reuse, said to come before
\* any measurement, of an atom used or reset again after its measurement and reset.
RefusesIllegalOrForgotten ==
  pass = "done" /\ verdict # "ok" =>
    ~Legal \/ (verdict = "ReuseBeforeMeasure" /\ MeasurementIsForgotten(next))

--------------------------------------------------------------------------------
(* What makes these inductive.                                                 *)

\* The visited events of an atom after one of them.
Visited(a, i) == {j \in i + 1 .. next - 1 : schedule[j].atom = a}

IsLast(a, i) == schedule[i].atom = a /\ Visited(a, i) = {}

\* No measurement or reset is the last event of an atom, and every measurement
\* has been followed by a reset.
Settled(a) ==
  \A i \in 1 .. next - 1 :
    schedule[i].atom = a =>
      /\ schedule[i].kind \in {"measure", "reset"} => ~IsLast(a, i)
      /\ schedule[i].kind = "measure" =>
           \E j \in Visited(a, i) : schedule[j].kind = "reset"

\* The last event of an atom is of this kind and cycle.
LastIs(a, kind, cycle) ==
  \E i \in 1 .. next - 1 :
    IsLast(a, i) /\ schedule[i].kind = kind /\ schedule[i].cycle = cycle

\* An atom has been reused and not measured since.
ReusedSince(a) ==
  \E i \in 1 .. next - 1 :
    /\ schedule[i].atom = a /\ schedule[i].kind = "reuse"
    /\ \A j \in Visited(a, i) : schedule[j].kind # "measure"

\* The phase of an atom tells what its next event may depend on.
PhaseTells(a) ==
  /\ phase[a].kind \in {"none", "reused"} => Settled(a)
  /\ phase[a].kind = "reused" => ReusedSince(a)
  /\ phase[a].kind = "measured" => LastIs(a, "measure", phase[a].cycle)
  /\ phase[a].kind = "reset" =>
       /\ LastIs(a, "reset", phase[a].cycle)
       /\ phase[a].measured # NoCycle <=>
            \E i, j \in 1 .. next - 1 :
              /\ schedule[i].atom = a /\ schedule[i].kind = "measure"
              /\ Visited(a, i) = {j}

\* What the pass lets through is stricter than a reclaim: nothing but one reset
\* comes between the measurement and the reuse.
ReuseIsImmediate(k) ==
  schedule[k].kind = "reuse" =>
    \E i, j \in 1 .. k - 1 :
      /\ schedule[i].kind = "measure" /\ schedule[j].kind = "reset"
      /\ schedule[i].atom = schedule[k].atom
      /\ schedule[j].atom = schedule[k].atom
      /\ Between(i, k) = {j} /\ schedule[j].cycle < schedule[k].cycle

\* The rules hold of the events visited.
VisitedAreLegal ==
  \A k \in 1 .. next - 1 :
    GateIsPrepared(k) /\ ReuseIsImmediate(k) /\ MeasurementIsSeparate(k)

\* What the passes that have run have found.
PassesHeld ==
  LET passing == pass = "lifecycle" \/ (pass = "done" /\ verdict = "ok")
  IN /\ pass \in {"waits", "conflicts"} \/ passing => CyclesAreMonotonic
     /\ pass = "conflicts" \/ passing => WaitsAreBarriers
     /\ passing => Conflicts("measure") \cup Conflicts("reset") = {}
     /\ pass \in {"emit", "cycles", "waits", "conflicts"} => next = 1
     /\ pass = "done" /\ verdict = "ok" => next = Len(schedule) + 1
     /\ pass # "done" => verdict = "ok"

LifecycleInv ==
  /\ TypeOK /\ PassesHeld /\ VisitedAreLegal /\ \A a \in Atoms : PhaseTells(a)
  /\ RefusesIllegalOrForgotten
================================================================================
