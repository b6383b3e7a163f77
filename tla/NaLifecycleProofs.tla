--------------------------- MODULE NaLifecycleProofs ---------------------------
(***************************************************************************)
(* What the ordering passes accept is legal, and what they refuse is not,  *)
(* but for one order they forget: theorems for any atoms and schedules of  *)
(* any length over any number of cycles.                                   *)
(***************************************************************************)
EXTENDS NaLifecycle, TLAPS

(***************************************************************************)
(* Types.                                                                  *)
(***************************************************************************)

\* What an event is made of.
LEMMA EventFacts ==
  ASSUME schedule \in Seq(Event), NEW i \in DOMAIN schedule
  PROVE  /\ schedule[i].cycle \in Cycles
         /\ schedule[i].layer \in Nat
         /\ \/ schedule[i].kind \in AtomKinds /\ schedule[i].atom \in Atoms
            \/ schedule[i].kind \in {"wait", "global"} /\ schedule[i].atom = NoAtom
BY DEF Event, Cycles

\* What a phase is made of.
LEMMA PhaseFacts ==
  ASSUME NEW p \in Phases
  PROVE  /\ p.kind \in {"none", "measured", "reset", "reused"}
         /\ p.kind \in {"measured", "reset", "reused"} => p.cycle \in Cycles
         /\ p.kind = "reset" => p.measured \in Cycles \cup {NoCycle}
BY DEF Phases

\* Every phase the lifecycle pass enters is one.
LEMMA PhaseTypes ==
  ASSUME NEW c \in Cycles, NEW d \in Cycles \cup {NoCycle}
  PROVE  /\ Phase("measured", c, NoCycle) \in Phases
         /\ Phase("reused", c, NoCycle) \in Phases
         /\ Phase("reset", c, d) \in Phases
         /\ NoPhase \in Phases
BY DEF Phase, Phases, NoPhase

\* One more event keeps a schedule a sequence of events.
LEMMA EmitTyped ==
  ASSUME TypeOK, NEW c \in Cycles, NEW k, NEW a,
         \/ k \in AtomKinds /\ a \in Atoms
         \/ k \in {"wait", "global"} /\ a = NoAtom,
         EmitEvent(c, k, a)
  PROVE  TypeOK'
<1>. DEFINE n == Len(schedule)
            last == IF n = 0 THEN 0 ELSE schedule[n].layer
<1>1. PICK layer \in {last, last + 1} :
        schedule' = Append(schedule, [layer |-> layer, cycle |-> c, kind |-> k, atom |-> a])
  BY DEF EmitEvent
<1>2. last \in Nat
  <2>1. CASE n = 0
    BY <2>1
  <2>2. CASE n # 0
    <3>1. schedule \in Seq(Event) /\ n \in DOMAIN schedule
      BY <2>2 DEF TypeOK
    <3>. QED
      BY <2>2, <3>1, EventFacts
  <2>. QED
    BY <2>1, <2>2
<1>3. [layer |-> layer, cycle |-> c, kind |-> k, atom |-> a] \in Event
  BY <1>2 DEF Event, Cycles
<1>4. schedule' \in Seq(Event) /\ Len(schedule') = Len(schedule) + 1
  BY <1>1, <1>3 DEF TypeOK
<1>5. UNCHANGED <<pass, next, phase, verdict>>
  BY DEF EmitEvent
<1>. QED
  BY <1>4, <1>5 DEF TypeOK

\* Every step keeps the types.
LEMMA TypeNext == TypeOK /\ [Next]_vars => TypeOK'
<1>. SUFFICES ASSUME TypeOK, [Next]_vars PROVE TypeOK'
  OBVIOUS
<1>1. ASSUME Emit PROVE TypeOK'
  <2>1. ASSUME NEW c \in Cycles, NEW k \in AtomKinds, NEW a \in Atoms, EmitEvent(c, k, a)
        PROVE  TypeOK'
    BY <2>1, EmitTyped
  <2>2. ASSUME NEW c \in Cycles, NEW k \in {"wait", "global"}, EmitEvent(c, k, NoAtom)
        PROVE  TypeOK'
    BY <2>2, EmitTyped
  <2>3. CASE EmitDone
    BY <2>3 DEF EmitDone, TypeOK
  <2>. QED
    BY <1>1, <2>1, <2>2, <2>3 DEF Emit
<1>2. ASSUME NEW error \in Errors, Return(error) PROVE TypeOK'
  BY <1>2 DEF Return, TypeOK
<1>3. ASSUME NEW to \in {"waits", "conflicts", "lifecycle", "done"}, Proceed(to) PROVE TypeOK'
  BY <1>3 DEF Proceed, TypeOK
<1>4. CASE CheckCycles
  BY <1>2, <1>3, <1>4 DEF CheckCycles, Errors
<1>5. CASE CheckWaits
  BY <1>2, <1>3, <1>5 DEF CheckWaits, Errors
<1>6. CASE CheckConflicts
  BY <1>2, <1>3, <1>6 DEF CheckConflicts, Errors
<1>7. CASE Accept
  BY <1>3, <1>7 DEF Accept
<1>8. ASSUME NEW p \in Phases, Enter(schedule[next].atom, p), next <= Len(schedule),
             schedule[next].kind \in AtomKinds
      PROVE  TypeOK'
  <2>1. schedule \in Seq(Event) /\ next \in 1 .. Len(schedule) /\ next + 1 \in 1 .. Len(schedule) + 1
    BY <1>8 DEF TypeOK
  <2>2. phase' \in [Atoms -> Phases]
    BY <1>8 DEF Enter, TypeOK
  <2>3. next' = next + 1 /\ UNCHANGED <<schedule, pass, verdict>>
    BY <1>8 DEF Enter
  <2>. QED
    BY <2>1, <2>2, <2>3 DEF TypeOK
<1>9. ASSUME NEW kind \in AtomKinds, Visiting(kind)
      PROVE  /\ next <= Len(schedule) /\ schedule[next].kind \in AtomKinds
             /\ schedule[next].cycle \in Cycles /\ schedule[next].atom \in Atoms
             /\ phase[schedule[next].atom] \in Phases
  <2>1. next \in DOMAIN schedule /\ schedule \in Seq(Event)
    BY <1>9 DEF Visiting, TypeOK
  <2>2. schedule[next].cycle \in Cycles /\ schedule[next].atom \in Atoms
    BY <1>9, <2>1, EventFacts DEF Visiting, AtomKinds
  <2>. QED
    BY <1>9, <2>1, <2>2 DEF Visiting, TypeOK
<1>10. CASE VisitMeasure
  <2>1. Visiting("measure")
    BY <1>10 DEF VisitMeasure
  <2>2. Phase("measured", schedule[next].cycle, NoCycle) \in Phases
    BY <1>9, <2>1, PhaseTypes DEF AtomKinds
  <2>3. \/ \E error \in Errors : Return(error)
        \/ Enter(schedule[next].atom, Phase("measured", schedule[next].cycle, NoCycle))
    BY <1>10 DEF VisitMeasure, Errors
  <2>. QED
    BY <1>2, <1>8, <1>9, <2>1, <2>2, <2>3 DEF AtomKinds
<1>11. CASE VisitReset
  <2>1. Visiting("reset")
    BY <1>11 DEF VisitReset
  <2>. DEFINE p == phase[schedule[next].atom]
              d == IF p.kind = "measured" THEN p.cycle ELSE NoCycle
  <2>2. p \in Phases /\ schedule[next].cycle \in Cycles
    BY <1>9, <2>1 DEF AtomKinds
  <2>3. d \in Cycles \cup {NoCycle}
    BY <2>2, PhaseFacts
  <2>4. Phase("reset", schedule[next].cycle, d) \in Phases
    BY <2>2, <2>3, PhaseTypes
  <2>5. Enter(schedule[next].atom, Phase("reset", schedule[next].cycle, d))
    BY <1>11 DEF VisitReset
  <2>. QED
    BY <1>8, <1>9, <2>1, <2>4, <2>5 DEF AtomKinds
<1>12. CASE VisitReuse
  <2>1. Visiting("reuse")
    BY <1>12 DEF VisitReuse
  <2>2. /\ Phase("reused", schedule[next].cycle, NoCycle) \in Phases
        /\ phase[schedule[next].atom].kind \in {"none", "measured", "reset", "reused"}
    BY <1>9, <2>1, PhaseTypes, PhaseFacts DEF AtomKinds
  <2>3. \/ \E error \in Errors : Return(error)
        \/ Enter(schedule[next].atom, Phase("reused", schedule[next].cycle, NoCycle))
    BY <1>12, <2>2 DEF VisitReuse, Errors
  <2>. QED
    BY <1>2, <1>8, <1>9, <2>1, <2>2, <2>3 DEF AtomKinds
<1>13. CASE VisitUse
  <2>1. Visiting("use")
    BY <1>13 DEF VisitUse
  <2>2. phase[schedule[next].atom] \in Phases /\ NoPhase \in Phases
    BY <1>9, <2>1, PhaseTypes DEF AtomKinds
  <2>3. \/ \E error \in Errors : Return(error)
        \/ \E p \in Phases : Enter(schedule[next].atom, p)
    BY <1>13, <2>2 DEF VisitUse, Errors
  <2>. QED
    BY <1>2, <1>8, <1>9, <2>1, <2>2, <2>3 DEF AtomKinds
<1>14. CASE VisitOther
  BY <1>14 DEF VisitOther, Visiting, TypeOK
<1>15. CASE UNCHANGED vars
  BY <1>15 DEF vars, TypeOK
<1>. QED
  BY <1>1, <1>4, <1>5, <1>6, <1>7, <1>10, <1>11, <1>12, <1>13, <1>14, <1>15 DEF Next, Verify

(***************************************************************************)
(* The past of an atom.                                                    *)
(***************************************************************************)

\* What the passes before leave for an event that is visited: the events before
\* it are not later, and no gate shares a cycle with a measurement or reset.
LEMMA VisitFacts ==
  ASSUME LifecycleInv, pass = "lifecycle", next <= Len(schedule)
  PROVE  /\ next \in DOMAIN schedule /\ next \in Nat /\ schedule \in Seq(Event)
         /\ \A i \in 1 .. next - 1 : i \in DOMAIN schedule
         /\ \A i \in DOMAIN schedule : schedule[i].cycle \in Int
         /\ \A i \in 1 .. next - 1 : schedule[i].cycle <= schedule[next].cycle
         /\ \A i, j \in DOMAIN schedule :
              /\ schedule[i].kind \in {"measure", "reset"} /\ schedule[j].kind = "use"
              /\ schedule[i].atom = schedule[j].atom
              => schedule[i].cycle # schedule[j].cycle
<1>1. schedule \in Seq(Event) /\ next \in 1 .. Len(schedule)
  BY DEF LifecycleInv, TypeOK
<1>2. CyclesAreMonotonic /\ Conflicts("measure") = {} /\ Conflicts("reset") = {}
  BY DEF LifecycleInv, PassesHeld
<1>3. \A i \in DOMAIN schedule : schedule[i].cycle \in Cycles
  BY <1>1, EventFacts
<1>4. \A i \in DOMAIN schedule : schedule[i].cycle \in Int
  BY <1>3, LifecycleAssumption DEF Cycles
<1>5. ASSUME NEW i \in DOMAIN schedule, NEW j \in DOMAIN schedule,
             schedule[i].kind \in {"measure", "reset"}, schedule[j].kind = "use",
             schedule[i].atom = schedule[j].atom, schedule[i].cycle = schedule[j].cycle
      PROVE  FALSE
  <2>1. schedule[i].cycle \in Conflicts(schedule[i].kind)
    BY <1>3, <1>5 DEF Conflicts
  <2>. QED
    BY <1>2, <1>5, <2>1
<1>6. \A i \in 1 .. next - 1 : i \in DOMAIN schedule /\ i < next
  BY <1>1
<1>. QED
  BY <1>1, <1>2, <1>4, <1>5, <1>6 DEF CyclesAreMonotonic

\* The past of the atom of the event that is visited, and how the visit adds to
\* it.
LEMMA PastOfVisited ==
  ASSUME LifecycleInv, pass = "lifecycle", next <= Len(schedule),
         NEW k, k = next, next' = k + 1, schedule' = schedule,
         NEW a, schedule[k].atom = a
  PROVE  /\ \A i \in 1 .. k - 1 : Between(i, k) = Visited(a, i)
         /\ \A i \in 1 .. k - 1 : Visited(a, i)' = Visited(a, i) \cup {k}
         /\ Visited(a, k)' = {} /\ IsLast(a, k)'
         /\ (1 .. next - 1)' = (1 .. k - 1) \cup {k}
<1>1. k \in Nat /\ k \in DOMAIN schedule
  BY VisitFacts
<1>2. ASSUME NEW i \in 1 .. k - 1
      PROVE  Visited(a, i)' = Visited(a, i) \cup {k}
  <2>1. i + 1 .. next' - 1 = (i + 1 .. next - 1) \cup {k}
    BY <1>1
  <2>. QED
    BY <2>1 DEF Visited
<1>3. Visited(a, k)' = {}
  <2>1. k + 1 .. next' - 1 = {}
    BY <1>1
  <2>. QED
    BY <2>1 DEF Visited
<1>4. (1 .. next - 1)' = (1 .. k - 1) \cup {k}
  BY <1>1
<1>5. \A i \in 1 .. k - 1 : Between(i, k) = Visited(a, i)
  BY DEF Between, Visited
<1>6. IsLast(a, k)'
  BY <1>3 DEF IsLast
<1>. QED
  BY <1>2, <1>3, <1>4, <1>5, <1>6

\* The phases of other atoms still tell what they told.
LEMMA OtherAtoms ==
  ASSUME LifecycleInv, pass = "lifecycle", next <= Len(schedule),
         next' = next + 1, schedule' = schedule,
         NEW a \in Atoms, schedule[next].atom # a, phase'[a] = phase[a]
  PROVE  PhaseTells(a)'
<1>1. next \in Nat /\ next \in DOMAIN schedule
  BY VisitFacts
<1>2. PhaseTells(a)
  BY DEF LifecycleInv
<1>3. ASSUME NEW i \in 1 .. next - 1 PROVE Visited(a, i)' = Visited(a, i)
  <2>1. i + 1 .. next' - 1 = (i + 1 .. next - 1) \cup {next}
    BY <1>1
  <2>. QED
    BY <2>1 DEF Visited
<1>4. (1 .. next - 1)' = (1 .. next - 1) \cup {next}
  BY <1>1
<1>5. \A i \in 1 .. next - 1 : IsLast(a, i)' <=> IsLast(a, i)
  BY <1>3 DEF IsLast
<1>6. Settled(a) => Settled(a)'
  BY <1>3, <1>4, <1>5 DEF Settled
<1>7. ASSUME NEW kind, NEW cycle PROVE LastIs(a, kind, cycle) => LastIs(a, kind, cycle)'
  BY <1>4, <1>5 DEF LastIs
<1>8. ASSUME NEW i \in 1 .. next - 1, NEW j \in (1 .. next - 1)',
             Visited(a, i)' = {j}
      PROVE  j \in 1 .. next - 1
  <2>1. j \in Visited(a, i)
    BY <1>3, <1>8
  <2>. QED
    BY <1>1, <2>1 DEF Visited
<1>9. (\E i, j \in 1 .. next - 1 :
         /\ schedule[i].atom = a /\ schedule[i].kind = "measure"
         /\ Visited(a, i) = {j})'
      <=> \E i, j \in 1 .. next - 1 :
            /\ schedule[i].atom = a /\ schedule[i].kind = "measure"
            /\ Visited(a, i) = {j}
  BY <1>3, <1>4, <1>8
<1>10. ReusedSince(a) => ReusedSince(a)'
  BY <1>3, <1>4 DEF ReusedSince
<1>. QED
  BY <1>2, <1>6, <1>7, <1>9, <1>10 DEF PhaseTells

\* An atom has one last event.
LEMMA OneLast ==
  ASSUME next \in Nat, NEW a, NEW i \in 1 .. next - 1, NEW j \in 1 .. next - 1,
         IsLast(a, i), IsLast(a, j)
  PROVE  i = j
<1>1. i \in Nat /\ j \in Nat /\ i < next /\ j < next
  OBVIOUS
<1>2. CASE i < j
  <2>1. j \in Visited(a, i)
    BY <1>1, <1>2 DEF Visited, IsLast
  <2>. QED
    BY <2>1 DEF IsLast
<1>3. CASE j < i
  <2>1. i \in Visited(a, j)
    BY <1>1, <1>3 DEF Visited, IsLast
  <2>. QED
    BY <2>1 DEF IsLast
<1>. QED
  BY <1>1, <1>2, <1>3

\* Unless it is the last event, a measurement has been followed by a reset.
LEMMA MeasurementRetired ==
  ASSUME LifecycleInv, NEW a \in Atoms, phase[a].kind # "measured",
         NEW i \in 1 .. next - 1, schedule[i].atom = a, schedule[i].kind = "measure"
  PROVE  \E j \in Visited(a, i) : schedule[j].kind = "reset"
<1>1. PhaseTells(a) /\ phase[a].kind \in {"none", "reset", "reused"} /\ next \in Nat
  BY PhaseFacts DEF LifecycleInv, TypeOK
<1>2. CASE phase[a].kind \in {"none", "reused"}
  BY <1>1, <1>2 DEF PhaseTells, Settled
<1>3. CASE phase[a].kind = "reset"
  <2>1. PICK j \in 1 .. next - 1 : IsLast(a, j) /\ schedule[j].kind = "reset"
    BY <1>1, <1>3 DEF PhaseTells, LastIs
  <2>2. i # j /\ ~(j < i)
    BY <1>1, <2>1 DEF IsLast, Visited
  <2>3. j \in Visited(a, i)
    BY <1>1, <2>1, <2>2 DEF IsLast, Visited
  <2>. QED
    BY <2>1, <2>3
<1>. QED
  BY <1>1, <1>2, <1>3

(***************************************************************************)
(* Returning and visiting.                                                 *)
(***************************************************************************)

\* Whether a schedule is legal depends on nothing else.
LEMMA SameLegal ==
  ASSUME schedule' = schedule PROVE Legal' = Legal
BY DEF Legal, CyclesAreMonotonic, WaitsAreBarriers, GateIsPrepared, ReuseIsReclaim,
       MeasurementIsSeparate, Between

\* An error is right when the schedule is illegal, or the measurement of a reuse
\* has been forgotten.
LEMMA ReturnKeeps ==
  ASSUME LifecycleInv, TypeOK', NEW error \in Errors, Return(error),
         ~Legal \/ (error = "ReuseBeforeMeasure" /\ MeasurementIsForgotten(next))
  PROVE  LifecycleInv'
<1>1. /\ pass' = "done" /\ verdict' = error /\ error # "ok" /\ schedule' = schedule
      /\ next' = next /\ phase' = phase
  BY DEF Return, Errors
<1>2. PassesHeld'
  BY <1>1 DEF PassesHeld
<1>3. RefusesIllegalOrForgotten'
  <2>1. Legal' = Legal
    BY <1>1, SameLegal
  <2>2. MeasurementIsForgotten(next)' = MeasurementIsForgotten(next)
    BY <1>1 DEF MeasurementIsForgotten, Between
  <2>. QED
    BY <1>1, <2>1, <2>2 DEF RefusesIllegalOrForgotten
<1>4. VisitedAreLegal'
  BY <1>1 DEF LifecycleInv, VisitedAreLegal, GateIsPrepared, ReuseIsImmediate,
              MeasurementIsSeparate, Between
<1>5. \A a \in Atoms : PhaseTells(a)'
  BY <1>1 DEF LifecycleInv, PhaseTells, Settled, ReusedSince, LastIs, IsLast, Visited
<1>. QED
  BY <1>2, <1>3, <1>4, <1>5 DEF LifecycleInv

\* A visit is right when the rules hold of its event and the new phase of its
\* atom tells the past with the event in it.
LEMMA VisitKeeps ==
  ASSUME LifecycleInv, TypeOK', pass = "lifecycle", next <= Len(schedule),
         next' = next + 1, UNCHANGED <<schedule, pass, verdict>>,
         \A a \in Atoms : schedule[next].atom # a => phase'[a] = phase[a],
         \A a \in Atoms : schedule[next].atom = a => PhaseTells(a)',
         GateIsPrepared(next), ReuseIsImmediate(next), MeasurementIsSeparate(next)
  PROVE  LifecycleInv'
<1>1. next \in Nat
  BY VisitFacts
<1>2. PassesHeld'
  BY DEF LifecycleInv, PassesHeld, CyclesAreMonotonic, WaitsAreBarriers, Conflicts
<1>3. RefusesIllegalOrForgotten'
  BY DEF RefusesIllegalOrForgotten
<1>4. VisitedAreLegal'
  <2>1. \A k \in (1 .. next - 1)' : k \in 1 .. next - 1 \/ k = next
    BY <1>1
  <2>2. \A k : GateIsPrepared(k)' = GateIsPrepared(k)
    BY DEF GateIsPrepared, Between
  <2>3. \A k : ReuseIsImmediate(k)' = ReuseIsImmediate(k)
    BY DEF ReuseIsImmediate, Between
  <2>4. \A k : MeasurementIsSeparate(k)' = MeasurementIsSeparate(k)
    BY DEF MeasurementIsSeparate, Between
  <2>. QED
    BY <2>1, <2>2, <2>3, <2>4 DEF LifecycleInv, VisitedAreLegal
<1>5. \A a \in Atoms : PhaseTells(a)'
  BY OtherAtoms
<1>. QED
  BY <1>2, <1>3, <1>4, <1>5 DEF LifecycleInv

(***************************************************************************)
(* The visits, one lemma each.                                             *)
(***************************************************************************)

\* What holds when an event of an atom is visited.
LEMMA AtomVisited ==
  ASSUME LifecycleInv, NEW kind \in AtomKinds, Visiting(kind),
         NEW k, k = next, NEW a, a = schedule[k].atom
  PROVE  /\ pass = "lifecycle" /\ k <= Len(schedule) /\ k \in Nat /\ k \in DOMAIN schedule
         /\ schedule[k].kind = kind /\ a \in Atoms /\ schedule[k].cycle \in Int
         /\ phase[a] \in Phases /\ PhaseTells(a) /\ phase \in [Atoms -> Phases]
         /\ \A i \in 1 .. k - 1 :
              /\ Between(i, k) = Visited(a, i) /\ i \in DOMAIN schedule /\ i < k
              /\ schedule[i].cycle \in Int /\ schedule[i].cycle <= schedule[k].cycle
<1>1. pass = "lifecycle" /\ k <= Len(schedule) /\ schedule[k].kind = kind
  BY DEF Visiting
<1>2. /\ k \in DOMAIN schedule /\ k \in Nat /\ schedule \in Seq(Event)
      /\ \A i \in 1 .. k - 1 : i \in DOMAIN schedule
      /\ \A i \in DOMAIN schedule : schedule[i].cycle \in Int
      /\ \A i \in 1 .. k - 1 : schedule[i].cycle <= schedule[k].cycle
  BY <1>1, VisitFacts
<1>3. a \in Atoms
  BY <1>1, <1>2, EventFacts DEF AtomKinds
<1>4. phase[a] \in Phases /\ PhaseTells(a) /\ phase \in [Atoms -> Phases]
  BY <1>3 DEF LifecycleInv, TypeOK
<1>5. \A i \in 1 .. k - 1 : Between(i, k) = Visited(a, i) /\ i < k
  BY <1>2 DEF Between, Visited
<1>. QED
  BY <1>1, <1>2, <1>3, <1>4, <1>5

\* After a gate or a reuse of an atom that was not just measured, nothing of its
\* past is left open.
LEMMA SettledAfter ==
  ASSUME LifecycleInv, pass = "lifecycle", next <= Len(schedule),
         NEW k, k = next, next' = k + 1, schedule' = schedule,
         NEW a \in Atoms, schedule[k].atom = a, schedule[k].kind \in {"use", "reuse"},
         phase[a].kind # "measured"
  PROVE  Settled(a)'
<1>1. /\ \A i \in 1 .. k - 1 : Visited(a, i)' = Visited(a, i) \cup {k}
      /\ (1 .. next - 1)' = (1 .. k - 1) \cup {k}
  BY PastOfVisited
<1>2. ASSUME NEW i \in (1 .. next - 1)', schedule[i].atom = a,
             schedule[i].kind \in {"measure", "reset"}
      PROVE  /\ ~IsLast(a, i)'
             /\ schedule[i].kind = "measure" => \E j \in Visited(a, i)' : schedule[j].kind = "reset"
  <2>1. i \in 1 .. k - 1
    BY <1>1, <1>2
  <2>2. Visited(a, i)' = Visited(a, i) \cup {k}
    BY <1>1, <2>1
  <2>3. ~IsLast(a, i)'
    BY <2>2 DEF IsLast
  <2>4. ASSUME schedule[i].kind = "measure" PROVE \E j \in Visited(a, i)' : schedule[j].kind = "reset"
    BY <1>2, <2>1, <2>2, <2>4, MeasurementRetired
  <2>. QED
    BY <2>3, <2>4
<1>. QED
  BY <1>2 DEF Settled

\* Entering a phase visits the event.
LEMMA EnterKeeps ==
  ASSUME LifecycleInv, TypeOK', NEW kind \in AtomKinds, Visiting(kind),
         NEW k, k = next, NEW a, a = schedule[k].atom,
         NEW p, Enter(a, p), phase'[a] = p => PhaseTells(a)',
         GateIsPrepared(k), ReuseIsImmediate(k), MeasurementIsSeparate(k)
  PROVE  LifecycleInv'
<1>1. /\ pass = "lifecycle" /\ next <= Len(schedule) /\ a \in Atoms
      /\ phase \in [Atoms -> Phases]
  BY AtomVisited
<1>2. /\ next' = next + 1 /\ UNCHANGED <<schedule, pass, verdict>>
      /\ phase' = [phase EXCEPT ![a] = p]
  BY DEF Enter
<1>3. /\ \A b \in Atoms : schedule[next].atom # b => phase'[b] = phase[b]
      /\ \A b \in Atoms : schedule[next].atom = b => PhaseTells(b)'
  BY <1>1, <1>2
<1>. QED
  BY <1>1, <1>2, <1>3, VisitKeeps

\* VisitMeasure.
LEMMA MeasureKeeps ==
  ASSUME LifecycleInv, TypeOK', VisitMeasure PROVE LifecycleInv'
<1>1. PICK k : k = next
  OBVIOUS
<1>2. PICK a : a = schedule[k].atom
  OBVIOUS
<1>3. Visiting("measure") /\ "measure" \in AtomKinds
  BY DEF VisitMeasure, AtomKinds
<1>. DEFINE c == schedule[k].cycle
<1>4. /\ pass = "lifecycle" /\ k <= Len(schedule) /\ k \in Nat /\ k \in DOMAIN schedule
      /\ schedule[k].kind = "measure" /\ a \in Atoms /\ c \in Int
      /\ phase[a] \in Phases /\ PhaseTells(a) /\ phase \in [Atoms -> Phases]
      /\ \A i \in 1 .. k - 1 :
           /\ Between(i, k) = Visited(a, i) /\ i \in DOMAIN schedule /\ i < k
           /\ schedule[i].cycle \in Int /\ schedule[i].cycle <= c
  BY <1>1, <1>2, <1>3, AtomVisited
<1>5. CASE phase[a].kind = "measured"
  <2>1. PICK i \in 1 .. k - 1 : IsLast(a, i) /\ schedule[i].kind = "measure"
    BY <1>1, <1>4, <1>5 DEF PhaseTells, LastIs
  <2>2. ~MeasurementIsSeparate(k)
    BY <1>2, <1>4, <2>1 DEF MeasurementIsSeparate, IsLast
  <2>3. ~Legal
    BY <1>4, <2>2 DEF Legal
  <2>4. Return("DoubleMeasureWithoutReset")
    BY <1>1, <1>2, <1>5 DEF VisitMeasure
  <2>. QED
    BY <2>3, <2>4, ReturnKeeps DEF Errors
<1>6. CASE phase[a].kind = "reset" /\ phase[a].cycle = c
  <2>1. PICK i \in 1 .. k - 1 :
          IsLast(a, i) /\ schedule[i].kind = "reset" /\ schedule[i].cycle = c
    BY <1>1, <1>4, <1>6 DEF PhaseTells, LastIs
  <2>2. ~MeasurementIsSeparate(k)
    BY <1>2, <1>4, <2>1 DEF MeasurementIsSeparate, IsLast
  <2>3. ~Legal
    BY <1>4, <2>2 DEF Legal
  <2>4. Return("ResetBeforeMeasure")
    BY <1>1, <1>2, <1>6 DEF VisitMeasure
  <2>. QED
    BY <2>3, <2>4, ReturnKeeps DEF Errors
<1>7. CASE phase[a].kind # "measured" /\ ~(phase[a].kind = "reset" /\ phase[a].cycle = c)
  <2>1. Enter(a, Phase("measured", c, NoCycle))
    BY <1>1, <1>2, <1>7 DEF VisitMeasure
  <2>2. GateIsPrepared(k) /\ ReuseIsImmediate(k)
    BY <1>4 DEF GateIsPrepared, ReuseIsImmediate
  <2>3. ASSUME NEW i \in 1 .. k - 1, schedule[i].atom = a, schedule[i].kind = "measure"
        PROVE  \E j \in Between(i, k) : schedule[j].kind = "reset"
    BY <1>1, <1>4, <1>7, <2>3, MeasurementRetired
  <2>4. ASSUME NEW i \in 1 .. k - 1, schedule[i].atom = a, schedule[i].kind = "reset",
               Between(i, k) = {}
        PROVE  schedule[i].cycle < c
    <3>1. IsLast(a, i)
      BY <1>4, <2>4 DEF IsLast
    <3>2. phase[a].kind = "reset"
      BY <1>1, <1>4, <1>7, <2>4, <3>1, PhaseFacts DEF PhaseTells, Settled
    <3>3. PICK j \in 1 .. k - 1 : IsLast(a, j) /\ schedule[j].cycle = phase[a].cycle
      BY <1>1, <1>4, <3>2 DEF PhaseTells, LastIs
    <3>4. i = j
      BY <1>1, <1>4, <3>1, <3>3, OneLast
    <3>. QED
      BY <1>4, <1>7, <3>2, <3>3, <3>4
  <2>5. MeasurementIsSeparate(k)
    BY <1>2, <2>3, <2>4 DEF MeasurementIsSeparate
  <2>6. PhaseTells(a)'
    <3>1. next' = k + 1 /\ schedule' = schedule /\ phase'[a] = Phase("measured", c, NoCycle)
      BY <1>1, <1>4, <2>1 DEF Enter
    <3>2. IsLast(a, k)' /\ k \in (1 .. next - 1)'
      BY <1>1, <1>2, <1>4, <3>1, PastOfVisited
    <3>3. phase'[a].kind = "measured" /\ phase'[a].cycle = c
      BY <3>1 DEF Phase
    <3>4. LastIs(a, "measure", phase[a].cycle)'
      BY <1>4, <3>1, <3>2, <3>3 DEF LastIs
    <3>. QED
      BY <3>3, <3>4 DEF PhaseTells
  <2>. QED
    BY <1>1, <1>2, <1>3, <2>1, <2>2, <2>5, <2>6, EnterKeeps
<1>. QED
  BY <1>5, <1>6, <1>7

\* VisitReset.
LEMMA ResetKeeps ==
  ASSUME LifecycleInv, TypeOK', VisitReset PROVE LifecycleInv'
<1>1. PICK k : k = next
  OBVIOUS
<1>2. PICK a : a = schedule[k].atom
  OBVIOUS
<1>3. Visiting("reset") /\ "reset" \in AtomKinds
  BY DEF VisitReset, AtomKinds
<1>. DEFINE c == schedule[k].cycle
<1>4. /\ pass = "lifecycle" /\ k <= Len(schedule) /\ k \in Nat /\ k \in DOMAIN schedule
      /\ schedule[k].kind = "reset" /\ a \in Atoms /\ c \in Int
      /\ phase[a] \in Phases /\ PhaseTells(a) /\ phase \in [Atoms -> Phases]
      /\ \A i \in 1 .. k - 1 :
           /\ Between(i, k) = Visited(a, i) /\ i \in DOMAIN schedule /\ i < k
           /\ schedule[i].cycle \in Int /\ schedule[i].cycle <= c
  BY <1>1, <1>2, <1>3, AtomVisited
<1>. DEFINE m == IF phase[a].kind = "measured" THEN phase[a].cycle ELSE NoCycle
<1>5. Enter(a, Phase("reset", c, m))
  BY <1>1, <1>2 DEF VisitReset
<1>6. GateIsPrepared(k) /\ ReuseIsImmediate(k) /\ MeasurementIsSeparate(k)
  BY <1>4 DEF GateIsPrepared, ReuseIsImmediate, MeasurementIsSeparate
<1>7. /\ next' = k + 1 /\ schedule' = schedule
      /\ phase'[a] = [kind |-> "reset", cycle |-> c, measured |-> m]
  BY <1>1, <1>4, <1>5 DEF Enter, Phase
<1>8. /\ \A i \in 1 .. k - 1 : Visited(a, i)' = Visited(a, i) \cup {k} /\ k \notin Visited(a, i)
      /\ Visited(a, k)' = {} /\ IsLast(a, k)'
      /\ (1 .. next - 1)' = (1 .. k - 1) \cup {k}
  <2>1. \A i \in 1 .. k - 1 : k \notin Visited(a, i)
    BY <1>1, <1>4 DEF Visited
  <2>. QED
    BY <1>1, <1>2, <1>4, <1>7, <2>1, PastOfVisited
<1>9. LastIs(a, "reset", phase[a].cycle)'
  BY <1>4, <1>7, <1>8 DEF LastIs
<1>10. (\E i, j \in 1 .. next - 1 :
          /\ schedule[i].atom = a /\ schedule[i].kind = "measure"
          /\ Visited(a, i) = {j})'
       <=> \E i \in 1 .. k - 1 : IsLast(a, i) /\ schedule[i].kind = "measure"
  <2>1. ASSUME NEW i \in (1 .. next - 1)', NEW j \in (1 .. next - 1)',
               schedule[i].atom = a, schedule[i].kind = "measure", Visited(a, i)' = {j}
        PROVE  i \in 1 .. k - 1 /\ IsLast(a, i)
    <3>1. i # k
      BY <1>4, <2>1
    <3>2. i \in 1 .. k - 1 /\ Visited(a, i) \cup {k} = {j} /\ k \notin Visited(a, i)
      BY <1>8, <2>1, <3>1
    <3>3. Visited(a, i) = {}
      BY <3>2
    <3>. QED
      BY <2>1, <3>2, <3>3 DEF IsLast
  <2>2. ASSUME NEW i \in 1 .. k - 1, IsLast(a, i), schedule[i].kind = "measure"
        PROVE  Visited(a, i)' = {k} /\ schedule[i].atom = a
    BY <1>8, <2>2 DEF IsLast
  <2>. QED
    BY <1>7, <1>8, <2>1, <2>2
<1>11. m # NoCycle <=> phase[a].kind = "measured"
  BY <1>4, PhaseFacts, LifecycleAssumption DEF Cycles, NoCycle
<1>12. phase[a].kind = "measured" <=>
         \E i \in 1 .. k - 1 : IsLast(a, i) /\ schedule[i].kind = "measure"
  <2>1. CASE phase[a].kind = "measured"
    BY <1>1, <1>4, <2>1 DEF PhaseTells, LastIs
  <2>2. ASSUME phase[a].kind # "measured",
               NEW i \in 1 .. k - 1, IsLast(a, i), schedule[i].kind = "measure"
        PROVE  FALSE
    <3>1. \E j \in Visited(a, i) : schedule[j].kind = "reset"
      BY <1>1, <1>4, <2>2, MeasurementRetired DEF IsLast
    <3>. QED
      BY <2>2, <3>1 DEF IsLast
  <2>. QED
    BY <2>1, <2>2
<1>13. PhaseTells(a)'
  BY <1>7, <1>9, <1>10, <1>11, <1>12 DEF PhaseTells
<1>. QED
  BY <1>1, <1>2, <1>3, <1>5, <1>6, <1>13, EnterKeeps

\* An immediate reuse is a reclaim.
LEMMA ImmediateIsReclaim ==
  ASSUME NEW k \in DOMAIN schedule, ReuseIsImmediate(k)
  PROVE  ReuseIsReclaim(k)
BY DEF ReuseIsImmediate, ReuseIsReclaim

\* VisitReuse.
LEMMA ReuseKeeps ==
  ASSUME LifecycleInv, TypeOK', VisitReuse PROVE LifecycleInv'
<1>1. PICK k : k = next
  OBVIOUS
<1>2. PICK a : a = schedule[k].atom
  OBVIOUS
<1>3. Visiting("reuse") /\ "reuse" \in AtomKinds
  BY DEF VisitReuse, AtomKinds
<1>. DEFINE c == schedule[k].cycle
<1>4. /\ pass = "lifecycle" /\ k <= Len(schedule) /\ k \in Nat /\ k \in DOMAIN schedule
      /\ schedule[k].kind = "reuse" /\ a \in Atoms /\ c \in Int
      /\ phase[a] \in Phases /\ PhaseTells(a) /\ phase \in [Atoms -> Phases]
      /\ \A i \in 1 .. k - 1 :
           /\ Between(i, k) = Visited(a, i) /\ i \in DOMAIN schedule /\ i < k
           /\ schedule[i].cycle \in Int /\ schedule[i].cycle <= c
  BY <1>1, <1>2, <1>3, AtomVisited
<1>. DEFINE p == phase[a]
            Fresh(i, j) == /\ schedule[i].kind = "measure" /\ schedule[j].kind = "reset"
                           /\ schedule[i].atom = a /\ schedule[j].atom = a
                           /\ Visited(a, i) = {j} /\ schedule[j].cycle < c
<1>5. ReuseIsImmediate(k) <=> \E i, j \in 1 .. k - 1 : Fresh(i, j)
  BY <1>2, <1>4 DEF ReuseIsImmediate
<1>6. ASSUME NEW i \in 1 .. k - 1, NEW j \in 1 .. k - 1, Visited(a, i) = {j}
      PROVE  schedule[j].atom = a /\ IsLast(a, j)
  <2>1. j \in Visited(a, i)
    BY <1>6
  <2>2. Visited(a, j) \subseteq Visited(a, i) /\ j \notin Visited(a, j)
    BY <1>1, <1>4, <2>1 DEF Visited
  <2>. QED
    BY <1>6, <2>1, <2>2 DEF IsLast, Visited
<1>7. ASSUME NEW i \in 1 .. k - 1, NEW j \in 1 .. k - 1, IsLast(a, i), IsLast(a, j)
      PROVE  i = j
  BY <1>1, <1>4, <1>7, OneLast
<1>. DEFINE Reclaim(i) ==
              /\ schedule[i].kind = "measure" /\ schedule[i].atom = a
              /\ \A j \in Visited(a, i) : schedule[j].kind \notin {"measure", "reuse"}
              /\ \E j \in Visited(a, i) : schedule[j].kind = "reset"
              /\ \A j \in Visited(a, i) : schedule[j].kind = "reset" => schedule[j].cycle < c
<1>8. ReuseIsReclaim(k) => \E i \in 1 .. k - 1 : Reclaim(i)
  BY <1>2, <1>4 DEF ReuseIsReclaim
<1>9. ASSUME NEW e \in Errors, Return(e),
             \A i \in 1 .. k - 1 : Reclaim(i) =>
               e = "ReuseBeforeMeasure" /\ MeasurementIsForgotten(k)
      PROVE  LifecycleInv'
  <2>1. ~Legal \/ (e = "ReuseBeforeMeasure" /\ MeasurementIsForgotten(k))
    BY <1>4, <1>8, <1>9 DEF Legal
  <2>. QED
    BY <1>1, <1>9, <2>1, ReturnKeeps
<1>10. ASSUME NEW i \in 1 .. k - 1, Reclaim(i), NEW j \in Visited(a, i), NEW l \in Visited(a, i),
              j < l, schedule[j].kind = "reset"
       PROVE  MeasurementIsForgotten(k)
  <2>1. /\ schedule[l].kind \notin {"measure", "reuse"} /\ schedule[l].atom = a
        /\ l \in DOMAIN schedule /\ schedule \in Seq(Event)
    BY <1>1, <1>4, <1>10, VisitFacts DEF Visited
  <2>2. schedule[l].kind \in {"reset", "use"}
    BY <1>4, <2>1, EventFacts, LifecycleAssumption DEF AtomKinds
  <2>3. j \in Between(i, k) /\ l \in Between(i, k)
    BY <1>4, <1>10
  <2>. QED
    BY <1>2, <1>4, <1>10, <2>2, <2>3 DEF MeasurementIsForgotten
<1>11. ASSUME NEW i \in 1 .. k - 1, schedule[i].kind = "measure", schedule[i].atom = a,
              NEW l \in 1 .. k - 1, IsLast(a, l), i # l
       PROVE  l \in Visited(a, i)
  <2>1. next \in Nat /\ i \in 1 .. next - 1 /\ l \in 1 .. next - 1
        /\ schedule[i].atom = a /\ schedule[l].atom = a /\ Visited(a, l) = {}
    BY <1>1, <1>4, <1>11 DEF IsLast
  <2>2. ASSUME l < i PROVE i \in Visited(a, l)
    BY <2>1, <2>2 DEF Visited
  <2>3. i < l
    BY <1>11, <2>1, <2>2
  <2>. QED
    BY <2>1, <2>3 DEF Visited
<1>12. CASE p.kind = "none"
  <2>1. Return("ReuseBeforeMeasure")
    BY <1>1, <1>2, <1>12 DEF VisitReuse
  <2>2. ASSUME NEW i \in 1 .. k - 1, Reclaim(i) PROVE MeasurementIsForgotten(k)
    <3>1. PICK j \in Visited(a, i) : schedule[j].kind = "reset"
      BY <2>2
    <3>2. j \in 1 .. k - 1 /\ schedule[j].atom = a /\ i < j
      BY <1>1, <1>4, <3>1 DEF Visited
    <3>3. PICK l : l \in Visited(a, j)
      BY <1>1, <1>4, <1>12, <3>1, <3>2 DEF PhaseTells, Settled, IsLast
    <3>4. l \in Visited(a, i) /\ j < l
      BY <1>1, <1>4, <3>2, <3>3 DEF Visited
    <3>. QED
      BY <1>10, <2>2, <3>1, <3>4
  <2>. QED
    BY <1>9, <2>1, <2>2 DEF Errors
<1>13. CASE p.kind = "reused"
  <2>1. \E e \in Errors : Return(e)
    BY <1>1, <1>2, <1>13 DEF VisitReuse, Errors
  <2>2. PICK l \in 1 .. k - 1 :
          /\ schedule[l].atom = a /\ schedule[l].kind = "reuse"
          /\ \A j \in Visited(a, l) : schedule[j].kind # "measure"
    BY <1>1, <1>4, <1>13 DEF PhaseTells, ReusedSince
  <2>3. ASSUME NEW i \in 1 .. k - 1, Reclaim(i) PROVE FALSE
    <3>1. i # l /\ l \notin Visited(a, i) /\ i \notin Visited(a, l)
      BY <2>2, <2>3
    <3>. QED
      BY <1>1, <1>4, <2>2, <2>3, <3>1 DEF Visited
  <2>. QED
    BY <1>9, <2>1, <2>3
<1>14. CASE p.kind = "measured"
  <2>1. \E e \in Errors : Return(e)
    BY <1>1, <1>2, <1>14 DEF VisitReuse, Errors
  <2>2. PICK l \in 1 .. k - 1 : IsLast(a, l) /\ schedule[l].kind = "measure"
    BY <1>1, <1>4, <1>14 DEF PhaseTells, LastIs
  <2>3. ASSUME NEW i \in 1 .. k - 1, Reclaim(i) PROVE FALSE
    <3>1. i # l
      BY <2>2, <2>3 DEF IsLast
    <3>. QED
      BY <1>11, <2>2, <2>3, <3>1
  <2>. QED
    BY <1>9, <2>1, <2>3
<1>15. CASE p.kind = "reset"
  <2>1. PICK l \in 1 .. k - 1 :
          IsLast(a, l) /\ schedule[l].kind = "reset" /\ schedule[l].cycle = p.cycle
    BY <1>1, <1>4, <1>15 DEF PhaseTells, LastIs
  <2>2. p.measured # NoCycle <=>
          \E i, j \in 1 .. k - 1 :
            schedule[i].atom = a /\ schedule[i].kind = "measure" /\ Visited(a, i) = {j}
    BY <1>1, <1>4, <1>15 DEF PhaseTells
  <2>3. CASE p.measured = NoCycle
    <3>1. Return("ReuseBeforeMeasure")
      BY <1>1, <1>2, <1>15, <2>3 DEF VisitReuse
    <3>2. ASSUME NEW i \in 1 .. k - 1, Reclaim(i) PROVE MeasurementIsForgotten(k)
      <4>1. l \in Visited(a, i)
        BY <1>11, <2>1, <3>2
      <4>2. PICK m \in Visited(a, i) : m # l
        BY <2>1, <2>2, <2>3, <3>2, <4>1
      <4>3. m \in 1 .. k - 1 /\ schedule[m].atom = a /\ i < m /\ m < k
        BY <1>1, <1>4, <4>2 DEF Visited
      <4>4. m < l
        <5>1. next \in Nat /\ m \in 1 .. next - 1 /\ l \in 1 .. next - 1 /\ Visited(a, l) = {}
          BY <1>1, <1>4, <2>1, <4>3 DEF IsLast
        <5>2. ASSUME l < m PROVE m \in Visited(a, l)
          BY <4>3, <5>1, <5>2 DEF Visited
        <5>. QED
          BY <4>2, <5>1, <5>2
      <4>5. CASE schedule[m].kind = "reset"
        BY <1>10, <3>2, <4>1, <4>2, <4>4, <4>5
      <4>6. CASE schedule[m].kind = "use"
        <5>1. GateIsPrepared(m)
          BY <1>1, <4>3 DEF LifecycleInv, VisitedAreLegal
        <5>2. PICK j \in Between(i, m) : schedule[j].kind = "reset"
          BY <1>4, <3>2, <4>3, <4>6, <5>1 DEF GateIsPrepared
        <5>3. j \in Visited(a, i) /\ j < l
          BY <1>1, <1>4, <4>3, <4>4, <5>2 DEF Between, Visited
        <5>. QED
          BY <1>10, <3>2, <4>1, <5>2, <5>3
      <4>7. schedule[m].kind \in {"reset", "use"}
        <5>1. m \in DOMAIN schedule /\ schedule \in Seq(Event)
          BY <1>1, <1>4, <4>3, VisitFacts
        <5>2. schedule[m].kind \notin {"measure", "reuse"}
          BY <3>2, <4>2
        <5>. QED
          BY <1>4, <4>3, <5>1, <5>2, EventFacts, LifecycleAssumption DEF AtomKinds
      <4>. QED
        BY <4>5, <4>6, <4>7
    <3>. QED
      BY <1>9, <3>1, <3>2 DEF Errors
  <2>4. CASE p.measured # NoCycle /\ c <= p.cycle
    <3>1. \E e \in Errors : Return(e)
      BY <1>1, <1>2, <1>15, <2>4 DEF VisitReuse, Errors
    <3>2. ASSUME NEW i \in 1 .. k - 1, Reclaim(i) PROVE FALSE
      <4>1. l \in Visited(a, i)
        BY <1>11, <2>1, <3>2
      <4>2. schedule[l].cycle < c /\ schedule[l].cycle \in Int
        BY <1>4, <2>1, <3>2, <4>1
      <4>. QED
        BY <1>4, <2>1, <2>4, <4>2
    <3>. QED
      BY <1>9, <3>1, <3>2
  <2>5. CASE p.measured # NoCycle /\ ~(c <= p.cycle)
    <3>1. Enter(a, Phase("reused", c, NoCycle))
      BY <1>1, <1>2, <1>15, <2>5 DEF VisitReuse
    <3>2. PICK i \in 1 .. k - 1, j \in 1 .. k - 1 :
            schedule[i].atom = a /\ schedule[i].kind = "measure" /\ Visited(a, i) = {j}
      BY <2>2, <2>5
    <3>3. j = l
      BY <1>6, <1>7, <2>1, <3>2
    <3>4. ReuseIsImmediate(k)
      BY <1>4, <1>5, <1>6, <2>1, <2>5, <3>2, <3>3
    <3>5. GateIsPrepared(k) /\ MeasurementIsSeparate(k)
      BY <1>4 DEF GateIsPrepared, MeasurementIsSeparate
    <3>6. /\ next' = k + 1 /\ schedule' = schedule
          /\ phase'[a] = [kind |-> "reused", cycle |-> c, measured |-> NoCycle]
      BY <1>1, <1>4, <3>1 DEF Enter, Phase
    <3>7. Settled(a)'
      BY <1>1, <1>2, <1>4, <1>15, <3>6, SettledAfter
    <3>8. ReusedSince(a)'
      <4>1. k \in (1 .. next - 1)' /\ Visited(a, k)' = {}
        BY <1>1, <1>2, <1>4, <3>6, PastOfVisited
      <4>. QED
        BY <1>2, <1>4, <3>6, <4>1 DEF ReusedSince
    <3>9. PhaseTells(a)'
      BY <3>6, <3>7, <3>8 DEF PhaseTells
    <3>. QED
      BY <1>1, <1>2, <1>3, <3>1, <3>4, <3>5, <3>9, EnterKeeps
  <2>. QED
    BY <2>3, <2>4, <2>5
<1>. QED
  BY <1>4, <1>12, <1>13, <1>14, <1>15, PhaseFacts

\* VisitUse.
LEMMA UseKeeps ==
  ASSUME LifecycleInv, TypeOK', VisitUse PROVE LifecycleInv'
<1>1. PICK k : k = next
  OBVIOUS
<1>2. PICK a : a = schedule[k].atom
  OBVIOUS
<1>3. Visiting("use") /\ "use" \in AtomKinds
  BY DEF VisitUse, AtomKinds
<1>. DEFINE c == schedule[k].cycle
<1>4. /\ pass = "lifecycle" /\ k <= Len(schedule) /\ k \in Nat /\ k \in DOMAIN schedule
      /\ schedule[k].kind = "use" /\ a \in Atoms /\ c \in Int
      /\ phase[a] \in Phases /\ PhaseTells(a) /\ phase \in [Atoms -> Phases]
      /\ \A i \in 1 .. k - 1 :
           /\ Between(i, k) = Visited(a, i) /\ i \in DOMAIN schedule /\ i < k
           /\ schedule[i].cycle \in Int /\ schedule[i].cycle <= c
  BY <1>1, <1>2, <1>3, AtomVisited
<1>5. \A i \in DOMAIN schedule :
        schedule[i].atom = a /\ schedule[i].kind \in {"measure", "reset"} =>
          schedule[i].cycle # c
  BY <1>1, <1>2, <1>4, VisitFacts
<1>6. ASSUME phase[a].kind \in {"measured", "reset"} PROVE c > phase[a].cycle
  <2>1. PICK i \in 1 .. k - 1 :
          /\ IsLast(a, i) /\ schedule[i].cycle = phase[a].cycle
          /\ schedule[i].kind \in {"measure", "reset"}
    BY <1>1, <1>4, <1>6 DEF PhaseTells, LastIs
  <2>2. schedule[i].atom = a
    BY <2>1 DEF IsLast
  <2>. QED
    BY <1>4, <1>5, <2>1, <2>2
<1>7. CASE phase[a].kind = "measured"
  <2>1. PICK i \in 1 .. k - 1 : IsLast(a, i) /\ schedule[i].kind = "measure"
    BY <1>1, <1>4, <1>7 DEF PhaseTells, LastIs
  <2>2. ~GateIsPrepared(k)
    BY <1>2, <1>4, <2>1 DEF GateIsPrepared, IsLast
  <2>3. ~Legal
    BY <1>4, <2>2 DEF Legal
  <2>4. Return("MeasureReuseWithoutReset")
    BY <1>1, <1>2, <1>6, <1>7 DEF VisitUse
  <2>. QED
    BY <2>3, <2>4, ReturnKeeps DEF Errors
<1>8. CASE phase[a].kind # "measured"
  <2>1. PICK p : Enter(a, p) /\ p.kind \in {"none", "reused"}
    <3>1. CASE phase[a].kind = "reset"
      <4>1. Enter(a, NoPhase)
        BY <1>1, <1>2, <1>6, <3>1 DEF VisitUse
      <4>2. NoPhase.kind = "none"
        BY DEF NoPhase, Phase
      <4>. QED
        BY <4>1, <4>2
    <3>2. CASE phase[a].kind \in {"none", "reused"}
      BY <1>1, <1>2, <3>2 DEF VisitUse
    <3>. QED
      BY <1>4, <1>8, <3>1, <3>2, PhaseFacts
  <2>2. ASSUME NEW i \in DOMAIN schedule, schedule[i].atom = a,
               schedule[i].kind = "measure", i < k
        PROVE  \E j \in Between(i, k) :
                 schedule[j].kind = "reset" /\ schedule[j].cycle < c
    <3>1. i \in 1 .. k - 1
      BY <1>4, <2>2
    <3>2. PICK j \in Visited(a, i) : schedule[j].kind = "reset"
      BY <1>1, <1>4, <1>8, <2>2, <3>1, MeasurementRetired
    <3>3. j \in 1 .. k - 1 /\ schedule[j].atom = a
      BY <1>1, <1>4, <3>1, <3>2 DEF Visited
    <3>. QED
      BY <1>4, <1>5, <3>1, <3>2, <3>3
  <2>3. GateIsPrepared(k)
    BY <1>2, <1>5, <2>2 DEF GateIsPrepared
  <2>4. ReuseIsImmediate(k) /\ MeasurementIsSeparate(k)
    BY <1>4 DEF ReuseIsImmediate, MeasurementIsSeparate
  <2>5. next' = k + 1 /\ schedule' = schedule /\ phase'[a] = p
    BY <1>1, <1>4, <2>1 DEF Enter
  <2>6. Settled(a)'
    BY <1>1, <1>2, <1>4, <1>8, <2>5, SettledAfter
  <2>7. p.kind = "reused" => ReusedSince(a)'
    <3>1. SUFFICES ASSUME p.kind = "reused" PROVE ReusedSince(a)'
      OBVIOUS
    <3>2. p = phase[a]
      BY <1>1, <1>2, <1>4, <1>6, <1>8, <2>5, <3>1 DEF VisitUse, Enter, NoPhase, Phase
    <3>3. PICK i \in 1 .. k - 1 :
            /\ schedule[i].atom = a /\ schedule[i].kind = "reuse"
            /\ \A j \in Visited(a, i) : schedule[j].kind # "measure"
      BY <1>1, <1>4, <3>1, <3>2 DEF PhaseTells, ReusedSince
    <3>4. Visited(a, i)' = Visited(a, i) \cup {k} /\ i \in (1 .. next - 1)'
      BY <1>1, <1>2, <1>4, <2>5, PastOfVisited
    <3>. QED
      BY <1>4, <2>5, <3>3, <3>4 DEF ReusedSince
  <2>8. PhaseTells(a)'
    BY <2>1, <2>5, <2>6, <2>7 DEF PhaseTells
  <2>. QED
    BY <1>1, <1>2, <1>3, <2>1, <2>3, <2>4, <2>8, EnterKeeps
<1>. QED
  BY <1>7, <1>8

\* VisitOther.
LEMMA OtherKeeps ==
  ASSUME LifecycleInv, TypeOK', VisitOther PROVE LifecycleInv'
<1>1. /\ pass = "lifecycle" /\ next <= Len(schedule) /\ next' = next + 1
      /\ schedule[next].kind \in {"wait", "global"}
      /\ UNCHANGED <<schedule, pass, phase, verdict>>
  BY DEF VisitOther, Visiting
<1>2. schedule[next].atom = NoAtom
  BY <1>1, VisitFacts, EventFacts DEF AtomKinds
<1>3. GateIsPrepared(next) /\ ReuseIsImmediate(next) /\ MeasurementIsSeparate(next)
  BY <1>1 DEF GateIsPrepared, ReuseIsImmediate, MeasurementIsSeparate
<1>. QED
  BY <1>1, <1>2, <1>3, VisitKeeps, LifecycleAssumption

(***************************************************************************)
(* The other steps.                                                        *)
(***************************************************************************)

\* Nothing is visited while the schedule is emitted and the first passes run.
LEMMA EarlyPhases ==
  ASSUME LifecycleInv, pass \in {"emit", "cycles", "waits", "conflicts"},
         next' = next, phase' = phase
  PROVE  VisitedAreLegal' /\ \A a \in Atoms : PhaseTells(a)'
<1>1. next = 1 /\ 1 .. next - 1 = {} /\ (1 .. next - 1)' = {}
  BY DEF LifecycleInv, PassesHeld
<1>2. VisitedAreLegal'
  BY <1>1 DEF VisitedAreLegal
<1>3. \A a \in Atoms : Settled(a)'
  BY <1>1 DEF Settled
<1>4. \A a \in Atoms : phase[a].kind \notin {"measured", "reset", "reused"}
  BY <1>1 DEF LifecycleInv, PhaseTells, LastIs, ReusedSince
<1>. QED
  BY <1>2, <1>3, <1>4 DEF PhaseTells

\* Emitting, and a pass that hands over to the next one.
LEMMA EmitKeeps ==
  ASSUME LifecycleInv, TypeOK', Emit PROVE LifecycleInv'
<1>1. /\ pass = "emit" /\ pass' \in {"emit", "cycles"}
      /\ UNCHANGED <<next, phase, verdict>>
  BY DEF Emit, EmitEvent, EmitDone
<1>2. VisitedAreLegal' /\ \A a \in Atoms : PhaseTells(a)'
  BY <1>1, EarlyPhases
<1>3. PassesHeld' /\ RefusesIllegalOrForgotten'
  BY <1>1 DEF LifecycleInv, PassesHeld, RefusesIllegalOrForgotten
<1>. QED
  BY <1>2, <1>3 DEF LifecycleInv

\* The passes over whole schedules.
LEMMA PassesKeep ==
  ASSUME LifecycleInv, TypeOK', CheckCycles \/ CheckWaits \/ CheckConflicts \/ Accept
  PROVE  LifecycleInv'
<1>1. CASE CheckCycles
  <2>1. CASE CyclesAreMonotonic
    <3>1. pass = "cycles" /\ pass' = "waits" /\ UNCHANGED <<schedule, next, phase, verdict>>
      BY <1>1, <2>1 DEF CheckCycles, Proceed
    <3>2. VisitedAreLegal' /\ \A a \in Atoms : PhaseTells(a)'
      BY <3>1, EarlyPhases
    <3>3. PassesHeld' /\ RefusesIllegalOrForgotten'
      BY <2>1, <3>1 DEF LifecycleInv, PassesHeld, RefusesIllegalOrForgotten, CyclesAreMonotonic
    <3>. QED
      BY <3>2, <3>3 DEF LifecycleInv
  <2>2. CASE ~CyclesAreMonotonic
    BY <1>1, <2>2, ReturnKeeps DEF CheckCycles, Errors, Legal
  <2>. QED
    BY <2>1, <2>2
<1>2. CASE CheckWaits
  <2>1. CASE WaitsAreBarriers
    <3>1. pass = "waits" /\ pass' = "conflicts" /\ UNCHANGED <<schedule, next, phase, verdict>>
      BY <1>2, <2>1 DEF CheckWaits, Proceed
    <3>2. VisitedAreLegal' /\ \A a \in Atoms : PhaseTells(a)'
      BY <3>1, EarlyPhases
    <3>3. PassesHeld' /\ RefusesIllegalOrForgotten'
      BY <2>1, <3>1 DEF LifecycleInv, PassesHeld, RefusesIllegalOrForgotten, CyclesAreMonotonic,
                        WaitsAreBarriers
    <3>. QED
      BY <3>2, <3>3 DEF LifecycleInv
  <2>2. CASE ~WaitsAreBarriers
    BY <1>2, <2>2, ReturnKeeps DEF CheckWaits, Errors, Legal
  <2>. QED
    BY <2>1, <2>2
<1>3. CASE CheckConflicts
  <2>1. CASE Conflicts("measure") \cup Conflicts("reset") = {}
    <3>1. pass = "conflicts" /\ pass' = "lifecycle" /\ UNCHANGED <<schedule, next, phase, verdict>>
      BY <1>3, <2>1 DEF CheckConflicts, Proceed
    <3>2. VisitedAreLegal' /\ \A a \in Atoms : PhaseTells(a)'
      BY <3>1, EarlyPhases
    <3>3. PassesHeld' /\ RefusesIllegalOrForgotten'
      BY <2>1, <3>1 DEF LifecycleInv, PassesHeld, RefusesIllegalOrForgotten, CyclesAreMonotonic,
                        WaitsAreBarriers, Conflicts
    <3>. QED
      BY <3>2, <3>3 DEF LifecycleInv
  <2>2. CASE Conflicts("measure") \cup Conflicts("reset") # {}
    <3>1. PICK kind \in {"measure", "reset"}, d \in Cycles : d \in Conflicts(kind)
      BY <2>2 DEF Conflicts
    <3>2. PICK i \in DOMAIN schedule, j \in DOMAIN schedule :
            /\ schedule[i].cycle = schedule[j].cycle /\ schedule[i].kind = kind
            /\ schedule[j].kind = "use" /\ schedule[i].atom = schedule[j].atom
      BY <3>1 DEF Conflicts
    <3>3. ~GateIsPrepared(j)
      BY <3>1, <3>2 DEF GateIsPrepared
    <3>4. ~Legal
      BY <3>2, <3>3 DEF Legal
    <3>5. \E e \in Errors : Return(e)
      BY <1>3, <2>2 DEF CheckConflicts, Errors
    <3>. QED
      BY <3>4, <3>5, ReturnKeeps
  <2>. QED
    BY <2>1, <2>2
<1>4. CASE Accept
  <2>1. /\ pass = "lifecycle" /\ next > Len(schedule) /\ pass' = "done"
        /\ UNCHANGED <<schedule, next, phase, verdict>>
    BY <1>4 DEF Accept, Proceed
  <2>2. verdict = "ok" /\ next = Len(schedule) + 1
    BY <2>1 DEF LifecycleInv, PassesHeld, TypeOK
  <2>3. PassesHeld' /\ RefusesIllegalOrForgotten'
    BY <2>1, <2>2 DEF LifecycleInv, PassesHeld, RefusesIllegalOrForgotten, CyclesAreMonotonic,
                      WaitsAreBarriers, Conflicts
  <2>4. VisitedAreLegal'
    BY <2>1 DEF LifecycleInv, VisitedAreLegal, GateIsPrepared, ReuseIsImmediate,
                MeasurementIsSeparate, Between
  <2>5. \A a \in Atoms : PhaseTells(a)'
    BY <2>1 DEF LifecycleInv, PhaseTells, Settled, ReusedSince, LastIs, IsLast, Visited
  <2>. QED
    BY <2>3, <2>4, <2>5 DEF LifecycleInv
<1>. QED
  BY <1>1, <1>2, <1>3, <1>4

\* A schedule starts empty.
LEMMA LifecycleInit == Init => LifecycleInv
<1>. SUFFICES ASSUME Init PROVE LifecycleInv
  OBVIOUS
<1>1. /\ schedule = <<>> /\ pass = "emit" /\ next = 1 /\ verdict = "ok"
      /\ phase = [a \in Atoms |-> NoPhase] /\ 1 .. next - 1 = {}
  BY DEF Init
<1>2. NoPhase \in Phases /\ NoPhase.kind = "none"
  BY DEF NoPhase, Phase, Phases
<1>3. TypeOK
  BY <1>1, <1>2 DEF TypeOK
<1>4. PassesHeld /\ VisitedAreLegal /\ RefusesIllegalOrForgotten
  BY <1>1 DEF PassesHeld, VisitedAreLegal, RefusesIllegalOrForgotten
<1>5. \A a \in Atoms : PhaseTells(a)
  BY <1>1, <1>2 DEF PhaseTells, Settled
<1>. QED
  BY <1>3, <1>4, <1>5 DEF LifecycleInv

\* Every step keeps the invariant.
LEMMA LifecycleNext == LifecycleInv /\ [Next]_vars => LifecycleInv'
<1>. SUFFICES ASSUME LifecycleInv, [Next]_vars PROVE LifecycleInv'
  OBVIOUS
<1>1. TypeOK'
  BY TypeNext DEF LifecycleInv
<1>2. CASE UNCHANGED vars
  <2>1. UNCHANGED <<schedule, pass, next, phase, verdict>>
    BY <1>2 DEF vars
  <2>2. PassesHeld'
    BY <2>1 DEF LifecycleInv, PassesHeld, CyclesAreMonotonic, WaitsAreBarriers, Conflicts
  <2>3. RefusesIllegalOrForgotten'
    <3>1. Legal' = Legal
      BY <2>1, SameLegal
    <3>2. MeasurementIsForgotten(next)' = MeasurementIsForgotten(next)
      BY <2>1 DEF MeasurementIsForgotten, Between
    <3>. QED
      BY <2>1, <3>1, <3>2 DEF LifecycleInv, RefusesIllegalOrForgotten
  <2>4. VisitedAreLegal'
    BY <2>1 DEF LifecycleInv, VisitedAreLegal, GateIsPrepared, ReuseIsImmediate,
                MeasurementIsSeparate, Between
  <2>5. \A a \in Atoms : PhaseTells(a)'
    BY <2>1 DEF LifecycleInv, PhaseTells, Settled, ReusedSince, LastIs, IsLast, Visited
  <2>. QED
    BY <1>1, <2>2, <2>3, <2>4, <2>5 DEF LifecycleInv
<1>. QED
  BY <1>1, <1>2, EmitKeeps, PassesKeep, MeasureKeeps, ResetKeeps, ReuseKeeps, UseKeeps,
     OtherKeeps DEF Next, Verify

\* Every reachable state of the verifier satisfies the invariant.
LEMMA LifecycleAlways == Spec => []LifecycleInv
  BY LifecycleInit, LifecycleNext, PTL DEF Spec

(***************************************************************************)
(* The theorems.                                                           *)
(***************************************************************************)

\* Every reachable state of the ordering passes is well typed: the cycle a
\* phase remembers is one of the schedule's (dialect.rs:
\* verify_schedule_ordering).
THEOREM TypeCorrect == Spec => []TypeOK
<1>1. LifecycleInv => TypeOK
  BY DEF LifecycleInv
<1>. QED
  BY <1>1, LifecycleAlways, PTL

\* A schedule that is accepted is legal, however long: one phase for each atom
\* is enough to remember (dialect.rs: verify_schedule_ordering).
THEOREM AcceptsCorrect == Spec => []AcceptsOnlyLegal
<1>1. LifecycleInv => AcceptsOnlyLegal
  <2>1. SUFFICES ASSUME LifecycleInv, pass = "done", verdict = "ok" PROVE Legal
    BY DEF AcceptsOnlyLegal
  <2>2. /\ CyclesAreMonotonic /\ WaitsAreBarriers /\ next = Len(schedule) + 1
        /\ schedule \in Seq(Event) /\ VisitedAreLegal
    BY <2>1 DEF LifecycleInv, PassesHeld, TypeOK
  <2>3. DOMAIN schedule = 1 .. next - 1
    BY <2>2
  <2>4. \A k \in DOMAIN schedule : ReuseIsReclaim(k)
    BY <2>2, <2>3, ImmediateIsReclaim DEF VisitedAreLegal
  <2>. QED
    BY <2>2, <2>3, <2>4 DEF Legal, VisitedAreLegal
<1>. QED
  BY <1>1, LifecycleAlways, PTL

\* Whichever pass refuses a schedule, and with whichever error, the schedule breaks
\* a documented rule, or the error is that an atom is reused before it was measured
\* and the atom was measured, reset, and then used or reset once more (dialect.rs:
\* verify_schedule_ordering).
THEOREM RefusesCorrect == Spec => []RefusesIllegalOrForgotten
<1>1. LifecycleInv => RefusesIllegalOrForgotten
  BY DEF LifecycleInv
<1>. QED
  BY <1>1, LifecycleAlways, PTL
================================================================================
