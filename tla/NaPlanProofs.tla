------------------------------ MODULE NaPlanProofs ------------------------------
(***************************************************************************)
(* Theorems about the schedules that leave the pipeline, for all atoms,    *)
(* sites, pairs and isolated pairs, and programs and given schedules of    *)
(* any length: compaction keeps every dependency and isolation, waits stay *)
(* between their rounds, each operation of what the zoned backend planned  *)
(* finds its atoms, each atom undergoes the program in its order, the      *)
(* report is of the longest chain, and no layer is put off for ever.       *)
(***************************************************************************)
EXTENDS NaPlan, FiniteSetTheorems, SequenceTheorems, WellFoundedInduction, TLAPS

(***************************************************************************)
(* Numbers and sequences.                                                  *)
(***************************************************************************)

\* A set of naturals has a least element.
LEMMA LeastElement ==
  ASSUME NEW S \in SUBSET Nat, S # {}
  PROVE  \E i \in S : \A j \in S : i <= j
<1>. DEFINE R == {ss \in Nat \X Nat : ss[1] < ss[2]}
<1>1. IsWellFoundedOn(R, Nat)
  BY NatLessThanWellFounded DEF OpToRel
<1>. HIDE DEF R
<1>2. PICK i \in S : \A j \in S : ~(<<j, i>> \in R)
  BY <1>1, WFMin
<1>3. ASSUME NEW j \in S PROVE i <= j
  <2>1. ~(<<j, i>> \in R) /\ i \in Nat /\ j \in Nat
    BY <1>2
  <2>. QED
    BY <2>1 DEF R
<1>. QED
  BY <1>3

\* A set of naturals that has a bound has a greatest element.
LEMMA GreatestElement ==
  ASSUME NEW n \in Nat, NEW S \in SUBSET (0 .. n), S # {}
  PROVE  \E i \in S : \A j \in S : j <= i
<1>. DEFINE T == {n - j : j \in S}
<1>1. T \in SUBSET Nat /\ T # {}
  <2>1. \A j \in S : n - j \in Nat
    OBVIOUS
  <2>2. PICK j \in S : TRUE
    OBVIOUS
  <2>3. n - j \in T
    OBVIOUS
  <2>. QED
    BY <2>1, <2>3
<1>2. PICK t \in T : \A u \in T : t <= u
  <2>. HIDE DEF T
  <2>. QED
    BY <1>1, LeastElement
<1>3. PICK i \in S : t = n - i
  BY <1>2
<1>4. ASSUME NEW j \in S PROVE j <= i
  <2>1. n - i <= n - j
    BY <1>2, <1>3
  <2>. QED
    BY <2>1
<1>. QED
  BY <1>4

\* MaxOf of such a set is that element.
LEMMA MaxOfIsGreatest ==
  ASSUME NEW n \in Nat, NEW S \in SUBSET (0 .. n)
  PROVE  /\ MaxOf(S) \in 0 .. n
         /\ S # {} => MaxOf(S) \in S /\ \A j \in S : j <= MaxOf(S)
<1>1. CASE S = {}
  BY <1>1 DEF MaxOf
<1>2. CASE S # {}
  <2>1. \E i \in S : \A j \in S : j <= i
    BY <1>2, GreatestElement
  <2>. QED
    BY <1>2, <2>1 DEF MaxOf
<1>. QED
  BY <1>1, <1>2

\* The numbers below n that are not b.
LEMMA CountBelow ==
  ASSUME NEW n \in Nat
  PROVE  /\ Cardinality(0 .. n - 1) = n /\ IsFiniteSet(0 .. n - 1)
         /\ \A b \in 0 .. n - 1 : Cardinality((0 .. n - 1) \ {b}) = n - 1
<1>1. Cardinality(0 .. n - 1) = n /\ IsFiniteSet(0 .. n - 1)
  BY FS_Interval
<1>. QED
  BY <1>1, FS_RemoveElement

\* A function on 1 .. n is a sequence of that length.
LEMMA FunctionIsSeq ==
  ASSUME NEW S, NEW n \in Nat, NEW f \in [1 .. n -> S]
  PROVE  f \in Seq(S) /\ Len(f) = n /\ DOMAIN f = 1 .. n
<1>1. f \in Seq(S)
  BY SeqDef
<1>2. DOMAIN f = 1 .. Len(f) /\ Len(f) \in Nat
  BY <1>1, LenProperties
<1>3. DOMAIN f = 1 .. n
  OBVIOUS
<1>4. Len(f) = n
  BY <1>2, <1>3
<1>. QED
  BY <1>1, <1>3, <1>4

--------------------------------------------------------------------------------
(* The inductive invariant of compaction.                                      *)

Stages == {"idle", "asap", "merge", "done", "refused"}
AllActs == UNION {input[i] : i \in DOMAIN input}
LayerSet == [cycle : Nat, acts : SUBSET AllActs, lineage : SUBSET DOMAIN input]

\* Each input layer is placed no later than its number says, if not all before it.
Baseline ==
  /\ stage \in Stages /\ Len(input) \in Nat /\ DOMAIN input = 1 .. Len(input)
  /\ asap \in Seq(Nat) /\ Len(asap) <= Len(input) /\ \A i \in DOMAIN asap : asap[i] <= i
  /\ stage = "idle" => deps = {} /\ asap = <<>>
  /\ \A d \in deps : d.before \in DOMAIN input /\ d.after \in DOMAIN input
  /\ AsapIsIdentity
  /\ Compacting => Len(asap) = Len(input)

\* The layers come in the order of their cycles, which have no gaps.
Dense(ls) == \A k \in DOMAIN ls : ls[k].cycle = k - 1

\* Each layer of the input is in one layer of the output, which does what its layers do.
Covered(ls) ==
  /\ \A i \in DOMAIN input : \E k \in DOMAIN ls : i \in ls[k].lineage
  /\ \A k, m \in DOMAIN ls : ls[k].lineage \cap ls[m].lineage # {} => k = m
  /\ \A k \in DOMAIN ls : ls[k].acts = UNION {input[i] : i \in ls[k].lineage}

\* Only layers of gates are merged, and so only they overtake others.
Overtaking(ls) ==
  /\ \A k \in DOMAIN ls : EntangleOnly(ls[k].acts) =>
       \A i \in ls[k].lineage : EntangleOnly(input[i])
  /\ \A k, m \in DOMAIN ls : \A i \in ls[k].lineage, j \in ls[m].lineage :
       i < j /\ ~EntangleOnly(input[j]) => k < m

\* IsolationKept of a layer.
Spread(ls, k) ==
  \/ Isolated(ls, k)
  \/ \E i \in DOMAIN input : ls[k].acts = input[i]
  \/ \E j \in 1 .. k - 1 : Gates(ls[k].acts) \subseteq Gates(ls[j].acts)

Sound(ls) ==
  /\ ls \in Seq(LayerSet) /\ Len(ls) <= Len(input)
  /\ Dense(ls) /\ Covered(ls) /\ Overtaking(ls) /\ OrderKept(ls)
  /\ \A k \in DOMAIN ls : Spread(ls, k)

CompactionInv == Baseline /\ (Compacting /\ Forward => Sound(layers))

--------------------------------------------------------------------------------
(* The baseline.                                                               *)

\* With forward dependencies the next layer gets the next cycle.
LEMMA AsapStepKeeps ==
  ASSUME Baseline, AsapStep
  PROVE  Baseline'
<1>1. PICK n \in Nat : n = Len(asap) /\ DOMAIN asap = 1 .. n
  BY DEF Baseline
<1>. DEFINE S == {CycleSoFar(p) + 1 : p \in Preds(n + 1)}
<1>2. PICK t \in MaxOf(S) .. MaxOf(S) + n :
        ~Taken(t) /\ (\A c \in MaxOf(S) .. t - 1 : Taken(c)) /\ asap' = Append(asap, t)
  BY <1>1 DEF AsapStep
<1>3. \A p \in Preds(n + 1) : CycleSoFar(p) + 1 \in 1 .. n + 1
  <2>0. asap \in Seq(Nat) /\ \A i \in DOMAIN asap : asap[i] <= i
    BY DEF Baseline
  <2>1. \A p \in 1 .. n : asap[p] \in Nat /\ asap[p] <= p
    BY <1>1, <2>0
  <2>2. \A p \in 1 .. n : asap[p] + 1 \in 1 .. n + 1
    BY <2>1
  <2>. QED
    BY <1>1, <2>2 DEF CycleSoFar
<1>4. S \in SUBSET (0 .. n + 1) /\ n + 1 \in Nat
  BY <1>1, <1>3
<1>5. MaxOf(S) \in 0 .. n + 1 /\ (S # {} => MaxOf(S) \in S)
  <2>. HIDE DEF S
  <2>. QED
    BY <1>4, MaxOfIsGreatest
<1>6. t \in Nat /\ t <= n + 1
  <2>1. t \in Nat
    BY <1>2, <1>5
  <2>2. n + 1 \in MaxOf(S) .. t - 1 => FALSE
    <3>1. ~Taken(n + 1)
      <4>1. \A k \in 1 .. n : asap[k] <= k
        BY <1>1 DEF Baseline
      <4>2. \A k \in 1 .. n : asap[k] # n + 1
        BY <4>1
      <4>. QED
        BY <1>1, <4>2 DEF Taken
    <3>. QED
      BY <1>2, <3>1
  <2>. QED
    BY <1>5, <2>1, <2>2
<1>7. /\ asap' \in Seq(Nat) /\ Len(asap') = n + 1 /\ DOMAIN asap' = 1 .. n + 1
      /\ asap'[n + 1] = t /\ \A i \in 1 .. n : asap'[i] = asap[i]
  <2>1. asap \in Seq(Nat)
    BY DEF Baseline
  <2>. QED
    BY <1>1, <1>2, <1>6, <2>1
<1>8. ASSUME Forward, AsapIsIdentity PROVE t = n
  <2>1. \A c \in 0 .. n - 1 : Taken(c)
    <3>1. \A c \in 0 .. n - 1 : c + 1 \in DOMAIN asap /\ asap[c + 1] = c
      BY <1>1, <1>8 DEF AsapIsIdentity
    <3>. QED
      BY <3>1 DEF Taken
  <2>2. ~Taken(n)
    BY <1>1, <1>8 DEF AsapIsIdentity, Taken
  <2>3. MaxOf(S) <= n
    <3>1. CASE S = {}
      BY <1>1, <3>1 DEF MaxOf
    <3>2. CASE S # {}
      <4>1. PICK p \in Preds(n + 1) : MaxOf(S) = CycleSoFar(p) + 1
        BY <1>5, <3>2
      <4>2. p \in 1 .. n
        <5>1. PICK d \in deps : d.after = n + 1 /\ d.before = p
          BY DEF Preds
        <5>2. p < n + 1 /\ p \in DOMAIN input /\ DOMAIN input = 1 .. Len(input)
          BY <1>8, <5>1 DEF Forward, Baseline
        <5>. QED
          BY <1>1, <5>2
      <4>. QED
        BY <1>1, <1>8, <4>1, <4>2 DEF CycleSoFar, AsapIsIdentity
    <3>. QED
      BY <3>1, <3>2
  <2>4. ~(t < n)
    BY <1>2, <1>6, <2>1
  <2>5. ~(n < t)
    <3>. SUFFICES ASSUME n < t PROVE FALSE
      OBVIOUS
    <3>1. n \in MaxOf(S) .. t - 1
      BY <1>5, <1>6, <2>3
    <3>. QED
      BY <1>2, <2>2, <3>1
  <2>. QED
    BY <1>6, <2>4, <2>5
<1>9. AsapIsIdentity'
  <2>1. Forward' => Forward
    BY DEF AsapStep, Forward
  <2>2. AsapIsIdentity
    BY DEF Baseline
  <2>. QED
    BY <1>1, <1>7, <1>8, <2>1, <2>2 DEF AsapIsIdentity
<1>10. stage = "asap" /\ UNCHANGED <<stage, input, deps>> /\ n + 1 <= Len(input)
  <2>1. Len(asap) < Len(input) /\ Len(input) \in Nat
    BY DEF AsapStep, Baseline
  <2>2. stage = "asap" /\ UNCHANGED <<stage, input, deps>>
    BY DEF AsapStep
  <2>. QED
    BY <1>1, <2>1, <2>2
<1>. QED
  <2>0. \A i \in DOMAIN asap : asap[i] <= i
    BY DEF Baseline
  <2>1. \A i \in DOMAIN asap' : asap'[i] <= i
    BY <1>1, <1>6, <1>7, <2>0
  <2>2. ~Compacting'
    BY <1>10 DEF Compacting
  <2>. QED
    BY <1>7, <1>9, <1>10, <2>1, <2>2 DEF Baseline

\* The layers of a schedule are sorted already.
LEMMA RankIsPlace ==
  ASSUME Baseline, Forward, NEW k \in DOMAIN asap
  PROVE  AtRank(k) = k
<1>1. PICK n \in Nat : n = Len(asap) /\ DOMAIN asap = 1 .. n
  BY DEF Baseline
<1>2. \A i \in 1 .. n : asap[i] = i - 1
  BY <1>1 DEF Baseline, AsapIsIdentity
<1>. DEFINE rank(i) == Cardinality({j \in DOMAIN asap : asap[j] < asap[i]})
<1>3. ASSUME NEW i \in 1 .. n PROVE rank(i) = i - 1
  <2>1. {j \in DOMAIN asap : asap[j] < asap[i]} = 1 .. i - 1
    BY <1>1, <1>2
  <2>2. Cardinality(1 .. i - 1) = i - 1
    BY FS_Interval
  <2>. QED
    BY <2>1, <2>2
<1>. HIDE DEF rank
<1>4. \A i \in 1 .. n : rank(i) = k - 1 => i = k
  BY <1>1, <1>3
<1>5. rank(k) = k - 1
  BY <1>1, <1>3
<1>6. AtRank(k) = CHOOSE i \in DOMAIN asap : rank(i) = k - 1
  BY DEF AtRank, rank
<1>. QED
  BY <1>1, <1>4, <1>5, <1>6

\* Each layer of the input has its layer of the output.
LEMMA VertexIs ==
  ASSUME NEW ls, Covered(ls), NEW i \in DOMAIN input
  PROVE  /\ VertexOf(ls, i) \in DOMAIN ls /\ i \in ls[VertexOf(ls, i)].lineage
         /\ \A k \in DOMAIN ls : i \in ls[k].lineage => VertexOf(ls, i) = k
<1>1. PICK k \in DOMAIN ls : i \in ls[k].lineage
  BY DEF Covered
<1>2. VertexOf(ls, i) \in DOMAIN ls /\ i \in ls[VertexOf(ls, i)].lineage
  BY <1>1 DEF VertexOf
<1>. QED
  BY <1>2 DEF Covered

\* Layers of their own are sound.
LEMMA SortSound ==
  ASSUME Baseline, Forward, SortByCycle
  PROVE  Sound(layers')
<1>1. PICK n \in Nat : n = Len(input) /\ DOMAIN input = 1 .. n
  BY DEF Baseline
<1>2. asap \in Seq(Nat) /\ Len(asap) = n /\ DOMAIN asap = 1 .. n
  BY <1>1 DEF Baseline, SortByCycle
<1>3. \A k \in 1 .. n : AtRank(k) = k /\ asap[k] = k - 1
  BY <1>2, RankIsPlace DEF Baseline, AsapIsIdentity
<1>4. PICK ls : ls = layers'
  OBVIOUS
<1>5. /\ DOMAIN ls = 1 .. n
      /\ \A k \in 1 .. n : ls[k] = [cycle |-> k - 1, acts |-> input[k], lineage |-> {k}]
  BY <1>1, <1>3, <1>4 DEF SortByCycle
<1>6. ls \in Seq(LayerSet) /\ Len(ls) = n
  <2>1. \A k \in 1 .. n : ls[k] \in LayerSet
    BY <1>1, <1>5 DEF LayerSet, AllActs
  <2>2. ls = [k \in 1 .. n |-> ls[k]]
    BY <1>1, <1>4, <1>5 DEF SortByCycle
  <2>3. ls \in [1 .. n -> LayerSet]
    BY <2>1, <2>2
  <2>. QED
    BY <2>3, FunctionIsSeq
<1>7. Dense(ls)
  BY <1>5 DEF Dense
<1>8. Covered(ls)
  BY <1>1, <1>5 DEF Covered
<1>9. Overtaking(ls)
  BY <1>5 DEF Overtaking
<1>10. OrderKept(ls)
  <2>. SUFFICES ASSUME NEW d \in deps
                PROVE  CycleOf(ls, d.before) < CycleOf(ls, d.after)
    BY DEF OrderKept
  <2>1. d.before \in 1 .. n /\ d.after \in 1 .. n /\ d.before < d.after
    BY <1>1 DEF Baseline, Forward
  <2>2. VertexOf(ls, d.before) = d.before /\ VertexOf(ls, d.after) = d.after
    BY <1>1, <1>5, <1>8, <2>1, VertexIs, SMTT(30)
  <2>. QED
    BY <1>5, <2>1, <2>2 DEF CycleOf
<1>11. \A k \in DOMAIN ls : Spread(ls, k)
  BY <1>1, <1>5 DEF Spread
<1>. QED
  BY <1>1, <1>4, <1>6, <1>7, <1>8, <1>9, <1>10, <1>11 DEF Sound

--------------------------------------------------------------------------------
(* A merge.                                                                    *)

\* The layer at place p after b has joined a, before it has.
Origin(b, p) == IF p < b THEN p ELSE p + 1

\* What a merge makes of the layers.
MergeView(ls, a, b, new) ==
  /\ new \in Seq(LayerSet) /\ Len(new) = Len(ls) - 1 /\ DOMAIN new = 1 .. Len(ls) - 1
  /\ Dense(new)
  /\ new[a].acts = ls[a].acts \cup ls[b].acts
  /\ new[a].lineage = ls[a].lineage \cup ls[b].lineage
  /\ \A p \in 1 .. Len(ls) - 1 : p # a =>
       new[p].acts = ls[Origin(b, p)].acts /\ new[p].lineage = ls[Origin(b, p)].lineage

\* The cycles are dense again.
LEMMA MergedView ==
  ASSUME NEW ls \in Seq(LayerSet), Dense(ls), NEW a \in DOMAIN ls, NEW b \in DOMAIN ls, a < b
  PROVE  MergeView(ls, a, b, Merged(ls, a, b))
<1>1. PICK n \in Nat : n = Len(ls) /\ DOMAIN ls = 1 .. n
  OBVIOUS
<1>2. PICK m \in Nat : m = n - 1
  BY <1>1
<1>3. \A k \in 1 .. n : ls[k] \in LayerSet /\ ls[k].cycle = k - 1
  BY <1>1 DEF Dense
<1>4. a \in 1 .. m /\ b \in 1 .. n /\ a \in Nat /\ b \in Nat
  BY <1>1, <1>2
<1>. DEFINE mid == ApplyMerge(ls, a, b)
            joined == [cycle |-> a - 1, acts |-> ls[a].acts \cup ls[b].acts,
                       lineage |-> ls[a].lineage \cup ls[b].lineage]
<1>5. joined \in LayerSet
  BY <1>3, <1>4, <1>2 DEF LayerSet
<1>6. PICK kept : kept = [ls EXCEPT ![a] = joined]
  OBVIOUS
<1>15. kept[a] = joined /\ \A p \in 1 .. n : p # a => kept[p] = ls[p]
  BY <1>1, <1>4, <1>6
<1>16. mid = [p \in 1 .. m |-> IF p < b THEN kept[p] ELSE kept[p + 1]]
  <2>1. (IF ls[a].cycle <= ls[b].cycle THEN ls[a].cycle ELSE ls[b].cycle) = a - 1
    BY <1>1, <1>3, <1>4
  <2>2. PICK c : c = IF ls[a].cycle <= ls[b].cycle THEN ls[a].cycle ELSE ls[b].cycle
    OBVIOUS
  <2>3. PICK j : j = [cycle |-> c, acts |-> ls[a].acts \cup ls[b].acts,
                      lineage |-> ls[a].lineage \cup ls[b].lineage]
    OBVIOUS
  <2>4. PICK e : e = [ls EXCEPT ![a] = j]
    OBVIOUS
  <2>5. mid = [p \in 1 .. Len(ls) - 1 |-> IF p < b THEN e[p] ELSE e[p + 1]]
    BY <2>2, <2>3, <2>4 DEF ApplyMerge
  <2>6. j = joined
    BY <2>1, <2>2, <2>3
  <2>7. e = kept
    BY <1>6, <2>4, <2>6
  <2>8. Len(ls) - 1 = m
    BY <1>1, <1>2
  <2>. QED
    BY <2>5, <2>7, <2>8
<1>. HIDE DEF joined
<1>7. /\ DOMAIN mid = 1 .. m /\ mid[a] = joined
      /\ \A p \in 1 .. m : p # a => mid[p] = ls[Origin(b, p)]
  <2>1. DOMAIN mid = 1 .. m
    BY <1>16
  <2>2. mid[a] = joined
    BY <1>4, <1>15, <1>16
  <2>3. ASSUME NEW p \in 1 .. m, p # a PROVE mid[p] = ls[Origin(b, p)]
    <3>1. mid[p] = IF p < b THEN kept[p] ELSE kept[p + 1]
      BY <1>16
    <3>2. p \in 1 .. n /\ p + 1 \in 1 .. n /\ (~(p < b) => p + 1 # a)
      BY <1>2, <1>4
    <3>. QED
      BY <1>15, <2>3, <3>1, <3>2 DEF Origin
  <2>. QED
    BY <2>1, <2>2, <2>3
<1>. HIDE DEF mid
<1>17. joined.cycle = a - 1 /\ Origin(b, a) = a
  BY <1>4 DEF joined, Origin
<1>8. ASSUME NEW p \in 1 .. m
      PROVE  mid[p] \in LayerSet /\ mid[p].cycle = Origin(b, p) - 1
  <2>1. CASE p = a
    BY <1>5, <1>7, <1>17, <2>1
  <2>2. CASE p # a
    <3>1. Origin(b, p) \in 1 .. n
      BY <1>2, <1>4 DEF Origin
    <3>. QED
      BY <1>3, <1>7, <2>2, <3>1
  <2>. QED
    BY <2>1, <2>2
<1>. DEFINE cycles == {mid[k].cycle : k \in DOMAIN mid}
            new == RenumberDense(mid)
<1>9. ASSUME NEW p \in 1 .. m
      PROVE  Cardinality({c \in cycles : c < mid[p].cycle}) = p - 1
  <2>1. cycles = (0 .. n - 1) \ {b - 1}
    <3>1. \A k \in 1 .. m : Origin(b, k) - 1 \in (0 .. n - 1) \ {b - 1}
      BY <1>2, <1>4 DEF Origin
    <3>2. \A c \in (0 .. n - 1) \ {b - 1} : \E k \in 1 .. m : c = Origin(b, k) - 1
      <4>. TAKE c \in (0 .. n - 1) \ {b - 1}
      <4>1. CASE c < b - 1
        <5>1. c + 1 \in 1 .. m /\ Origin(b, c + 1) - 1 = c
          BY <1>2, <1>4, <4>1 DEF Origin
        <5>. QED
          BY <5>1
      <4>2. CASE c > b - 1
        <5>1. c \in 1 .. m /\ Origin(b, c) - 1 = c
          BY <1>2, <1>4, <4>2 DEF Origin
        <5>. QED
          BY <5>1
      <4>. QED
        BY <1>4, <4>1, <4>2
    <3>3. \A c : c \in cycles <=> \E k \in 1 .. m : c = Origin(b, k) - 1
      BY <1>7, <1>8
    <3>. HIDE DEF cycles
    <3>. QED
      BY <3>1, <3>2, <3>3
  <2>. HIDE DEF cycles
  <2>4. mid[p].cycle = Origin(b, p) - 1 /\ n = m + 1
    BY <1>2, <1>8
  <2>2. CASE p < b
    <3>1. {c \in cycles : c < mid[p].cycle} = 0 .. (p - 1) - 1
      BY <1>4, <2>1, <2>2, <2>4 DEF Origin
    <3>2. p - 1 \in Nat
      OBVIOUS
    <3>. QED
      BY <3>1, <3>2, CountBelow
  <2>3. CASE ~(p < b)
    <3>1. {c \in cycles : c < mid[p].cycle} = (0 .. p - 1) \ {b - 1}
      BY <1>4, <2>1, <2>3, <2>4 DEF Origin
    <3>2. b - 1 \in 0 .. p - 1
      BY <1>4, <2>3
    <3>3. p \in Nat
      OBVIOUS
    <3>4. \A x \in 0 .. p - 1 : Cardinality((0 .. p - 1) \ {x}) = p - 1
      BY <3>3, CountBelow
    <3>. QED
      BY <3>1, <3>2, <3>4
  <2>. QED
    BY <2>2, <2>3
<1>10. /\ DOMAIN new = 1 .. m
       /\ \A p \in 1 .. m : new[p] = [mid[p] EXCEPT !.cycle = p - 1]
  <2>. HIDE DEF cycles
  <2>1. new = [k \in DOMAIN mid |->
                [mid[k] EXCEPT !.cycle = Cardinality({c \in cycles : c < mid[k].cycle})]]
    BY DEF RenumberDense, cycles
  <2>. QED
    BY <1>7, <1>9, <2>1
<1>11. new = Merged(ls, a, b)
  BY DEF Merged, mid
<1>. HIDE DEF new
<1>12. \A p \in 1 .. m : /\ new[p] \in LayerSet /\ new[p].cycle = p - 1
                         /\ new[p].acts = mid[p].acts /\ new[p].lineage = mid[p].lineage
  <2>. TAKE p \in 1 .. m
  <2>1. mid[p] \in LayerSet /\ p - 1 \in Nat /\ new[p] = [mid[p] EXCEPT !.cycle = p - 1]
    BY <1>8, <1>10
  <2>. QED
    BY <2>1 DEF LayerSet
<1>13. new \in Seq(LayerSet) /\ Len(new) = m
  <2>1. new \in [1 .. m -> LayerSet]
    <3>1. new = [p \in 1 .. m |-> new[p]]
      BY <1>7 DEF new, RenumberDense
    <3>. QED
      BY <1>12, <3>1
  <2>. QED
    BY <2>1, FunctionIsSeq
<1>14. new[a].acts = ls[a].acts \cup ls[b].acts /\ new[a].lineage = ls[a].lineage \cup ls[b].lineage
  BY <1>4, <1>7, <1>12 DEF joined
<1>. QED
  BY <1>1, <1>2, <1>7, <1>10, <1>11, <1>12, <1>13, <1>14 DEF MergeView, Dense

\* The place of layer q once b has joined a.
Place(a, b, q) == IF q = b THEN a ELSE IF q < b THEN q ELSE q - 1

\* What the places have to do with each other.
LEMMA Places ==
  ASSUME NEW n \in Nat, NEW a \in 1 .. n, NEW b \in 1 .. n, a < b
  PROVE  /\ \A q \in 1 .. n : Place(a, b, q) \in 1 .. n - 1
         /\ \A q \in 1 .. n : Place(a, b, q) = a <=> q \in {a, b}
         /\ \A q \in 1 .. n : q \notin {a, b} => Origin(b, Place(a, b, q)) = q
         /\ \A p \in 1 .. n - 1 : /\ Origin(b, p) \in 1 .. n /\ Origin(b, p) # b
                                  /\ Place(a, b, Origin(b, p)) = p
         /\ \A q, r \in 1 .. n : q < r /\ r # b => Place(a, b, q) < Place(a, b, r) \/ r = a \/ q = b
         /\ \A q, r \in 1 .. n : q < r /\ r \notin {a, b} => Place(a, b, q) < Place(a, b, r)
         /\ \A p, r \in 1 .. n - 1 : p < r <=> Origin(b, p) < Origin(b, r)
BY DEF Place, Origin

\* Each layer is where its place is, and nothing else is there.
LEMMA PlacesOfLayers ==
  ASSUME NEW ls \in Seq(LayerSet), NEW a \in DOMAIN ls, NEW b \in DOMAIN ls, a < b,
         NEW new, MergeView(ls, a, b, new)
  PROVE  /\ \A q \in DOMAIN ls : /\ Place(a, b, q) \in DOMAIN new
                                 /\ ls[q].lineage \subseteq new[Place(a, b, q)].lineage
                                 /\ ls[q].acts \subseteq new[Place(a, b, q)].acts
         /\ \A p \in DOMAIN new : \A i \in new[p].lineage :
              \E q \in DOMAIN ls : Place(a, b, q) = p /\ i \in ls[q].lineage
<1>1. PICK n \in Nat : n = Len(ls) /\ DOMAIN ls = 1 .. n /\ DOMAIN new = 1 .. n - 1
  BY DEF MergeView
<1>2. /\ new[a].acts = ls[a].acts \cup ls[b].acts
      /\ new[a].lineage = ls[a].lineage \cup ls[b].lineage
  BY DEF MergeView
<1>3. \A p \in 1 .. n - 1 : p # a =>
        new[p].acts = ls[Origin(b, p)].acts /\ new[p].lineage = ls[Origin(b, p)].lineage
  BY <1>1 DEF MergeView
<1>4. ASSUME NEW q \in 1 .. n
      PROVE  /\ Place(a, b, q) \in DOMAIN new
             /\ ls[q].lineage \subseteq new[Place(a, b, q)].lineage
             /\ ls[q].acts \subseteq new[Place(a, b, q)].acts
  <2>1. Place(a, b, q) \in 1 .. n - 1
    BY <1>1, Places
  <2>2. CASE q \in {a, b}
    <3>1. Place(a, b, q) = a
      BY <1>1, <2>2 DEF Place
    <3>. QED
      BY <1>1, <1>2, <2>1, <2>2, <3>1
  <2>3. CASE q \notin {a, b}
    <3>1. Place(a, b, q) # a /\ Origin(b, Place(a, b, q)) = q
      BY <1>1, <2>3, Places
    <3>. QED
      BY <1>1, <1>3, <2>1, <3>1
  <2>. QED
    BY <2>2, <2>3
<1>5. ASSUME NEW p \in 1 .. n - 1, NEW i \in new[p].lineage
      PROVE  \E q \in 1 .. n : Place(a, b, q) = p /\ i \in ls[q].lineage
  <2>1. CASE p = a
    <3>1. Place(a, b, a) = a /\ Place(a, b, b) = a
      BY <1>1, Places
    <3>. QED
      BY <1>1, <1>2, <2>1, <3>1
  <2>2. CASE p # a
    <3>1. Origin(b, p) \in 1 .. n /\ Place(a, b, Origin(b, p)) = p
      BY <1>1, Places
    <3>2. i \in ls[Origin(b, p)].lineage
      BY <1>3, <2>2
    <3>. QED
      BY <3>1, <3>2
  <2>. QED
    BY <2>1, <2>2
<1>. QED
  BY <1>1, <1>4, <1>5

\* No layer of the input is lost or in two layers of the output.
LEMMA MergeCovers ==
  ASSUME NEW ls \in Seq(LayerSet), NEW a \in DOMAIN ls, NEW b \in DOMAIN ls, a < b,
         NEW new, MergeView(ls, a, b, new), Covered(ls)
  PROVE  Covered(new)
<1>1. PICK n \in Nat : n = Len(ls) /\ DOMAIN ls = 1 .. n /\ DOMAIN new = 1 .. n - 1
  BY DEF MergeView
<1>2. ASSUME NEW i \in DOMAIN input PROVE \E p \in DOMAIN new : i \in new[p].lineage
  <2>1. PICK q \in DOMAIN ls : i \in ls[q].lineage
    BY DEF Covered
  <2>. QED
    BY <2>1, PlacesOfLayers
<1>3. ASSUME NEW p \in DOMAIN new, NEW r \in DOMAIN new,
             new[p].lineage \cap new[r].lineage # {}
      PROVE  p = r
  <2>1. PICK i : i \in new[p].lineage /\ i \in new[r].lineage
    BY <1>3
  <2>2. PICK q \in DOMAIN ls : Place(a, b, q) = p /\ i \in ls[q].lineage
    BY <2>1, PlacesOfLayers
  <2>3. PICK s \in DOMAIN ls : Place(a, b, s) = r /\ i \in ls[s].lineage
    BY <2>1, PlacesOfLayers
  <2>4. q = s
    BY <2>2, <2>3 DEF Covered
  <2>. QED
    BY <2>2, <2>3, <2>4
<1>4. ASSUME NEW p \in DOMAIN new
      PROVE  new[p].acts = UNION {input[i] : i \in new[p].lineage}
  <2>0. \A q \in DOMAIN ls : ls[q].acts = UNION {input[i] : i \in ls[q].lineage}
    BY DEF Covered
  <2>1. CASE p = a
    <3>1. /\ new[a].acts = ls[a].acts \cup ls[b].acts
          /\ new[a].lineage = ls[a].lineage \cup ls[b].lineage
      BY DEF MergeView
    <3>. QED
      BY <2>0, <2>1, <3>1
  <2>2. CASE p # a
    <3>1. new[p].acts = ls[Origin(b, p)].acts /\ new[p].lineage = ls[Origin(b, p)].lineage
      BY <2>2 DEF MergeView
    <3>2. Origin(b, p) \in DOMAIN ls
      BY <1>1, Places
    <3>. QED
      BY <2>0, <3>1, <3>2
  <2>. QED
    BY <2>1, <2>2
<1>. QED
  BY <1>2, <1>3, <1>4 DEF Covered

\* A merged layer overtakes what is behind its first part only.
LEMMA MergeOvertakes ==
  ASSUME NEW ls \in Seq(LayerSet), NEW a \in DOMAIN ls, NEW b \in DOMAIN ls, a < b,
         NEW new, MergeView(ls, a, b, new), Overtaking(ls),
         EntangleOnly(ls[a].acts), EntangleOnly(ls[b].acts)
  PROVE  Overtaking(new)
<1>1. PICK n \in Nat : n = Len(ls) /\ DOMAIN ls = 1 .. n /\ DOMAIN new = 1 .. n - 1
  BY DEF MergeView
<1>2. \A q \in DOMAIN ls : EntangleOnly(ls[q].acts) =>
        \A i \in ls[q].lineage : EntangleOnly(input[i])
  BY DEF Overtaking
<1>3. ASSUME NEW p \in DOMAIN new, EntangleOnly(new[p].acts), NEW i \in new[p].lineage
      PROVE  EntangleOnly(input[i])
  <2>1. PICK q \in DOMAIN ls : Place(a, b, q) = p /\ i \in ls[q].lineage
    BY PlacesOfLayers
  <2>2. CASE q \in {a, b}
    BY <1>2, <2>1, <2>2
  <2>3. CASE q \notin {a, b}
    <3>1. p # a /\ Origin(b, p) = q
      BY <1>1, <2>1, <2>3, Places
    <3>2. new[p].acts = ls[q].acts
      BY <3>1 DEF MergeView
    <3>. QED
      BY <1>2, <1>3, <2>1, <3>2
  <2>. QED
    BY <2>2, <2>3
<1>4. ASSUME NEW p \in DOMAIN new, NEW r \in DOMAIN new,
             NEW i \in new[p].lineage, NEW j \in new[r].lineage, i < j, ~EntangleOnly(input[j])
      PROVE  p < r
  <2>1. PICK q \in DOMAIN ls : Place(a, b, q) = p /\ i \in ls[q].lineage
    BY PlacesOfLayers
  <2>2. PICK s \in DOMAIN ls : Place(a, b, s) = r /\ j \in ls[s].lineage
    BY PlacesOfLayers
  <2>3. s \notin {a, b}
    BY <1>2, <1>4, <2>2
  <2>4. q < s
    BY <1>4, <2>1, <2>2 DEF Overtaking
  <2>. QED
    BY <1>1, <2>1, <2>2, <2>3, <2>4, Places
<1>. QED
  BY <1>3, <1>4 DEF Overtaking

\* The layers that move an atom before a layer.
MoversBefore(ls, x, k) == {j \in DOMAIN ls : j < k /\ \E y \in ls[j].acts : y.op = "move" /\ x \in y.atoms}

\* The last of them leaves the atom at its site.
LEMMA SiteIsLastMove ==
  ASSUME NEW ls, NEW n \in Nat, DOMAIN ls = 1 .. n, Dense(ls), NEW x, NEW k \in 1 .. n
  PROVE  /\ MoversBefore(ls, x, k) = {} => SiteBefore(ls, x, ls[k].cycle) = Start[x]
         /\ \A j \in MoversBefore(ls, x, k) : (\A i \in MoversBefore(ls, x, k) : i <= j) =>
              SiteBefore(ls, x, ls[k].cycle) =
                (CHOOSE y \in ls[j].acts : y.op = "move" /\ x \in y.atoms).to
<1>1. \A j \in 1 .. n : ls[j].cycle = j - 1
  BY DEF Dense
<1>2. \A j \in 1 .. n : ls[j].cycle < ls[k].cycle <=> j < k
  BY <1>1
<1>3. MovesBefore(ls, x, ls[k].cycle) = MoversBefore(ls, x, k)
  BY <1>2 DEF MovesBefore, MoversBefore
<1>4. ASSUME NEW j \in MoversBefore(ls, x, k), \A i \in MoversBefore(ls, x, k) : i <= j
      PROVE  (CHOOSE g \in MoversBefore(ls, x, k) :
                \A h \in MoversBefore(ls, x, k) : ls[h].cycle <= ls[g].cycle) = j
  <2>1. MoversBefore(ls, x, k) \subseteq 1 .. n
    BY DEF MoversBefore
  <2>2. \A g \in MoversBefore(ls, x, k) : ls[g].cycle = g - 1 /\ g \in Int
    BY <1>1, <2>1
  <2>3. \A h \in MoversBefore(ls, x, k) : ls[h].cycle <= ls[j].cycle
    BY <1>4, <2>2
  <2>4. ASSUME NEW g \in MoversBefore(ls, x, k), \A h \in MoversBefore(ls, x, k) : ls[h].cycle <= ls[g].cycle
        PROVE  g = j
    <3>1. ls[j].cycle <= ls[g].cycle /\ g <= j
      BY <1>4, <2>4
    <3>. QED
      BY <2>2, <3>1
  <2>. QED
    BY <2>3, <2>4
<1>. QED
  BY <1>3, <1>4 DEF SiteBefore

\* Merged layers move nothing, and so every other layer finds the atoms where it did.
LEMMA MergeMovesNothing ==
  ASSUME NEW ls \in Seq(LayerSet), NEW a \in DOMAIN ls, NEW b \in DOMAIN ls, a < b,
         NEW new, MergeView(ls, a, b, new), Dense(ls),
         EntangleOnly(ls[a].acts), EntangleOnly(ls[b].acts),
         NEW p \in DOMAIN new
  PROVE  \A x : SiteBefore(new, x, new[p].cycle) = SiteBefore(ls, x, ls[Origin(b, p)].cycle)
<1>. TAKE x
<1>1. PICK n \in Nat : n = Len(ls) /\ DOMAIN ls = 1 .. n /\ DOMAIN new = 1 .. n - 1 /\ n - 1 \in Nat
  <2>1. Len(ls) \in Nat /\ DOMAIN ls = 1 .. Len(ls) /\ Len(ls) >= 1
    OBVIOUS
  <2>. QED
    BY <2>1 DEF MergeView
<1>2. Dense(new)
  BY DEF MergeView
<1>3. PICK q \in 1 .. n : q = Origin(b, p)
  BY <1>1, Places
<1>. DEFINE shifts(l) == \E y \in l.acts : y.op = "move" /\ x \in y.atoms
<1>4. ~shifts(ls[a]) /\ ~shifts(ls[b]) /\ ~shifts(new[a])
  <2>1. new[a].acts = ls[a].acts \cup ls[b].acts
    BY DEF MergeView
  <2>. QED
    BY <2>1 DEF EntangleOnly
<1>5. \A r \in 1 .. n - 1 : r # a => new[r].acts = ls[Origin(b, r)].acts
  BY <1>1 DEF MergeView
<1>6. ASSUME NEW r \in MoversBefore(new, x, p) PROVE Origin(b, r) \in MoversBefore(ls, x, q)
  <2>1. r \in 1 .. n - 1 /\ r < p /\ shifts(new[r])
    BY <1>1 DEF MoversBefore
  <2>2. r # a
    BY <1>4, <2>1
  <2>3. shifts(ls[Origin(b, r)])
    BY <1>5, <2>1, <2>2
  <2>4. Origin(b, r) \in 1 .. n /\ Origin(b, r) < q
    BY <1>1, <1>3, <2>1, Places
  <2>. QED
    BY <1>1, <2>3, <2>4 DEF MoversBefore
<1>7. ASSUME NEW s \in MoversBefore(ls, x, q)
      PROVE  \E r \in MoversBefore(new, x, p) : Origin(b, r) = s
  <2>1. s \in 1 .. n /\ s < q /\ shifts(ls[s])
    BY <1>1 DEF MoversBefore
  <2>2. s \notin {a, b}
    BY <1>4, <2>1
  <2>3. PICK r \in 1 .. n - 1 : r = Place(a, b, s)
    BY <1>1, <2>1, Places
  <2>4. Origin(b, r) = s /\ r # a
    BY <1>1, <2>1, <2>2, <2>3, Places
  <2>5. r < p
    BY <1>1, <1>3, <2>1, <2>4, Places
  <2>6. shifts(new[r])
    BY <1>5, <2>1, <2>4
  <2>7. r \in MoversBefore(new, x, p)
    BY <1>1, <2>5, <2>6 DEF MoversBefore
  <2>. QED
    BY <2>4, <2>7
<1>8. CASE MoversBefore(new, x, p) = {}
  <2>1. MoversBefore(ls, x, q) = {}
    BY <1>7, <1>8
  <2>2. SiteBefore(new, x, new[p].cycle) = Start[x]
    BY <1>1, <1>2, <1>8, SiteIsLastMove
  <2>3. SiteBefore(ls, x, ls[q].cycle) = Start[x]
    BY <1>1, <2>1, SiteIsLastMove
  <2>. QED
    BY <1>3, <2>2, <2>3
<1>9. CASE MoversBefore(new, x, p) # {}
  <2>1. MoversBefore(new, x, p) \in SUBSET (0 .. n - 1)
    BY <1>1 DEF MoversBefore
  <2>2. PICK r \in MoversBefore(new, x, p) : \A i \in MoversBefore(new, x, p) : i <= r
    BY <1>1, <1>9, <2>1, GreatestElement
  <2>3. SiteBefore(new, x, new[p].cycle)
          = (CHOOSE y \in new[r].acts : y.op = "move" /\ x \in y.atoms).to
    BY <1>1, <1>2, <2>2, SiteIsLastMove
  <2>4. Origin(b, r) \in MoversBefore(ls, x, q)
    BY <1>6
  <2>5. ASSUME NEW s \in MoversBefore(ls, x, q) PROVE s <= Origin(b, r)
    <3>1. PICK i \in MoversBefore(new, x, p) : Origin(b, i) = s
      BY <1>7
    <3>2. i \in 1 .. n - 1 /\ r \in 1 .. n - 1 /\ i <= r
      BY <1>1, <2>2 DEF MoversBefore
    <3>3. b \in Nat
      OBVIOUS
    <3>. QED
      BY <3>1, <3>2, <3>3 DEF Origin
  <2>6. SiteBefore(ls, x, ls[q].cycle)
          = (CHOOSE y \in ls[Origin(b, r)].acts : y.op = "move" /\ x \in y.atoms).to
    <3>1. q \in 1 .. n /\ DOMAIN ls = 1 .. n /\ n \in Nat
      BY <1>1, <1>3
    <3>2. \A j \in MoversBefore(ls, x, q) : (\A i \in MoversBefore(ls, x, q) : i <= j) =>
            SiteBefore(ls, x, ls[q].cycle) =
              (CHOOSE y \in ls[j].acts : y.op = "move" /\ x \in y.atoms).to
      BY <3>1, SiteIsLastMove
    <3>. QED
      BY <2>4, <2>5, <3>2
  <2>7. new[r].acts = ls[Origin(b, r)].acts
    <3>1. r \in 1 .. n - 1 /\ shifts(new[r])
      BY <1>1 DEF MoversBefore
    <3>2. r # a
      BY <1>4, <3>1
    <3>. QED
      BY <1>5, <3>1, <3>2
  <2>. QED
    BY <1>3, <2>3, <2>6, <2>7
<1>. QED
  BY <1>8, <1>9

\* A merge keeps the isolation that was there.
LEMMA MergeSpreads ==
  ASSUME NEW ls \in Seq(LayerSet), NEW a \in DOMAIN ls, NEW b \in DOMAIN ls, a < b,
         NEW new, MergeView(ls, a, b, new), Dense(ls),
         EntangleOnly(ls[a].acts), EntangleOnly(ls[b].acts),
         ~BreaksIsolation(new, ls[a].acts \cup ls[b].acts),
         \A k \in DOMAIN ls : Spread(ls, k),
         NEW p \in DOMAIN new
  PROVE  Spread(new, p)
<1>1. PICK n \in Nat : n = Len(ls) /\ DOMAIN ls = 1 .. n /\ DOMAIN new = 1 .. n - 1
  BY DEF MergeView
<1>2. CASE p = a
  <2>. DEFINE holders == {k \in DOMAIN new : Gates(new[a].acts) \subseteq Gates(new[k].acts)}
  <2>1. a \in holders /\ holders \in SUBSET Nat
    BY <1>1, <1>2
  <2>2. PICK k \in holders : \A j \in holders : k <= j
    <3>. HIDE DEF holders
    <3>. QED
      BY <2>1, LeastElement
  <2>3. k \in DOMAIN new /\ Gates(new[a].acts) \subseteq Gates(new[k].acts) /\ k <= a
    BY <2>1, <2>2
  <2>4. \A j \in 1 .. k - 1 : ~(Gates(new[a].acts) \subseteq Gates(new[j].acts))
    BY <1>1, <2>2, <2>3
  <2>5. FirstWith(new, Gates(new[a].acts)) \in DOMAIN new
        /\ Gates(new[a].acts) \subseteq Gates(new[FirstWith(new, Gates(new[a].acts))].acts)
        /\ \A j \in 1 .. FirstWith(new, Gates(new[a].acts)) - 1 :
             ~(Gates(new[a].acts) \subseteq Gates(new[j].acts))
    BY <2>3, <2>4 DEF FirstWith
  <2>6. PICK f \in DOMAIN new : f = FirstWith(new, Gates(new[a].acts))
    BY <2>5
  <2>7. f <= a /\ Gates(new[a].acts) \subseteq Gates(new[f].acts)
    <3>1. ~(a < f)
      BY <1>1, <1>2, <2>5, <2>6
    <3>. QED
      BY <1>1, <1>2, <2>5, <2>6, <3>1
  <2>8. Isolated(new, f)
    <3>1. new[a].acts = ls[a].acts \cup ls[b].acts
      BY DEF MergeView
    <3>. QED
      BY <2>6, <3>1 DEF BreaksIsolation
  <2>9. CASE f = a
    BY <1>2, <2>8, <2>9 DEF Spread
  <2>10. CASE f # a
    <3>1. f \in 1 .. a - 1
      BY <1>1, <1>2, <2>7, <2>10
    <3>. QED
      BY <1>2, <2>7, <3>1 DEF Spread
  <2>. QED
    BY <2>9, <2>10
<1>3. CASE p # a
  <2>1. PICK q \in DOMAIN ls : q = Origin(b, p) /\ Place(a, b, q) = p
    BY <1>1, Places
  <2>2. new[p].acts = ls[q].acts
    BY <1>3, <2>1 DEF MergeView
  <2>3. CASE Isolated(ls, q)
    <3>1. \A x : SiteBefore(new, x, new[p].cycle) = SiteBefore(ls, x, ls[q].cycle)
      <4>1. \A x : SiteBefore(new, x, new[p].cycle) = SiteBefore(ls, x, ls[Origin(b, p)].cycle)
        BY MergeMovesNothing
      <4>. QED
        BY <2>1, <4>1
    <3>2. Isolated(new, p)
      BY <2>2, <2>3, <3>1 DEF Isolated
    <3>. QED
      BY <3>2 DEF Spread
  <2>4. CASE \E i \in DOMAIN input : ls[q].acts = input[i]
    BY <2>2, <2>4 DEF Spread
  <2>5. CASE \E j \in 1 .. q - 1 : Gates(ls[q].acts) \subseteq Gates(ls[j].acts)
    <3>1. PICK j \in 1 .. q - 1 : Gates(ls[q].acts) \subseteq Gates(ls[j].acts)
      BY <2>5
    <3>2. j \in DOMAIN ls /\ j < q
      BY <1>1
    <3>3. q \notin {a, b}
      <4>1. q # b
        BY <1>1, <2>1, Places
      <4>2. Place(a, b, a) = a
        BY <1>1 DEF Place
      <4>. QED
        BY <1>3, <2>1, <4>1, <4>2
    <3>4. Place(a, b, j) < p /\ Place(a, b, j) \in 1 .. n - 1
      <4>1. \A r, s \in 1 .. n : r < s /\ s \notin {a, b} => Place(a, b, r) < Place(a, b, s)
        BY <1>1, Places
      <4>2. \A r \in 1 .. n : Place(a, b, r) \in 1 .. n - 1
        BY <1>1, Places
      <4>3. j \in 1 .. n /\ q \in 1 .. n
        BY <1>1, <3>2
      <4>. QED
        BY <2>1, <3>2, <3>3, <4>1, <4>2, <4>3
    <3>5. Gates(ls[j].acts) \subseteq Gates(new[Place(a, b, j)].acts)
      <4>1. ls[j].acts \subseteq new[Place(a, b, j)].acts
        BY <3>2, PlacesOfLayers
      <4>. QED
        BY <4>1 DEF Gates
    <3>6. Place(a, b, j) \in 1 .. p - 1
      BY <1>1, <3>4
    <3>. QED
      BY <2>2, <3>1, <3>5, <3>6 DEF Spread
  <2>. QED
    BY <2>3, <2>4, <2>5 DEF Spread
<1>. QED
  BY <1>2, <1>3

\* A merge keeps all of it.
LEMMA MergeSound ==
  ASSUME Sound(layers), Merge, Len(input) \in Nat
  PROVE  Sound(layers')
<1>1. PICK c \in Candidates(layers) : layers' = Merged(layers, c[1], c[2])
  BY DEF Merge
<1>2. PICK a \in DOMAIN layers, b \in DOMAIN layers :
        layers[a].cycle < layers[b].cycle /\ CanMerge(layers, a, b) /\ layers' = Merged(layers, a, b)
  BY <1>1 DEF Candidates
<1>3. PICK ls : ls = layers
  OBVIOUS
<1>4. PICK new : new = layers'
  OBVIOUS
<1>5. /\ ls \in Seq(LayerSet) /\ Len(ls) <= Len(input)
      /\ Dense(ls) /\ Covered(ls) /\ Overtaking(ls) /\ \A k \in DOMAIN ls : Spread(ls, k)
  BY <1>3 DEF Sound
<1>6. a \in DOMAIN ls /\ b \in DOMAIN ls /\ a < b
  BY <1>2, <1>3, <1>5 DEF Dense
<1>7. new = Merged(ls, a, b) /\ CanMerge(ls, a, b)
  BY <1>2, <1>3, <1>4
<1>8. MergeView(ls, a, b, new)
  BY <1>5, <1>6, <1>7, MergedView
<1>9. EntangleOnly(ls[a].acts) /\ EntangleOnly(ls[b].acts) /\ OrderKept(new)
      /\ ~BreaksIsolation(new, ls[a].acts \cup ls[b].acts)
  BY <1>7 DEF CanMerge
<1>10. Covered(new) /\ Overtaking(new)
  BY <1>5, <1>6, <1>8, <1>9, MergeCovers, MergeOvertakes
<1>11. \A p \in DOMAIN new : Spread(new, p)
  BY <1>5, <1>6, <1>8, <1>9, MergeSpreads
<1>12. new \in Seq(LayerSet) /\ Len(new) <= Len(input) /\ Dense(new)
  <2>1. new \in Seq(LayerSet) /\ Len(new) = Len(ls) - 1 /\ Dense(new)
    BY <1>8 DEF MergeView
  <2>2. Len(ls) \in Nat
    BY <1>5
  <2>. QED
    BY <1>5, <2>1, <2>2
<1>. QED
  BY <1>4, <1>9, <1>10, <1>11, <1>12 DEF Sound

--------------------------------------------------------------------------------
(* Every step of the pipeline.                                                 *)

\* Soundness looks at the input and the dependencies only.
LEMMA SoundPrimed ==
  ASSUME UNCHANGED <<input, deps>>, Sound(layers')
  PROVE  Sound(layers)'
<1>1. layers' \in Seq(LayerSet) /\ Len(layers') <= Len(input) /\ Dense(layers')
  BY DEF Sound
<1>2. LayerSet' = LayerSet
  BY DEF LayerSet, AllActs
<1>3. Dense(layers)'
  BY <1>1 DEF Dense
<1>4. Covered(layers)'
  <2>1. Covered(layers')
    BY DEF Sound
  <2>. QED
    BY <2>1 DEF Covered
<1>5. Overtaking(layers)'
  <2>1. Overtaking(layers')
    BY DEF Sound
  <2>. QED
    BY <2>1 DEF Overtaking
<1>6. OrderKept(layers)'
  <2>1. OrderKept(layers')
    BY DEF Sound
  <2>. QED
    BY <2>1 DEF OrderKept
<1>7. \A k \in DOMAIN layers' : Spread(layers, k)'
  <2>1. \A k \in DOMAIN layers' : Spread(layers', k)
    BY DEF Sound
  <2>. QED
    BY <2>1 DEF Spread
<1>. QED
  BY <1>1, <1>2, <1>3, <1>4, <1>5, <1>6, <1>7 DEF Sound

\* What the compaction does not see leaves it as it is.
LEMMA CompactionUntouched ==
  ASSUME CompactionInv, UNCHANGED <<input, deps, asap, layers>>, stage' \in {stage, "refused"}
  PROVE  CompactionInv'
<1>1. Baseline'
  BY DEF CompactionInv, Baseline, Stages, Compacting, AsapIsIdentity, Forward
<1>2. Compacting' /\ Forward' => Sound(layers)'
  <2>1. Compacting' /\ Forward' => Compacting /\ Forward
    BY DEF Compacting, Forward
  <2>2. Sound(layers) => Sound(layers')
    OBVIOUS
  <2>. QED
    BY <2>1, <2>2, SoundPrimed DEF CompactionInv
<1>. QED
  BY <1>1, <1>2 DEF CompactionInv

\* The dependencies are between layers of the schedule.
LEMMA MergedDepsInRange ==
  ASSUME NEW ls, NEW n \in Nat, Len(ls) = n, DOMAIN ls = 1 .. n, NEW caller, InRange(ls, caller),
         NEW d \in MergedDeps(ls, caller)
  PROVE  d.before \in DOMAIN ls /\ d.after \in DOMAIN ls
<1>1. CASE d \in AtomHazards(ls)
  <2>1. PICK a \in Atoms : d \in {Dep(p[1], p[2], "AtomHazard") : p \in Consecutive(Users(ls, a))}
    BY <1>1 DEF AtomHazards
  <2>2. PICK p \in Consecutive(Users(ls, a)) : d = Dep(p[1], p[2], "AtomHazard")
    BY <2>1
  <2>3. p \in Users(ls, a) \X Users(ls, a)
    BY <2>2 DEF Consecutive
  <2>4. p[1] \in DOMAIN ls /\ p[2] \in DOMAIN ls
    BY <2>3 DEF Users
  <2>. QED
    BY <2>2, <2>4 DEF Dep
<1>2. CASE d \in caller
  BY <1>2 DEF InRange
<1>3. CASE d \in UNION {BarrierCut(ls, e.before) : e \in {f \in caller : f.kind = "Barrier"}}
  <2>1. PICK e \in caller : d \in BarrierCut(ls, e.before)
    BY <1>3
  <2>2. PICK b \in 1 .. n : b = e.before
    BY <2>1 DEF InRange
  <2>3. d \in BarrierCut(ls, b)
    BY <2>1, <2>2
  <2>4. \E i, j \in 1 .. n : d = Dep(i, j, "Barrier")
    BY <2>3 DEF BarrierCut
  <2>. QED
    BY <2>4 DEF Dep
<1>. QED
  BY <1>1, <1>2, <1>3 DEF MergedDeps

\* A schedule is handed to compaction.
LEMMA SubmitKeeps ==
  ASSUME CompactionInv, NEW S, NEW ls \in Seq(S), NEW caller, Submit(ls, caller)
  PROVE  CompactionInv'
<1>1. PICK n \in Nat : Len(ls) = n /\ DOMAIN ls = 1 .. n
  OBVIOUS
<1>2. stage = "idle" /\ asap = <<>> /\ deps = {} /\ UNCHANGED <<asap, layers>>
  BY DEF Submit, CompactionInv, Baseline
<1>3. stage' \in {"asap", "refused"}
  BY DEF Submit
<1>4. ~Compacting'
  BY <1>3 DEF Compacting
<1>5. CASE stage' = "refused"
  <2>1. UNCHANGED <<input, deps, asap, layers>>
    BY <1>2, <1>5 DEF Submit
  <2>. QED
    BY <1>5, <2>1, CompactionUntouched
<1>6. CASE stage' = "asap"
  <2>1. InRange(ls, caller) /\ input' = ls /\ deps' = MergedDeps(ls, caller)
    BY <1>6 DEF Submit
  <2>2. \A d \in deps' : d.before \in DOMAIN input' /\ d.after \in DOMAIN input'
    BY <1>1, <2>1, MergedDepsInRange
  <2>3. asap' = <<>> /\ Len(asap') = 0 /\ DOMAIN asap' = {} /\ asap' \in Seq(Nat)
    BY <1>2
  <2>4. AsapIsIdentity'
    BY <2>3 DEF AsapIsIdentity
  <2>5. Len(input') \in Nat /\ DOMAIN input' = 1 .. Len(input') /\ Len(asap') <= Len(input')
    BY <1>1, <2>1, <2>3
  <2>6. Baseline'
    BY <1>4, <1>6, <2>2, <2>3, <2>4, <2>5 DEF Baseline, Stages
  <2>. QED
    BY <1>4, <2>6 DEF CompactionInv
<1>. QED
  BY <1>3, <1>5, <1>6

\* The compaction's own steps.
LEMMA CompactionKeeps ==
  ASSUME CompactionInv, CompactionNext
  PROVE  CompactionInv'
<1>1. CASE AsapStep
  <2>1. ~Compacting'
    BY <1>1 DEF AsapStep, Compacting
  <2>. QED
    BY <1>1, <2>1, AsapStepKeeps DEF CompactionInv
<1>2. CASE SortByCycle
  <2>1. UNCHANGED <<input, deps, asap>> /\ stage' = "merge" /\ Len(asap) = Len(input)
    BY <1>2 DEF SortByCycle
  <2>2. Baseline'
    BY <2>1 DEF CompactionInv, Baseline, Stages, AsapIsIdentity, Forward
  <2>3. Forward' => Sound(layers)'
    <3>1. Forward' => Forward
      BY <2>1 DEF Forward
    <3>. QED
      BY <1>2, <2>1, <3>1, SortSound, SoundPrimed DEF CompactionInv
  <2>. QED
    BY <2>2, <2>3 DEF CompactionInv
<1>3. CASE Merge
  <2>1. UNCHANGED <<stage, input, deps, asap>> /\ stage = "merge"
    BY <1>3 DEF Merge
  <2>2. Baseline'
    BY <2>1 DEF CompactionInv, Baseline, Stages, AsapIsIdentity, Forward, Compacting
  <2>3. Forward' => Sound(layers)'
    <3>1. Forward' => Forward /\ Compacting
      BY <2>1 DEF Forward, Compacting
    <3>2. Len(input) \in Nat
      BY DEF CompactionInv, Baseline
    <3>. QED
      BY <1>3, <2>1, <3>1, <3>2, MergeSound, SoundPrimed DEF CompactionInv
  <2>. QED
    BY <2>2, <2>3 DEF CompactionInv
<1>4. CASE Finish
  <2>1. UNCHANGED <<input, deps, asap, layers>> /\ stage = "merge" /\ stage' \in {"done", "refused"}
    BY <1>4 DEF Finish
  <2>2. Baseline'
    BY <2>1 DEF CompactionInv, Baseline, Stages, AsapIsIdentity, Forward, Compacting
  <2>3. Forward' => Sound(layers)'
    <3>1. Forward' => Forward /\ Compacting
      BY <2>1 DEF Forward, Compacting
    <3>2. Sound(layers) => Sound(layers')
      BY <2>1
    <3>. QED
      BY <2>1, <3>1, <3>2, SoundPrimed DEF CompactionInv
  <2>. QED
    BY <2>2, <2>3 DEF CompactionInv
<1>. QED
  BY <1>1, <1>2, <1>3, <1>4 DEF CompactionNext

\* The dependencies are those of the input and of the caller: a wait is a barrier.
HazardsIn == AtomHazards(input) \subseteq deps
Submitted == stage \in {"asap", "merge", "done"}
OutIsSeq == \E S : out \in Seq(S)
PipelineInv ==
  /\ OutIsSeq
  /\ Submitted => HazardsIn
  /\ Submitted /\ ~foreign => deps = MergedDeps(input, CallerDeps(input))
  /\ foreign => rounds = 0 /\ stage # "idle"

PlanInv == CompactionInv /\ PipelineInv

\* What is emitted is a sequence.
LEMMA OutGrows ==
  ASSUME OutIsSeq
  PROVE  /\ \A e : out' = Append(out, e) => OutIsSeq'
         /\ \A x, y, z : out' = out \o <<x, y, z>> => OutIsSeq'
         /\ out' = <<>> => OutIsSeq'
         /\ out' = out => OutIsSeq'
<1>1. PICK S : out \in Seq(S)
  BY DEF OutIsSeq
<1>2. ASSUME NEW e, out' = Append(out, e) PROVE OutIsSeq'
  <2>1. out \in Seq(S \cup {e})
    BY <1>1, SeqMonotonic
  <2>2. Append(out, e) \in Seq(S \cup {e})
    BY <2>1
  <2>. QED
    BY <1>2, <2>2 DEF OutIsSeq
<1>3. ASSUME NEW x, NEW y, NEW z, out' = out \o <<x, y, z>> PROVE OutIsSeq'
  <2>. DEFINE T == S \cup {x, y, z}
  <2>1. out \in Seq(T)
    BY <1>1, SeqMonotonic
  <2>2. <<x, y, z>> \in Seq(T)
    OBVIOUS
  <2>3. out \o <<x, y, z>> \in Seq(T)
    <3>. HIDE DEF T
    <3>. QED
      BY <2>1, <2>2, ConcatProperties
  <2>. QED
    BY <1>3, <2>3 DEF OutIsSeq
<1>4. out' = <<>> => OutIsSeq'
  <2>1. <<>> \in Seq({})
    OBVIOUS
  <2>. QED
    BY <2>1 DEF OutIsSeq
<1>. QED
  BY <1>1, <1>2, <1>3, <1>4 DEF OutIsSeq

\* Planning, refusing and reading out do not touch what is being compacted.
Quiet ==
  /\ UNCHANGED <<input, deps, asap, layers, foreign>>
  /\ stage' \in {stage, "refused"}
  /\ rounds' = rounds \/ stage = "idle"
  /\ OutIsSeq'

\* They keep it.
LEMMA QuietKeeps ==
  ASSUME PlanInv, Quiet
  PROVE  PlanInv'
<1>1. CompactionInv'
  BY CompactionUntouched DEF PlanInv, Quiet
<1>2. Submitted' => Submitted /\ stage # "idle"
  BY DEF Submitted, Quiet
<1>3. HazardsIn => HazardsIn'
  BY DEF HazardsIn, Quiet, AtomHazards, Users
<1>4. Submitted' /\ ~foreign' => deps' = MergedDeps(input', CallerDeps(input)')
  <2>1. Submitted' => rounds' = rounds
    BY <1>2 DEF Quiet
  <2>2. Submitted' => CallerDeps(input)' = CallerDeps(input)
    BY <2>1 DEF Quiet, CallerDeps
  <2>. QED
    BY <1>2, <2>2 DEF PlanInv, PipelineInv, Quiet
<1>5. foreign' => rounds' = 0 /\ stage' # "idle"
  <2>1. foreign' = foreign /\ (rounds' = rounds \/ stage = "idle") /\ stage' \in {stage, "refused"}
    BY DEF Quiet
  <2>2. foreign => rounds = 0 /\ stage # "idle"
    BY DEF PlanInv, PipelineInv
  <2>. QED
    BY <2>1, <2>2
<1>. QED
  BY <1>1, <1>2, <1>3, <1>4, <1>5 DEF PlanInv, PipelineInv, Quiet

\* Which steps those are.
LEMMA RefuseIsQuiet ==
  ASSUME PlanInv, Refuse, UNCHANGED pvars
  PROVE  Quiet
BY OutGrows DEF PlanInv, PipelineInv, Refuse, zvars, pvars, Quiet

\* So are the steps that place readout,
LEMMA ReadoutIsQuiet ==
  ASSUME PlanInv, NEW acts, ReadoutLayer(acts), UNCHANGED cvars, foreign' = foreign,
         rounds' = rounds \/ stage = "idle"
  PROVE  Quiet
<1>1. OutIsSeq
  BY DEF PlanInv, PipelineInv
<1>2. out' = out \/ \E e : out' = Append(out, e)
  BY DEF ReadoutLayer
<1>3. OutIsSeq'
  BY <1>1, <1>2, OutGrows
<1>. QED
  BY <1>3 DEF Quiet, cvars

\* and the planner's own.
LEMMA ZonedIsQuiet ==
  ASSUME PlanInv, ZonedStep, UNCHANGED cvars, UNCHANGED pvars
  PROVE  Quiet
<1>1. OutIsSeq
  BY DEF PlanInv, PipelineInv
<1>2. CASE EmitGroup
  <2>1. \E x, y, z : out' = out \o <<x, y, z>>
    BY <1>2 DEF EmitGroup
  <2>2. OutIsSeq'
    BY <1>1, <2>1, OutGrows
  <2>. QED
    BY <2>2 DEF Quiet, cvars, pvars
<1>3. CASE EmitLast
  <2>1. OutIsSeq'
    BY <1>1, <1>3, OutGrows DEF EmitLast
  <2>. QED
    BY <2>1 DEF Quiet, cvars, pvars
<1>4. CASE AssignPairs \/ MoveToReadout
  <2>1. OutIsSeq'
    BY <1>1, <1>4, OutGrows DEF AssignPairs, MoveToReadout
  <2>. QED
    BY <2>1 DEF Quiet, cvars, pvars
<1>. QED
  BY <1>2, <1>3, <1>4 DEF ZonedStep

\* The planned layers, or given ones, are submitted.
LEMMA CompactKeeps ==
  ASSUME PlanInv, Compact
  PROVE  PlanInv'
<1>1. PICK S : out \in Seq(S)
  BY DEF PlanInv, PipelineInv, OutIsSeq
<1>2. CompactionInv'
  BY <1>1, SubmitKeeps DEF PlanInv, Compact
<1>3. OutIsSeq'
  BY OutGrows DEF PlanInv, PipelineInv, Compact
<1>4. UNCHANGED <<rounds, foreign>> /\ stage = "idle" /\ ~foreign
  BY DEF Compact, pvars, Planning, PlanInv, PipelineInv
<1>5. Submitted' => input' = out /\ deps' = MergedDeps(out, CallerDeps(out))
  BY DEF Compact, Submit, Submitted
<1>6. Submitted' => deps' = MergedDeps(input', CallerDeps(input)')
  BY <1>4, <1>5 DEF CallerDeps
<1>7. Submitted' => HazardsIn'
  BY <1>6 DEF HazardsIn, MergedDeps
<1>. QED
  BY <1>2, <1>3, <1>4, <1>6, <1>7 DEF PlanInv, PipelineInv

\* The same for a schedule that is given.
LEMMA ForeignKeeps ==
  ASSUME PlanInv, NEW S, NEW ls \in Seq(S), NEW caller, CompactForeign(ls, caller)
  PROVE  PlanInv'
<1>1. CompactionInv'
  BY SubmitKeeps DEF PlanInv, CompactForeign
<1>2. OutIsSeq'
  BY OutGrows DEF PlanInv, PipelineInv, CompactForeign, zvars
<1>3. rounds' = 0 /\ foreign' /\ stage' \in {"asap", "refused"}
  BY DEF CompactForeign, Submit
<1>4. Submitted' => HazardsIn'
  <2>1. Submitted' => input' = ls /\ deps' = MergedDeps(ls, caller)
    BY DEF CompactForeign, Submit, Submitted
  <2>. QED
    BY <2>1 DEF HazardsIn, MergedDeps
<1>. QED
  BY <1>1, <1>2, <1>3, <1>4 DEF PlanInv, PipelineInv

\* Compaction goes on with what it was submitted.
LEMMA CompactingKeeps ==
  ASSUME PlanInv, CompactionNext, UNCHANGED zvars, UNCHANGED pvars
  PROVE  PlanInv'
<1>1. CompactionInv'
  BY CompactionKeeps DEF PlanInv
<1>2. UNCHANGED <<input, deps>> /\ stage \in {"asap", "merge"} /\ stage' # "idle"
  BY DEF CompactionNext, AsapStep, SortByCycle, Merge, Finish
<1>3. OutIsSeq' /\ UNCHANGED <<rounds, foreign>>
  BY OutGrows DEF PlanInv, PipelineInv, zvars, pvars
<1>4. CallerDeps(input)' = CallerDeps(input)
  BY <1>2, <1>3 DEF CallerDeps
<1>5. Submitted
  BY <1>2 DEF Submitted
<1>6. HazardsIn'
  BY <1>2, <1>5 DEF PlanInv, PipelineInv, HazardsIn
<1>7. ~foreign' => deps' = MergedDeps(input', CallerDeps(input)')
  BY <1>2, <1>3, <1>4, <1>5 DEF PlanInv, PipelineInv
<1>8. foreign' => rounds' = 0
  BY <1>3 DEF PlanInv, PipelineInv
<1>. QED
  BY <1>1, <1>2, <1>3, <1>6, <1>7, <1>8 DEF PlanInv, PipelineInv

\* Every step keeps it all.
LEMMA NextKeeps ==
  ASSUME PlanInv, [Next]_vars
  PROVE  PlanInv'
<1>1. ASSUME NEW gates, NEW rest, PlanGates(gates, rest) PROVE PlanInv'
  <2>1. Quiet
    <3>1. CASE GateLayer(gates, rest) /\ UNCHANGED cvars
      <4>1. OutIsSeq'
        BY <3>1, OutGrows DEF GateLayer, PlanInv, PipelineInv
      <4>. QED
        BY <1>1, <3>1, <4>1 DEF PlanGates, Quiet, cvars
    <3>2. CASE TooManyGates(gates) /\ UNCHANGED program
      BY <1>1, <3>2, RefuseIsQuiet DEF TooManyGates, PlanGates, pvars
    <3>. QED
      BY <1>1, <3>1, <3>2 DEF PlanGates
  <2>. QED
    BY <2>1, QuietKeeps
<1>2. ASSUME NEW layer, PlanLocal(layer) PROVE PlanInv'
  <2>1. OutIsSeq'
    BY <1>2, OutGrows DEF PlanLocal, PassLayer, PlanInv, PipelineInv
  <2>2. Quiet
    BY <1>2, <2>1 DEF PlanLocal, Quiet, cvars
  <2>. QED
    BY <2>2, QuietKeeps
<1>3. ASSUME NEW acts, EndRound(acts) PROVE PlanInv'
  <2>1. Quiet
    BY <1>3, ReadoutIsQuiet DEF EndRound, Planning
  <2>. QED
    BY <2>1, QuietKeeps
<1>4. CASE Compact
  BY <1>4, CompactKeeps
<1>5. ASSUME NEW measured, TerminalMeasure(measured) PROVE PlanInv'
  <2>1. Quiet
    BY <1>5, ReadoutIsQuiet DEF TerminalMeasure
  <2>. QED
    BY <2>1, QuietKeeps
<1>6. ASSUME NEW ls \in Seq(SUBSET Action), NEW caller, CompactForeign(ls, caller) PROVE PlanInv'
  BY <1>6, ForeignKeeps
<1>7. CASE PlanStep
  <2>1. CASE ZonedStep /\ UNCHANGED cvars /\ UNCHANGED pvars
    BY <2>1, ZonedIsQuiet, QuietKeeps
  <2>2. CASE ZonedRefusal /\ stage # "refused" /\ UNCHANGED pvars
    BY <2>2, RefuseIsQuiet, QuietKeeps DEF ZonedRefusal, NoLegalPair, ReadoutFull
  <2>3. CASE CompactionNext /\ UNCHANGED zvars /\ UNCHANGED pvars
    BY <2>3, CompactingKeeps
  <2>. QED
    BY <1>7, <2>1, <2>2, <2>3 DEF PlanStep
<1>8. CASE UNCHANGED vars
  <2>1. OutIsSeq'
    BY <1>8, OutGrows DEF vars, zvars, PlanInv, PipelineInv
  <2>2. Quiet
    BY <1>8, <2>1 DEF Quiet, vars, cvars, pvars
  <2>. QED
    BY <2>2, QuietKeeps
<1>. QED
  BY <1>1, <1>2, <1>3, <1>4, <1>5, <1>6, <1>7, <1>8 DEF Next

\* It holds at the start,
LEMMA InitPlan ==
  ASSUME Init
  PROVE  PlanInv
<1>1. stage = "idle" /\ input = <<>> /\ deps = {} /\ asap = <<>> /\ out = <<>> /\ rounds = 0 /\ foreign = FALSE
  BY DEF Init, CompactionInit, ZonedInit
<1>2. OutIsSeq
  <2>1. <<>> \in Seq({})
    OBVIOUS
  <2>. QED
    BY <1>1, <2>1 DEF OutIsSeq
<1>3. /\ Len(input) = 0 /\ DOMAIN input = 1 .. 0 /\ Len(asap) = 0 /\ DOMAIN asap = {}
      /\ asap \in Seq(Nat)
  BY <1>1
<1>4. Baseline
  BY <1>1, <1>3 DEF Baseline, Stages, Compacting, AsapIsIdentity
<1>. QED
  BY <1>1, <1>2, <1>4 DEF PlanInv, PipelineInv, CompactionInv, Compacting, Submitted

\* and so always.
LEMMA Inductive == Spec => []PlanInv
<1>1. Init => PlanInv
  BY InitPlan
<1>2. PlanInv /\ [Next]_vars => PlanInv'
  BY NextKeeps
<1>. QED
  BY <1>1, <1>2, PTL DEF Spec

--------------------------------------------------------------------------------
(* What follows for the schedules.                                             *)

\* The pipeline's own dependencies all point forward: those of the atoms, of barriers
\* and of feed-forward (infer_atom_deps, round_barrier_cuts, lattice_surgery_feedforward_deps).
OwnDependenciesForward == Submitted /\ ~foreign => Forward

\* The caller's dependencies point forward,
LEMMA CallerDepsForward ==
  ASSUME NEW ls, NEW n \in Nat, Len(ls) = n, DOMAIN ls = 1 .. n, NEW d \in CallerDeps(ls)
  PROVE  \E i, j \in 1 .. n : i < j /\ d.before = i /\ d.after = j
<1>. DEFINE active == {j \in DOMAIN ls : Active(ls[j])}
            waits == {j \in DOMAIN ls : IsWait(ls[j])}
            next == {j \in DOMAIN ls : Active(ls[j]) \/ Has(ls[j], "local")}
<1>1. d \in RoundBarrierCuts(ls) \/ d \in FeedForwardDeps(ls)
  BY DEF CallerDeps
<1>2. CASE d \in RoundBarrierCuts(ls)
  <2>1. PICK i \in DOMAIN ls : d \in {Dep(i, j, "Barrier") : j \in FirstAfter(i, active)}
    BY <1>2 DEF RoundBarrierCuts
  <2>2. PICK j \in FirstAfter(i, active) : d = Dep(i, j, "Barrier")
    BY <2>1
  <2>. QED
    BY <2>2 DEF FirstAfter, Dep
<1>3. CASE d \in FeedForwardDeps(ls)
  <2>1. PICK i \in DOMAIN ls :
          d \in UNION {{Dep(i, j, "FeedForward") : j \in FirstAfter(w, next)} :
                         w \in FirstAfter(i, waits)}
    BY <1>3 DEF FeedForwardDeps
  <2>2. PICK w \in FirstAfter(i, waits) : d \in {Dep(i, j, "FeedForward") : j \in FirstAfter(w, next)}
    BY <2>1
  <2>3. PICK j \in FirstAfter(w, next) : d = Dep(i, j, "FeedForward")
    BY <2>2
  <2>4. w \in 1 .. n /\ i < w /\ j \in 1 .. n /\ w < j
    BY <2>2, <2>3 DEF FirstAfter
  <2>5. i < j
    BY <2>4
  <2>. QED
    BY <2>3, <2>4, <2>5 DEF Dep
<1>. QED
  BY <1>1, <1>2, <1>3

\* and so do those merged from them.
LEMMA OwnForward ==
  ASSUME PlanInv
  PROVE  OwnDependenciesForward
<1>. SUFFICES ASSUME Submitted, ~foreign, NEW d \in deps PROVE d.before < d.after
  BY DEF OwnDependenciesForward, Forward
<1>1. PICK n \in Nat : Len(input) = n /\ DOMAIN input = 1 .. n
  BY DEF PlanInv, CompactionInv, Baseline
<1>2. d \in MergedDeps(input, CallerDeps(input))
  BY DEF PlanInv, PipelineInv
<1>3. CASE d \in AtomHazards(input)
  <2>1. PICK a \in Atoms :
          d \in {Dep(p[1], p[2], "AtomHazard") : p \in Consecutive(Users(input, a))}
    BY <1>3 DEF AtomHazards
  <2>2. PICK p \in Consecutive(Users(input, a)) : d = Dep(p[1], p[2], "AtomHazard")
    BY <2>1
  <2>. QED
    BY <2>2 DEF Consecutive, Dep
<1>4. CASE d \in CallerDeps(input)
  BY <1>1, <1>4, CallerDepsForward
<1>5. CASE d \in UNION {BarrierCut(input, e.before) :
                          e \in {f \in CallerDeps(input) : f.kind = "Barrier"}}
  <2>1. PICK e \in CallerDeps(input) : d \in BarrierCut(input, e.before)
    BY <1>5
  <2>2. PICK b \in 1 .. n : e.before = b
    BY <1>1, <2>1, CallerDepsForward
  <2>3. d \in BarrierCut(input, b)
    BY <2>1, <2>2
  <2>4. \E i, j \in 1 .. n : i < j /\ d = Dep(i, j, "Barrier")
    BY <1>1, <2>3 DEF BarrierCut
  <2>. QED
    BY <2>4 DEF Dep
<1>. QED
  BY <1>2, <1>3, <1>4, <1>5 DEF MergedDeps

\* A layer's cycle is its number in the schedule.
LEMMA CycleIsPlace ==
  ASSUME Sound(layers), NEW i \in DOMAIN input
  PROVE  /\ VertexOf(layers, i) \in DOMAIN layers /\ DOMAIN layers \subseteq Nat
         /\ i \in layers[VertexOf(layers, i)].lineage
         /\ CycleOf(layers, i) = VertexOf(layers, i) - 1
<1>1. layers \in Seq(LayerSet) /\ Dense(layers) /\ Covered(layers)
  BY DEF Sound
<1>2. VertexOf(layers, i) \in DOMAIN layers /\ i \in layers[VertexOf(layers, i)].lineage
  BY <1>1, VertexIs
<1>. QED
  BY <1>1, <1>2 DEF Dense, CycleOf

\* A wait with work behind it cuts the schedule in two; what else is behind it has no
\* gate and is not overtaken.
LEMMA WaitsCut ==
  ASSUME PlanInv
  PROVE  RoundsStayApart
<1>. SUFFICES ASSUME stage \in {"merge", "done"}, rounds > 0, NEW w \in DOMAIN input, IsWait(input[w]),
                     NEW i \in 1 .. w - 1, NEW j \in w + 1 .. Len(input)
              PROVE  CycleOf(layers, i) < CycleOf(layers, j)
  BY DEF RoundsStayApart
<1>1. PICK n \in Nat : Len(input) = n /\ DOMAIN input = 1 .. n
  BY DEF PlanInv, CompactionInv, Baseline
<1>2. rounds # 0
  OBVIOUS
<1>3. Submitted /\ ~foreign /\ Compacting
  BY <1>2 DEF PlanInv, PipelineInv, Submitted, Compacting
<1>4. Forward
  BY <1>3, OwnForward DEF OwnDependenciesForward
<1>5. Sound(layers)
  BY <1>3, <1>4 DEF PlanInv, CompactionInv
<1>6. i \in DOMAIN input /\ j \in DOMAIN input /\ w \in 1 .. n /\ i < w /\ w < j
  BY <1>1
<1>. DEFINE active == {k \in DOMAIN input : Active(input[k])}
            behind == {k \in active : k > w}
<1>7. CASE behind # {}
  <2>1. behind \in SUBSET Nat
    BY <1>1
  <2>2. PICK k \in behind : \A m \in behind : k <= m
    <3>. HIDE DEF behind
    <3>. QED
      BY <1>7, <2>1, LeastElement
  <2>3. k \in FirstAfter(w, active)
    BY <2>2 DEF FirstAfter
  <2>4. Dep(w, k, "Barrier") \in RoundBarrierCuts(input)
    <3>. DEFINE cut == {v \in DOMAIN input :
                          \/ IsWait(input[v])
                          \/ Has(input[v], "reset")
                             /\ ~(v + 1 \in DOMAIN input /\ IsWait(input[v + 1]))}
    <3>1. RoundBarrierCuts(input) =
            UNION {{Dep(v, m, "Barrier") : m \in FirstAfter(v, active)} : v \in cut}
      BY DEF RoundBarrierCuts
    <3>2. w \in cut
      OBVIOUS
    <3>3. Dep(w, k, "Barrier") \in {Dep(w, m, "Barrier") : m \in FirstAfter(w, active)}
      BY <2>3
    <3>. HIDE DEF cut, active
    <3>. QED
      BY <3>1, <3>2, <3>3
  <2>5. Dep(w, k, "Barrier") \in CallerDeps(input)
    BY <1>2, <2>4 DEF CallerDeps
  <2>6. Dep(i, j, "Barrier") \in BarrierCut(input, w)
    BY DEF BarrierCut
  <2>7. Dep(w, k, "Barrier").before = w /\ Dep(w, k, "Barrier").kind = "Barrier"
    BY DEF Dep
  <2>8. Dep(i, j, "Barrier") \in MergedDeps(input, CallerDeps(input))
    BY <2>5, <2>6, <2>7 DEF MergedDeps
  <2>9. Dep(i, j, "Barrier") \in deps
    BY <1>3, <2>8 DEF PlanInv, PipelineInv
  <2>. QED
    BY <1>5, <2>9 DEF Sound, OrderKept, Dep
<1>8. CASE behind = {}
  <2>1. ~Active(input[j])
    BY <1>6, <1>8
  <2>2. ~EntangleOnly(input[j])
    BY <2>1 DEF Active, EntangleOnly
  <2>3. i < j
    BY <1>1, <1>6
  <2>4. VertexOf(layers, i) < VertexOf(layers, j)
    BY <1>5, <1>6, <2>2, <2>3, CycleIsPlace DEF Sound, Overtaking
  <2>5. /\ VertexOf(layers, i) \in Nat /\ CycleOf(layers, i) = VertexOf(layers, i) - 1
        /\ VertexOf(layers, j) \in Nat /\ CycleOf(layers, j) = VertexOf(layers, j) - 1
    BY <1>5, <1>6, CycleIsPlace
  <2>. QED
    BY <2>4, <2>5
<1>. QED
  BY <1>7, <1>8

\* Every atom is used in the order of the input, through all merges: a hazard between
\* consecutive uses is enough (infer_atom_deps).
UsesStayInOrder ==
  Compacting /\ Forward =>
    \A a \in Atoms : \A i, j \in Users(input, a) :
      i < j => CycleOf(layers, i) < CycleOf(layers, j)

\* Between two uses there is a chain of consecutive ones.
LEMMA HazardsSuffice ==
  ASSUME PlanInv
  PROVE  UsesStayInOrder
<1>. SUFFICES ASSUME Compacting, Forward, NEW a \in Atoms, NEW i \in Users(input, a)
              PROVE  \A j \in Users(input, a) : i < j => CycleOf(layers, i) < CycleOf(layers, j)
  BY DEF UsesStayInOrder
<1>1. PICK n \in Nat : Len(input) = n /\ DOMAIN input = 1 .. n
  BY DEF PlanInv, CompactionInv, Baseline
<1>2. Sound(layers)
  BY DEF PlanInv, CompactionInv
<1>3. Users(input, a) \subseteq 1 .. n
  BY <1>1 DEF Users
<1>4. \A k \in Users(input, a) : CycleOf(layers, k) \in Int
  <2>. TAKE k \in Users(input, a)
  <2>1. k \in DOMAIN input
    BY <1>1, <1>3
  <2>. QED
    BY <1>2, <2>1, CycleIsPlace
<1>. DEFINE late == {j \in Users(input, a) : i < j /\ ~(CycleOf(layers, i) < CycleOf(layers, j))}
<1>5. CASE late # {}
  <2>1. late \in SUBSET Nat
    BY <1>3
  <2>2. PICK j \in late : \A m \in late : j <= m
    <3>. HIDE DEF late
    <3>. QED
      BY <1>5, <2>1, LeastElement
  <2>. DEFINE sooner == {m \in Users(input, a) : m < j}
  <2>3. i \in sooner /\ sooner \in SUBSET (0 .. n)
    BY <1>3, <2>2
  <2>4. PICK k \in sooner : \A m \in sooner : m <= k
    <3>. HIDE DEF sooner
    <3>. QED
      BY <2>3, GreatestElement
  <2>5. \A m \in Users(input, a) : m <= k \/ j <= m
    BY <1>3, <2>2, <2>4
  <2>6. <<k, j>> \in Consecutive(Users(input, a))
    BY <2>2, <2>4, <2>5 DEF Consecutive
  <2>7. Dep(k, j, "AtomHazard") \in AtomHazards(input)
    <3>1. Dep(<<k, j>>[1], <<k, j>>[2], "AtomHazard")
            \in {Dep(p[1], p[2], "AtomHazard") : p \in Consecutive(Users(input, a))}
      BY <2>6
    <3>. QED
      BY <3>1 DEF AtomHazards
  <2>8. Dep(k, j, "AtomHazard") \in deps
    BY <2>7 DEF PlanInv, PipelineInv, HazardsIn, Submitted, Compacting
  <2>9. CycleOf(layers, k) < CycleOf(layers, j)
    BY <1>2, <2>8 DEF Sound, OrderKept, Dep
  <2>10. k = i \/ CycleOf(layers, i) < CycleOf(layers, k)
    <3>1. i <= k /\ k < j /\ k \in Users(input, a) /\ k \notin late
      BY <1>3, <2>2, <2>3, <2>4
    <3>. QED
      BY <1>3, <3>1
  <2>11. CycleOf(layers, i) < CycleOf(layers, j)
    BY <1>4, <2>2, <2>4, <2>9, <2>10
  <2>. QED
    BY <2>2, <2>11
<1>. QED
  BY <1>5

\* Each layer of the input is in exactly one layer of the output, which runs what its
\* layers run, no more and no less (the lineage of apply_merge).
NothingLostOrDoubled == Compacting /\ Forward => Covered(layers)

--------------------------------------------------------------------------------
(* Where the atoms are.                                                        *)

Target(layer, a) == (CHOOSE x \in MovesOf(layer, a) : TRUE).to

\* The last layer that moves an atom says where it is.
LEMMA WhereIs ==
  ASSUME NEW ls, NEW a, NEW k \in Nat
  PROVE  /\ (\A i \in 1 .. k - 1 : MovesOf(ls[i], a) = {}) => Where(ls, a, k) = Start[a]
         /\ \A i \in 1 .. k - 1 :
              /\ MovesOf(ls[i], a) # {}
              /\ \A j \in 1 .. k - 1 : MovesOf(ls[j], a) # {} => j <= i
              => Where(ls, a, k) = Target(ls[i], a)
<1>. DEFINE ks == {i \in 1 .. k - 1 : MovesOf(ls[i], a) # {}}
<1>1. ASSUME \A i \in 1 .. k - 1 : MovesOf(ls[i], a) = {} PROVE Where(ls, a, k) = Start[a]
  <2>1. ks = {}
    BY <1>1
  <2>. QED
    BY <2>1 DEF Where
<1>2. ASSUME NEW i \in 1 .. k - 1, MovesOf(ls[i], a) # {},
             \A j \in 1 .. k - 1 : MovesOf(ls[j], a) # {} => j <= i
      PROVE  Where(ls, a, k) = Target(ls[i], a)
  <2>1. i \in ks /\ \A j \in ks : j <= i
    BY <1>2
  <2>2. ks \subseteq Int
    OBVIOUS
  <2>3. (CHOOSE j \in ks : \A m \in ks : m <= j) = i
    <3>. HIDE DEF ks
    <3>1. ASSUME NEW j \in ks, \A m \in ks : m <= j PROVE j = i
      <4>1. i <= j /\ j <= i /\ i \in Int /\ j \in Int
        BY <2>1, <2>2, <3>1
      <4>. QED
        BY <4>1
    <3>. QED
      BY <2>1, <3>1
  <2>4. Where(ls, a, k)
          = IF ks = {} THEN Start[a]
            ELSE (CHOOSE x \in MovesOf(ls[CHOOSE j \in ks : \A m \in ks : m <= j], a) : TRUE).to
    BY DEF Where
  <2>. QED
    BY <2>1, <2>3, <2>4 DEF Target
<1>. QED
  BY <1>1, <1>2

\* There is a last one, if any.
LEMMA LastMoveExists ==
  ASSUME NEW ls, NEW a, NEW k \in Nat, NEW i \in 1 .. k - 1, MovesOf(ls[i], a) # {}
  PROVE  \E l \in 1 .. k - 1 : /\ MovesOf(ls[l], a) # {}
                               /\ \A j \in 1 .. k - 1 : MovesOf(ls[j], a) # {} => j <= l
<1>. DEFINE ks == {j \in 1 .. k - 1 : MovesOf(ls[j], a) # {}}
<1>1. ks \in SUBSET (0 .. k) /\ ks # {}
  OBVIOUS
<1>2. PICK l \in ks : \A j \in ks : j <= l
  <2>. HIDE DEF ks
  <2>. QED
    BY <1>1, GreatestElement
<1>. QED
  BY <1>2

\* What comes later does not change it.
LEMMA WhereOfPrefix ==
  ASSUME NEW ls, NEW ms, NEW a, NEW k \in Nat, \A i \in 1 .. k - 1 : ls[i] = ms[i]
  PROVE  Where(ls, a, k) = Where(ms, a, k)
<1>1. CASE \A i \in 1 .. k - 1 : MovesOf(ls[i], a) = {}
  BY <1>1, WhereIs
<1>2. CASE \E i \in 1 .. k - 1 : MovesOf(ls[i], a) # {}
  <2>1. PICK l \in 1 .. k - 1 : /\ MovesOf(ls[l], a) # {}
                                /\ \A j \in 1 .. k - 1 : MovesOf(ls[j], a) # {} => j <= l
    BY <1>2, LastMoveExists
  <2>2. Where(ls, a, k) = Target(ls[l], a)
    BY <2>1, WhereIs
  <2>3. Where(ms, a, k) = Target(ms[l], a)
    BY <2>1, WhereIs
  <2>. QED
    BY <2>2, <2>3
<1>. QED
  BY <1>1, <1>2

\* One layer more.
LEMMA WhereNext ==
  ASSUME NEW ls, NEW a, NEW k \in Nat, k >= 1
  PROVE  Where(ls, a, k + 1) = IF MovesOf(ls[k], a) # {} THEN Target(ls[k], a) ELSE Where(ls, a, k)
<1>1. CASE MovesOf(ls[k], a) # {}
  <2>1. k \in 1 .. (k + 1) - 1 /\ \A j \in 1 .. (k + 1) - 1 : j <= k
    OBVIOUS
  <2>. QED
    BY <1>1, <2>1, WhereIs
<1>2. CASE MovesOf(ls[k], a) = {} /\ \A i \in 1 .. k - 1 : MovesOf(ls[i], a) = {}
  <2>1. \A i \in 1 .. (k + 1) - 1 : MovesOf(ls[i], a) = {}
    BY <1>2
  <2>. QED
    BY <1>2, <2>1, WhereIs
<1>3. CASE MovesOf(ls[k], a) = {} /\ \E i \in 1 .. k - 1 : MovesOf(ls[i], a) # {}
  <2>1. PICK l \in 1 .. k - 1 : /\ MovesOf(ls[l], a) # {}
                                /\ \A j \in 1 .. k - 1 : MovesOf(ls[j], a) # {} => j <= l
    BY <1>3, LastMoveExists
  <2>2. Where(ls, a, k) = Target(ls[l], a)
    BY <2>1, WhereIs
  <2>3. l \in 1 .. (k + 1) - 1 /\ \A j \in 1 .. (k + 1) - 1 : MovesOf(ls[j], a) # {} => j <= l
    BY <1>3, <2>1
  <2>4. Where(ls, a, k + 1) = Target(ls[l], a)
    BY <2>1, <2>3, WhereIs
  <2>. QED
    BY <1>3, <2>2, <2>4
<1>. QED
  BY <1>1, <1>2, <1>3

\* Where a schedule leaves an atom, and what its operations find.
Ends(ls, a) == Where(ls, a, Len(ls) + 1)
Found(ls) ==
  \A k \in DOMAIN ls : \A x \in ls[k] : FindsItsAtoms(x, {Where(ls, a, k) : a \in x.atoms})

\* A layer more changes where the atoms it moves are, and nothing else.
LEMMA OneMore ==
  ASSUME NEW S, NEW ls \in Seq(S), NEW e
  PROVE  /\ \A a : Ends(Append(ls, e), a) = IF MovesOf(e, a) # {} THEN Target(e, a) ELSE Ends(ls, a)
         /\ Found(ls) /\ (\A x \in e : FindsItsAtoms(x, {Ends(ls, a) : a \in x.atoms}))
              => Found(Append(ls, e))
<1>1. PICK n \in Nat : Len(ls) = n /\ DOMAIN ls = 1 .. n
  OBVIOUS
<1>2. PICK ms : ms = Append(ls, e)
  OBVIOUS
<1>3. Len(ms) = n + 1 /\ DOMAIN ms = 1 .. n + 1 /\ ms[n + 1] = e /\ \A i \in 1 .. n : ms[i] = ls[i]
  <2>1. ls \in Seq(S \cup {e}) /\ e \in S \cup {e}
    BY SeqMonotonic
  <2>. QED
    BY <1>1, <1>2, <2>1
<1>4. ASSUME NEW k \in 1 .. n + 1, NEW a PROVE Where(ms, a, k) = Where(ls, a, k)
  <2>1. \A i \in 1 .. k - 1 : ms[i] = ls[i]
    BY <1>3
  <2>. QED
    BY <2>1, WhereOfPrefix
<1>5. ASSUME NEW a
      PROVE  Ends(ms, a) = IF MovesOf(e, a) # {} THEN Target(e, a) ELSE Ends(ls, a)
  <2>1. n + 1 \in Nat /\ n + 1 >= 1 /\ n + 1 \in 1 .. n + 1
    OBVIOUS
  <2>2. Where(ms, a, (n + 1) + 1)
          = IF MovesOf(ms[n + 1], a) # {} THEN Target(ms[n + 1], a) ELSE Where(ms, a, n + 1)
    BY <2>1, WhereNext
  <2>3. Where(ms, a, n + 1) = Where(ls, a, n + 1)
    BY <1>4, <2>1
  <2>. QED
    BY <1>1, <1>3, <2>2, <2>3 DEF Ends
<1>6. ASSUME Found(ls), \A x \in e : FindsItsAtoms(x, {Ends(ls, a) : a \in x.atoms})
      PROVE  Found(ms)
  <2>. SUFFICES ASSUME NEW k \in 1 .. n + 1, NEW x \in ms[k]
                PROVE  FindsItsAtoms(x, {Where(ms, a, k) : a \in x.atoms})
    BY <1>3 DEF Found
  <2>1. {Where(ms, a, k) : a \in x.atoms} = {Where(ls, a, k) : a \in x.atoms}
    BY <1>4
  <2>2. CASE k \in 1 .. n
    <3>1. x \in ls[k] /\ k \in DOMAIN ls
      BY <1>1, <1>3, <2>2
    <3>. QED
      BY <1>6, <2>1, <3>1 DEF Found
  <2>3. CASE k = n + 1
    <3>1. x \in e
      BY <1>3, <2>3
    <3>2. {Where(ls, a, k) : a \in x.atoms} = {Ends(ls, a) : a \in x.atoms}
      BY <1>1, <2>3 DEF Ends
    <3>. QED
      BY <1>6, <2>1, <3>1, <3>2
  <2>. QED
    BY <2>2, <2>3
<1>. QED
  BY <1>2, <1>5, <1>6

\* Compaction leaves each operation of an atom the moves that were before it.
UsesSorted ==
  \A a \in Atoms : \A i, j \in Users(input, a) :
    i < j => CycleOf(layers, i) < CycleOf(layers, j)

ActsOf(ls) == [k \in DOMAIN ls |-> ls[k].acts]

\* Before the layer that uses it, an atom has made the same moves.
LEMMA CompactedPlaces ==
  ASSUME NEW n \in Nat, Len(input) = n, DOMAIN input = 1 .. n,
         Sound(layers), UsesSorted, NEW a \in Atoms,
         NEW i \in 1 .. n + 1, NEW k \in Nat, k <= Len(layers) + 1,
         \A j \in Users(input, a) : j < i <=> VertexOf(layers, j) < k
  PROVE  Where(ActsOf(layers), a, k) = Where(input, a, i)
<1>1. PICK m \in Nat : Len(layers) = m /\ DOMAIN layers = 1 .. m
  BY DEF Sound
<1>2. PICK L : L = ActsOf(layers)
  OBVIOUS
<1>3. \A v \in 1 .. m : L[v] = layers[v].acts
  BY <1>1, <1>2 DEF ActsOf
<1>4. \A v \in 1 .. m : L[v] = UNION {input[j] : j \in layers[v].lineage}
  BY <1>1, <1>3 DEF Sound, Covered
<1>5. ASSUME NEW j \in 1 .. n, MovesOf(input[j], a) # {} PROVE j \in Users(input, a)
  BY <1>5 DEF MovesOf, Users, LayerAtoms
<1>6. ASSUME NEW j \in Users(input, a)
      PROVE  /\ VertexOf(layers, j) \in 1 .. m /\ j \in layers[VertexOf(layers, j)].lineage
             /\ CycleOf(layers, j) = VertexOf(layers, j) - 1 /\ j \in 1 .. n
  <2>1. j \in DOMAIN input
    BY DEF Users
  <2>. QED
    BY <1>1, <2>1, CycleIsPlace
<1>7. ASSUME NEW j \in Users(input, a), NEW l \in Users(input, a),
             VertexOf(layers, j) <= VertexOf(layers, l)
      PROVE  j <= l
  <2>1. l < j => CycleOf(layers, l) < CycleOf(layers, j)
    BY DEF UsesSorted
  <2>. QED
    BY <1>6, <1>7, <2>1
<1>8. ASSUME NEW v \in 1 .. m, NEW j \in layers[v].lineage, MovesOf(input[j], a) # {}
      PROVE  j \in Users(input, a) /\ VertexOf(layers, j) = v
  <2>1. layers[v] \in LayerSet
    BY <1>1 DEF Sound
  <2>2. j \in DOMAIN input
    BY <2>1 DEF LayerSet
  <2>3. VertexOf(layers, j) = v
    BY <1>1, <2>2, VertexIs DEF Sound
  <2>. QED
    BY <1>5, <1>8, <2>2, <2>3
<1>9. ASSUME NEW v \in 1 .. m, MovesOf(L[v], a) # {}
      PROVE  \E j \in Users(input, a) : VertexOf(layers, j) = v /\ MovesOf(input[j], a) # {}
  <2>1. PICK x \in L[v] : x.op = "move" /\ a \in x.atoms
    BY <1>9 DEF MovesOf
  <2>2. PICK j \in layers[v].lineage : x \in input[j]
    BY <1>4, <2>1
  <2>3. MovesOf(input[j], a) # {}
    BY <2>1, <2>2 DEF MovesOf
  <2>. QED
    BY <1>8, <2>3
<1>10. ASSUME NEW j \in Users(input, a), MovesOf(input[j], a) # {}
       PROVE  MovesOf(L[VertexOf(layers, j)], a) = MovesOf(input[j], a)
  <2>1. PICK v \in 1 .. m : v = VertexOf(layers, j) /\ j \in layers[v].lineage
    BY <1>6
  <2>2. ASSUME NEW x \in MovesOf(L[v], a) PROVE x \in MovesOf(input[j], a)
    <3>1. x \in L[v] /\ x.op = "move" /\ a \in x.atoms
      BY <2>2 DEF MovesOf
    <3>2. PICK l \in layers[v].lineage : x \in input[l]
      BY <1>4, <3>1
    <3>3. MovesOf(input[l], a) # {}
      BY <3>1, <3>2 DEF MovesOf
    <3>4. l \in Users(input, a) /\ VertexOf(layers, l) = v
      BY <1>8, <3>3
    <3>5. l = j
      <4>1. l <= j /\ j <= l
        BY <1>6, <1>7, <2>1, <3>4
      <4>2. l \in 1 .. n /\ j \in 1 .. n
        BY <1>6, <3>4
      <4>. QED
        BY <4>1, <4>2
    <3>. QED
      BY <3>1, <3>2, <3>5 DEF MovesOf
  <2>3. MovesOf(input[j], a) \subseteq MovesOf(L[v], a)
    <3>1. input[j] \subseteq L[v]
      BY <1>4, <2>1
    <3>. QED
      BY <3>1 DEF MovesOf
  <2>. QED
    BY <2>1, <2>2, <2>3
<1>11. CASE \A j \in 1 .. i - 1 : MovesOf(input[j], a) = {}
  <2>0. i \in Nat
    OBVIOUS
  <2>1. ASSUME NEW v \in 1 .. k - 1 PROVE MovesOf(L[v], a) = {}
    <3>. SUFFICES ASSUME MovesOf(L[v], a) # {} PROVE FALSE
      OBVIOUS
    <3>0. v \in 1 .. m
      BY <1>1
    <3>1. PICK j \in Users(input, a) : VertexOf(layers, j) = v /\ MovesOf(input[j], a) # {}
      BY <1>9, <3>0
    <3>2. j < i /\ j \in 1 .. n
      BY <1>6, <3>1
    <3>3. j \in 1 .. i - 1
      BY <3>2
    <3>. QED
      BY <1>11, <3>1, <3>3
  <2>2. Where(L, a, k) = Start[a]
    BY <2>1, WhereIs
  <2>3. Where(input, a, i) = Start[a]
    BY <1>11, <2>0, WhereIs
  <2>. QED
    BY <1>2, <2>2, <2>3
<1>12. CASE \E j \in 1 .. i - 1 : MovesOf(input[j], a) # {}
  <2>0. i \in Nat
    OBVIOUS
  <2>1. PICK j \in 1 .. i - 1 : /\ MovesOf(input[j], a) # {}
                                /\ \A l \in 1 .. i - 1 : MovesOf(input[l], a) # {} => l <= j
    BY <1>12, <2>0, LastMoveExists
  <2>2. j \in Users(input, a) /\ j < i
    BY <1>5, <2>1
  <2>3. PICK v \in 1 .. m : v = VertexOf(layers, j)
    BY <1>6, <2>2
  <2>4. v \in 1 .. k - 1
    BY <2>2, <2>3
  <2>5. MovesOf(L[v], a) = MovesOf(input[j], a)
    BY <1>10, <2>1, <2>2, <2>3
  <2>6. ASSUME NEW w \in 1 .. k - 1, MovesOf(L[w], a) # {} PROVE w <= v
    <3>1. w \in 1 .. m
      BY <1>1
    <3>2. PICK l \in Users(input, a) : VertexOf(layers, l) = w /\ MovesOf(input[l], a) # {}
      BY <1>9, <2>6, <3>1
    <3>3. l < i /\ l \in 1 .. n
      BY <1>6, <3>2
    <3>4. l <= j
      BY <2>1, <3>2, <3>3
    <3>5. l = j \/ l < j
      BY <3>3, <3>4
    <3>6. CASE l = j
      BY <2>3, <3>2, <3>6
    <3>7. CASE l < j
      <4>1. CycleOf(layers, l) < CycleOf(layers, j)
        BY <2>2, <3>2, <3>7 DEF UsesSorted
      <4>2. CycleOf(layers, l) = w - 1 /\ CycleOf(layers, j) = v - 1
        BY <1>6, <2>2, <2>3, <3>2
      <4>. QED
        BY <3>1, <4>1, <4>2
    <3>. QED
      BY <3>5, <3>6, <3>7
  <2>7. Where(L, a, k) = Target(L[v], a)
    BY <2>1, <2>4, <2>5, <2>6, WhereIs
  <2>8. Where(input, a, i) = Target(input[j], a)
    BY <2>0, <2>1, WhereIs
  <2>. QED
    BY <1>2, <2>5, <2>7, <2>8 DEF Target
<1>. QED
  BY <1>11, <1>12

\* And so the compacted schedule finds and leaves the atoms where the planned one did.
LEMMA CompactedFound ==
  ASSUME input \in Seq(SUBSET Action), Sound(layers), UsesSorted, Found(input)
  PROVE  /\ Found(ActsOf(layers))
         /\ \A a \in Atoms : Ends(ActsOf(layers), a) = Ends(input, a)
<1>1. PICK n \in Nat : Len(input) = n /\ DOMAIN input = 1 .. n
  OBVIOUS
<1>2. PICK m \in Nat : Len(layers) = m /\ DOMAIN layers = 1 .. m
  BY DEF Sound
<1>3. Len(ActsOf(layers)) = m /\ DOMAIN ActsOf(layers) = 1 .. m
  <2>1. ActsOf(layers) \in [1 .. m -> {layers[k].acts : k \in 1 .. m}]
    BY <1>2 DEF ActsOf
  <2>. QED
    BY <2>1, FunctionIsSeq
<1>4. ASSUME NEW a \in Atoms, NEW j \in Users(input, a)
      PROVE  /\ VertexOf(layers, j) \in 1 .. m /\ j \in 1 .. n
             /\ CycleOf(layers, j) = VertexOf(layers, j) - 1
  <2>1. j \in DOMAIN input
    BY DEF Users
  <2>. QED
    BY <1>1, <1>2, <2>1, CycleIsPlace
<1>5. ASSUME NEW a \in Atoms PROVE Ends(ActsOf(layers), a) = Ends(input, a)
  <2>1. \A j \in Users(input, a) : j < n + 1 <=> VertexOf(layers, j) < m + 1
    BY <1>4
  <2>2. Where(ActsOf(layers), a, m + 1) = Where(input, a, n + 1)
    BY <1>1, <1>2, <2>1, CompactedPlaces
  <2>. QED
    BY <1>1, <1>3, <2>2 DEF Ends
<1>6. ASSUME NEW k \in 1 .. m, NEW x \in layers[k].acts
      PROVE  FindsItsAtoms(x, {Where(ActsOf(layers), a, k) : a \in x.atoms})
  <2>1. PICK i \in layers[k].lineage : x \in input[i]
    BY <1>2 DEF Sound, Covered
  <2>2. i \in DOMAIN input
    <3>1. layers[k] \in LayerSet
      BY <1>2 DEF Sound
    <3>. QED
      BY <3>1 DEF LayerSet
  <2>3. VertexOf(layers, i) = k
    BY <1>2, <2>2, VertexIs DEF Sound
  <2>4. x \in Action
    BY <1>1, <2>1, <2>2
  <2>5. x.atoms \subseteq Atoms
    BY <2>4 DEF Action
  <2>6. ASSUME NEW a \in x.atoms PROVE Where(ActsOf(layers), a, k) = Where(input, a, i)
    <3>1. i \in Users(input, a) /\ a \in Atoms
      BY <2>1, <2>2, <2>5 DEF Users, LayerAtoms
    <3>2. ASSUME NEW j \in Users(input, a) PROVE j < i <=> VertexOf(layers, j) < k
      <4>1. j < i => CycleOf(layers, j) < CycleOf(layers, i)
        BY <3>1 DEF UsesSorted
      <4>2. i < j => CycleOf(layers, i) < CycleOf(layers, j)
        BY <3>1 DEF UsesSorted
      <4>3. /\ j \in 1 .. n /\ i \in 1 .. n /\ VertexOf(layers, j) \in 1 .. m
            /\ CycleOf(layers, j) = VertexOf(layers, j) - 1 /\ CycleOf(layers, i) = k - 1
        BY <1>4, <2>3, <3>1
      <4>4. i = j \/ i < j \/ j < i
        BY <4>3
      <4>5. i = j => VertexOf(layers, j) = k
        BY <2>3
      <4>. QED
        BY <4>1, <4>2, <4>3, <4>4, <4>5
    <3>3. i \in 1 .. n + 1 /\ k \in Nat /\ k <= Len(layers) + 1
      BY <1>1, <1>2, <2>2
    <3>. QED
      BY <1>1, <3>1, <3>2, <3>3, CompactedPlaces
  <2>7. {Where(ActsOf(layers), a, k) : a \in x.atoms} = {Where(input, a, i) : a \in x.atoms}
    BY <2>6
  <2>8. FindsItsAtoms(x, {Where(input, a, i) : a \in x.atoms})
    BY <2>1, <2>2 DEF Found
  <2>. QED
    BY <2>7, <2>8
<1>7. Found(ActsOf(layers))
  <2>1. \A k \in 1 .. m : ActsOf(layers)[k] = layers[k].acts
    BY <1>2 DEF ActsOf
  <2>. QED
    BY <1>3, <1>6, <2>1 DEF Found
<1>. QED
  BY <1>5, <1>7

--------------------------------------------------------------------------------
(* The inductive invariant of the planner.                                     *)

\* The planner's two maps agree.
LayoutOK ==
  /\ at \in [Atoms -> Sites] /\ holder \in [Sites -> Atoms \cup {None}]
  /\ \A a \in Atoms : holder[at[a]] = a
  /\ \A s \in Sites : holder[s] # None => at[holder[s]] = s

\* A move still to be carried ends where the layout has its atom; no atom has two.
Pending ==
  /\ DOMAIN moves \subseteq Nat
  /\ \A k \in DOMAIN moves : /\ moves[k].atom \in Atoms /\ moves[k].from \in Sites
                             /\ moves[k].to = at[moves[k].atom]
  /\ \A j, k \in DOMAIN moves : moves[j].atom = moves[k].atom => j = k
  /\ step # "moving" => DOMAIN moves = {}

\* The gates put off are gates of one layer.
PutOff ==
  /\ DOMAIN todo \subseteq Nat \ {0}
  /\ \A i \in DOMAIN todo : todo[i] \in Atoms \X Atoms /\ todo[i][1] # todo[i][2]
  /\ \A i, j \in DOMAIN todo : i # j => PairSites(todo[i]) \cap PairSites(todo[j]) = {}

ToBeRead ==
  /\ DOMAIN readouts \subseteq 1 .. 3 /\ (step = "readout" => DOMAIN readouts # {})
  /\ \A k \in DOMAIN readouts : readouts[k] \subseteq Readouts

\* When its atoms are in place a stage's operations find them.
Loads == {"load", "move", "store"}
Ready ==
  /\ last \subseteq Action /\ \A x \in last : x.op \notin Loads
  /\ step = "gates" => last \subseteq Operations
  /\ step = "moving" => \A x \in last : FindsItsAtoms(x, {at[a] : a \in x.atoms})

\* A schedule leaves each atom where its pending move starts, or where the layout has it.
Replayed(ls) ==
  /\ Found(ls)
  /\ \A k \in DOMAIN moves : Ends(ls, moves[k].atom) = moves[k].from
  /\ \A a \in Atoms : (\A k \in DOMAIN moves : moves[k].atom # a) => Ends(ls, a) = at[a]

Tracked ==
  /\ out \in Seq(SUBSET Action)
  /\ stage \in {"asap", "merge"} => step = "ready"
  /\ ~foreign /\ stage \in {"idle", "done"} => Replayed(Schedule)
  /\ ~foreign /\ stage \in {"asap", "merge"} =>
       out = <<>> /\ input \in Seq(SUBSET Action) /\ Replayed(input)

ZonedInv == LayoutOK /\ Pending /\ PutOff /\ ToBeRead /\ Ready /\ Tracked

\* Moves of different atoms to different sites, each free or left by its own move.
GoodMoves(ms) ==
  /\ \A k \in DOMAIN ms : /\ ms[k].atom \in Atoms /\ ms[k].to \in Sites
                          /\ ms[k].from = at[ms[k].atom]
                          /\ \/ holder[ms[k].to] = None
                             \/ \E j \in DOMAIN ms : ms[j].atom = holder[ms[k].to]
  /\ \A j, k \in DOMAIN ms : ms[j].atom = ms[k].atom \/ ms[j].to = ms[k].to => j = k

\* They leave the layout in order.
LEMMA GoodMovesKeep ==
  ASSUME LayoutOK, NEW ms, GoodMoves(ms), Displace(ms)
  PROVE  /\ LayoutOK'
         /\ \A k \in DOMAIN ms : at'[ms[k].atom] = ms[k].to
         /\ \A a \in Atoms : (\A k \in DOMAIN ms : ms[k].atom # a) => at'[a] = at[a]
<1>1. /\ at \in [Atoms -> Sites] /\ holder \in [Sites -> Atoms \cup {None}]
      /\ \A a \in Atoms : holder[at[a]] = a
      /\ \A s \in Sites : holder[s] # None => at[holder[s]] = s
  BY DEF LayoutOK
<1>2. \A k \in DOMAIN ms : /\ ms[k].atom \in Atoms /\ ms[k].to \in Sites
                           /\ ms[k].from = at[ms[k].atom]
  BY DEF GoodMoves
<1>3. \A j, k \in DOMAIN ms : ms[j].atom = ms[k].atom \/ ms[j].to = ms[k].to => j = k
  BY DEF GoodMoves
<1>4. None \notin Atoms
  BY ZonedAssumption
<1>5. /\ at' = [a \in Atoms |-> IF \E k \in DOMAIN ms : ms[k].atom = a
                               THEN ms[CHOOSE k \in DOMAIN ms : ms[k].atom = a].to ELSE at[a]]
      /\ holder' = [s \in Sites |->
                      IF \E k \in DOMAIN ms : ms[k].to = s
                      THEN ms[CHOOSE k \in DOMAIN ms : ms[k].to = s].atom
                      ELSE IF \E k \in DOMAIN ms : ms[k].from = s /\ ms[k].atom = holder[s]
                      THEN None ELSE holder[s]]
  BY DEF Displace, After, HolderAfter
<1>6. ASSUME NEW k \in DOMAIN ms
      PROVE  at'[ms[k].atom] = ms[k].to /\ holder'[ms[k].to] = ms[k].atom
  <2>1. (CHOOSE j \in DOMAIN ms : ms[j].atom = ms[k].atom) = k
    BY <1>3
  <2>2. (CHOOSE j \in DOMAIN ms : ms[j].to = ms[k].to) = k
    BY <1>3
  <2>. QED
    BY <1>2, <1>5, <2>1, <2>2
<1>7. ASSUME NEW a \in Atoms, \A k \in DOMAIN ms : ms[k].atom # a PROVE at'[a] = at[a]
  BY <1>5, <1>7
<1>8. ASSUME NEW s \in Sites, \A k \in DOMAIN ms : ms[k].to # s
      PROVE  holder'[s] = IF \E k \in DOMAIN ms : ms[k].from = s /\ ms[k].atom = holder[s]
                          THEN None ELSE holder[s]
  BY <1>5, <1>8
<1>9. at' \in [Atoms -> Sites]
  <2>1. \A a \in Atoms : at'[a] \in Sites
    BY <1>1, <1>2, <1>6, <1>7
  <2>. QED
    BY <1>5, <2>1
<1>10. holder' \in [Sites -> Atoms \cup {None}]
  <2>1. \A s \in Sites : holder'[s] \in Atoms \cup {None}
    BY <1>1, <1>2, <1>6, <1>8
  <2>. QED
    BY <1>5, <2>1
<1>11. ASSUME NEW a \in Atoms PROVE holder'[at'[a]] = a
  <2>1. CASE \E k \in DOMAIN ms : ms[k].atom = a
    BY <1>6, <2>1
  <2>2. CASE \A k \in DOMAIN ms : ms[k].atom # a
    <3>1. at'[a] = at[a] /\ at[a] \in Sites /\ holder[at[a]] = a /\ a # None
      BY <1>1, <1>4, <1>7, <2>2
    <3>2. \A k \in DOMAIN ms : ms[k].to # at[a]
      BY <2>2, <3>1 DEF GoodMoves
    <3>. QED
      BY <1>8, <2>2, <3>1, <3>2
  <2>. QED
    BY <2>1, <2>2
<1>12. ASSUME NEW s \in Sites, holder'[s] # None PROVE at'[holder'[s]] = s
  <2>1. CASE \E k \in DOMAIN ms : ms[k].to = s
    BY <1>6, <2>1
  <2>2. CASE \A k \in DOMAIN ms : ms[k].to # s
    <3>1. holder'[s] = holder[s] /\ ~\E k \in DOMAIN ms : ms[k].from = s /\ ms[k].atom = holder[s]
      BY <1>8, <1>12, <2>2
    <3>2. holder[s] \in Atoms /\ at[holder[s]] = s
      BY <1>1, <1>12, <3>1
    <3>3. \A k \in DOMAIN ms : ms[k].atom # holder[s]
      BY <1>2, <3>1, <3>2
    <3>. QED
      BY <1>7, <3>1, <3>2, <3>3
  <2>. QED
    BY <2>1, <2>2
<1>. QED
  BY <1>6, <1>7, <1>9, <1>10, <1>11, <1>12 DEF LayoutOK

\* Recomputed from where the atoms are, the occupancy is the same.
LEMMA FromLayoutOK ==
  ASSUME NEW where \in [Atoms -> Sites], \A a, b \in Atoms : where[a] = where[b] => a = b
  PROVE  /\ FromLayout(where) \in [Sites -> Atoms \cup {None}]
         /\ \A a \in Atoms : FromLayout(where)[where[a]] = a
         /\ \A s \in Sites : FromLayout(where)[s] # None => where[FromLayout(where)[s]] = s
<1>1. ASSUME NEW a \in Atoms PROVE FromLayout(where)[where[a]] = a
  <2>1. (CHOOSE b \in Atoms : where[b] = where[a]) = a
    OBVIOUS
  <2>. QED
    BY <2>1 DEF FromLayout
<1>2. ASSUME NEW s \in Sites
      PROVE  \/ FromLayout(where)[s] = None
             \/ FromLayout(where)[s] \in Atoms /\ where[FromLayout(where)[s]] = s
  BY DEF FromLayout
<1>3. FromLayout(where) = [s \in Sites |-> FromLayout(where)[s]]
  BY DEF FromLayout
<1>. QED
  BY <1>1, <1>2, <1>3

\* What is pending once the moves are decided.
LEMMA GoodMovesPend ==
  ASSUME LayoutOK, NEW ms, GoodMoves(ms), Displace(ms), step' = "moving", DOMAIN ms \subseteq Nat
  PROVE  Pending'
<1>1. \A k \in DOMAIN ms : /\ ms[k].atom \in Atoms /\ ms[k].from = at[ms[k].atom]
                           /\ ms[k].from \in Sites /\ ms[k].to = at'[ms[k].atom]
  BY GoodMovesKeep DEF GoodMoves, LayoutOK
<1>2. moves' = ms
  BY DEF Displace
<1>3. \A j, k \in DOMAIN ms : ms[j].atom = ms[k].atom => j = k
  BY DEF GoodMoves
<1>. QED
  BY <1>1, <1>2, <1>3 DEF Pending

\* A schedule that left the atoms in place leaves them where their moves start.
LEMMA GoodMovesReplayed ==
  ASSUME LayoutOK, NEW ms, GoodMoves(ms), Displace(ms), DOMAIN moves = {},
         NEW ls, Replayed(ls)
  PROVE  Replayed(ls)'
<1>1. moves' = ms
  BY DEF Displace
<1>2. \A a \in Atoms : Ends(ls, a) = at[a]
  BY DEF Replayed
<1>. QED
  BY <1>1, <1>2, GoodMovesKeep DEF Replayed, GoodMoves

--------------------------------------------------------------------------------
(* The moves of a stage.                                                       *)

\* What an assignment is.
LEMMA AssignmentIs ==
  ASSUME PutOff, NEW f \in Assignments
  PROVE  /\ DOMAIN f # {} /\ DOMAIN f \subseteq DOMAIN todo /\ DOMAIN f \subseteq Nat \ {0}
         /\ \A i \in DOMAIN f : /\ f[i] \in Sites \X Sites /\ f[i][1] # f[i][2]
                                /\ \E p \in Pairs : PairSites(f[i]) = PairSites(p)
         /\ Legal(f)
<1>1. PICK S \in (SUBSET DOMAIN todo) \ {{}} : f \in [S -> Pairs \cup Reversed]
  BY DEF Assignments
<1>2. Legal(f)
  BY DEF Assignments
<1>3. DOMAIN f = S /\ S # {} /\ S \subseteq DOMAIN todo
  BY <1>1
<1>4. ASSUME NEW i \in S
      PROVE  /\ f[i] \in Sites \X Sites /\ f[i][1] # f[i][2]
             /\ \E p \in Pairs : PairSites(f[i]) = PairSites(p)
  <2>0. Pairs \subseteq Sites \X Sites /\ \A p \in Pairs : p[1] # p[2]
    BY ZonedAssumption
  <2>1. CASE f[i] \in Pairs
    BY <2>0, <2>1
  <2>2. CASE f[i] \in Reversed
    <3>1. PICK p \in Pairs : f[i] = <<p[2], p[1]>>
      BY <2>2 DEF Reversed
    <3>2. p[1] \in Sites /\ p[2] \in Sites /\ p[1] # p[2]
      BY <2>0
    <3>3. f[i][1] = p[2] /\ f[i][2] = p[1]
      BY <3>1
    <3>4. PairSites(f[i]) = PairSites(p)
      BY <3>3 DEF PairSites
    <3>. QED
      BY <3>1, <3>2, <3>3, <3>4
  <2>. QED
    BY <1>1, <2>1, <2>2
<1>5. DOMAIN f \subseteq Nat \ {0}
  BY <1>3 DEF PutOff
<1>. QED
  BY <1>2, <1>3, <1>4, <1>5

\* The gates of a stage share neither atoms nor sites.
LEMMA SlotsApart ==
  ASSUME PutOff, NEW f \in Assignments
  PROVE  \A i, l \in DOMAIN f : \A j, m \in {1, 2} :
           /\ todo[i][j] = todo[l][m] => i = l /\ j = m
           /\ f[i][j] = f[l][m] => i = l /\ j = m
<1>. SUFFICES ASSUME NEW i \in DOMAIN f, NEW l \in DOMAIN f, NEW j \in {1, 2}, NEW m \in {1, 2}
              PROVE  /\ todo[i][j] = todo[l][m] => i = l /\ j = m
                     /\ f[i][j] = f[l][m] => i = l /\ j = m
  OBVIOUS
<1>1. i \in DOMAIN todo /\ l \in DOMAIN todo /\ f[i] \in Sites \X Sites /\ f[i][1] # f[i][2]
  BY AssignmentIs
<1>2. todo[i][1] # todo[i][2]
  BY <1>1 DEF PutOff
<1>3. CASE i = l
  BY <1>1, <1>2, <1>3
<1>4. CASE i # l
  <2>1. PairSites(todo[i]) \cap PairSites(todo[l]) = {}
    BY <1>1, <1>4 DEF PutOff
  <2>2. todo[i][j] \in PairSites(todo[i]) /\ todo[l][m] \in PairSites(todo[l])
    BY DEF PairSites
  <2>3. f[i][j] \in PairSites(f[i]) /\ f[l][m] \in PairSites(f[l])
    BY DEF PairSites
  <2>4. ~PairsConflict(f[i], f[l])
    BY <1>4, AssignmentIs DEF Legal
  <2>5. f[i][j] # f[l][m]
    <3>1. {f[i][j], f[l][m]} \notin Close
      BY <2>3, <2>4 DEF PairsConflict
    <3>2. f[i][j] \in Sites
      BY <1>1
    <3>3. {f[i][j]} \in Close
      BY <3>2, CompactionAssumption
    <3>4. f[i][j] = f[l][m] => {f[i][j], f[l][m]} = {f[i][j]}
      OBVIOUS
    <3>. QED
      BY <3>1, <3>3, <3>4
  <2>. QED
    BY <2>1, <2>2, <2>5
<1>. QED
  BY <1>3, <1>4

\* The move of an atom of a gate has a number of its own.
Slot(i, j) == 2 * i - 2 + j

\* An atom that is not on its site has a move there, and no other has one.
LEMMA MovesForIs ==
  ASSUME NEW f, DOMAIN f \subseteq Nat \ {0}
  PROVE  /\ \A i \in DOMAIN f : \A j \in {1, 2} :
              /\ Slot(i, j) \in DOMAIN MovesFor(f) <=> at[todo[i][j]] # f[i][j]
              /\ Slot(i, j) \in DOMAIN MovesFor(f) =>
                   MovesFor(f)[Slot(i, j)] = Displacement(todo[i][j], f[i][j])
         /\ \A k \in DOMAIN MovesFor(f) :
              \E i \in DOMAIN f : \E j \in {1, 2} : k = Slot(i, j)
<1>. DEFINE row(k) == (k + 1) \div 2
            side(k) == 2 - (k % 2)
            move(k) == Displacement(todo[row(k)][side(k)], f[row(k)][side(k)])
            slots == UNION {{2 * i - 1, 2 * i} : i \in DOMAIN f}
            shown == {n \in slots : Displaced(move(n))}
<1>1. MovesFor(f) = [k \in shown |-> move(k)]
  BY DEF MovesFor
<1>2. ASSUME NEW i \in DOMAIN f, NEW j \in {1, 2}
      PROVE  row(Slot(i, j)) = i /\ side(Slot(i, j)) = j /\ Slot(i, j) \in slots
  <2>1. i \in Nat \ {0}
    OBVIOUS
  <2>2. CASE j = 1
    <3>1. Slot(i, j) = 2 * i - 1
      BY <2>1, <2>2 DEF Slot
    <3>2. (2 * i - 1 + 1) \div 2 = i /\ 2 - ((2 * i - 1) % 2) = 1
      BY <2>1
    <3>. QED
      BY <2>2, <3>1, <3>2
  <2>3. CASE j = 2
    <3>1. Slot(i, j) = 2 * i
      BY <2>1, <2>3 DEF Slot
    <3>2. (2 * i + 1) \div 2 = i /\ 2 - ((2 * i) % 2) = 2
      BY <2>1
    <3>. QED
      BY <2>3, <3>1, <3>2
  <2>. QED
    BY <2>2, <2>3
<1>3. ASSUME NEW k \in slots PROVE \E i \in DOMAIN f : \E j \in {1, 2} : k = Slot(i, j)
  <2>1. PICK i \in DOMAIN f : k = 2 * i - 1 \/ k = 2 * i
    BY <1>3
  <2>2. Slot(i, 1) = 2 * i - 1 /\ Slot(i, 2) = 2 * i
    BY DEF Slot
  <2>. QED
    BY <2>1, <2>2
<1>. HIDE DEF row, side, slots
<1>4. ASSUME NEW i \in DOMAIN f, NEW j \in {1, 2}
      PROVE  /\ Slot(i, j) \in DOMAIN MovesFor(f) <=> at[todo[i][j]] # f[i][j]
             /\ Slot(i, j) \in DOMAIN MovesFor(f) =>
                  MovesFor(f)[Slot(i, j)] = Displacement(todo[i][j], f[i][j])
  <2>1. move(Slot(i, j)) = Displacement(todo[i][j], f[i][j]) /\ Slot(i, j) \in slots
    BY <1>2
  <2>2. Displaced(Displacement(todo[i][j], f[i][j])) <=> at[todo[i][j]] # f[i][j]
    BY DEF Displaced, Displacement
  <2>3. Slot(i, j) \in shown <=> at[todo[i][j]] # f[i][j]
    BY <2>1, <2>2
  <2>. HIDE DEF shown, move
  <2>. QED
    BY <1>1, <2>1, <2>3
<1>5. \A k \in DOMAIN MovesFor(f) : k \in slots
  BY <1>1
<1>. QED
  BY <1>3, <1>4, <1>5

\* The gates' moves are good, and bring the two atoms of each gate to its pair.
LEMMA GateMoves ==
  ASSUME LayoutOK, PutOff, NEW f \in Assignments
  PROVE  /\ GoodMoves(MovesFor(f)) /\ DOMAIN MovesFor(f) \subseteq Nat
         /\ \A i \in DOMAIN f : \A j \in {1, 2} :
              \/ \E k \in DOMAIN MovesFor(f) : MovesFor(f)[k].atom = todo[i][j]
                                               /\ MovesFor(f)[k].to = f[i][j]
              \/ /\ at[todo[i][j]] = f[i][j]
                 /\ \A k \in DOMAIN MovesFor(f) : MovesFor(f)[k].atom # todo[i][j]
<1>1. PICK ms : ms = MovesFor(f)
  OBVIOUS
<1>2. DOMAIN f \subseteq Nat \ {0} /\ DOMAIN f \subseteq DOMAIN todo
  BY AssignmentIs
<1>3. ASSUME NEW i \in DOMAIN f, NEW j \in {1, 2}
      PROVE  /\ Slot(i, j) \in DOMAIN ms <=> at[todo[i][j]] # f[i][j]
             /\ Slot(i, j) \in DOMAIN ms =>
                  /\ ms[Slot(i, j)].atom = todo[i][j] /\ ms[Slot(i, j)].to = f[i][j]
                  /\ ms[Slot(i, j)].from = at[todo[i][j]]
  <2>1. /\ Slot(i, j) \in DOMAIN ms <=> at[todo[i][j]] # f[i][j]
        /\ Slot(i, j) \in DOMAIN ms => ms[Slot(i, j)] = Displacement(todo[i][j], f[i][j])
    BY <1>1, <1>2, MovesForIs
  <2>. QED
    BY <2>1 DEF Displacement
<1>4. \A k \in DOMAIN ms : \E i \in DOMAIN f : \E j \in {1, 2} : k = Slot(i, j)
  BY <1>1, <1>2, MovesForIs
<1>5. ASSUME NEW i \in DOMAIN f, NEW j \in {1, 2}
      PROVE  todo[i][j] \in Atoms /\ f[i][j] \in Sites
  <2>1. todo[i] \in Atoms \X Atoms
    BY <1>2 DEF PutOff
  <2>2. f[i] \in Sites \X Sites
    BY AssignmentIs
  <2>. QED
    BY <2>1, <2>2
<1>6. ASSUME NEW k \in DOMAIN ms
      PROVE  \/ holder[ms[k].to] = None
             \/ \E l \in DOMAIN ms : ms[l].atom = holder[ms[k].to]
  <2>1. PICK i \in DOMAIN f, j \in {1, 2} : k = Slot(i, j)
    BY <1>4
  <2>2. ms[k].to = f[i][j] /\ at[todo[i][j]] # f[i][j]
    BY <1>3, <2>1
  <2>3. holder[f[i][j]] \in {None, todo[i][1], todo[i][2]}
    <3>1. PairOccupancyOk(f[i], todo[i])
      BY AssignmentIs DEF Legal
    <3>2. f[i][j] \in PairSites(f[i])
      BY DEF PairSites
    <3>. QED
      BY <3>1, <3>2 DEF PairOccupancyOk
  <2>4. CASE holder[f[i][j]] = None
    BY <2>2, <2>4
  <2>5. CASE holder[f[i][j]] # None
    <3>1. PICK m \in {1, 2} : holder[f[i][j]] = todo[i][m]
      BY <2>3, <2>5
    <3>2. at[todo[i][m]] = f[i][j]
      BY <1>5, <2>5, <3>1 DEF LayoutOK
    <3>3. m # j
      BY <2>2, <3>2
    <3>4. at[todo[i][m]] # f[i][m]
      BY <3>2, <3>3, SlotsApart
    <3>. QED
      BY <1>3, <2>2, <3>1, <3>4
  <2>. QED
    BY <2>4, <2>5
<1>7. ASSUME NEW k \in DOMAIN ms, NEW l \in DOMAIN ms,
             ms[k].atom = ms[l].atom \/ ms[k].to = ms[l].to
      PROVE  k = l
  <2>1. PICK i \in DOMAIN f, j \in {1, 2} : k = Slot(i, j)
    BY <1>4
  <2>2. PICK g \in DOMAIN f, m \in {1, 2} : l = Slot(g, m)
    BY <1>4
  <2>3. todo[i][j] = todo[g][m] \/ f[i][j] = f[g][m]
    BY <1>3, <1>7, <2>1, <2>2
  <2>4. i = g /\ j = m
    BY <2>3, SlotsApart
  <2>. QED
    BY <2>1, <2>2, <2>4
<1>8. ASSUME NEW k \in DOMAIN ms
      PROVE  ms[k].atom \in Atoms /\ ms[k].to \in Sites /\ ms[k].from = at[ms[k].atom] /\ k \in Nat
  <2>1. PICK i \in DOMAIN f, j \in {1, 2} : k = Slot(i, j)
    BY <1>4
  <2>2. Slot(i, j) \in Nat
    BY <1>2 DEF Slot
  <2>. QED
    BY <1>3, <1>5, <2>1, <2>2
<1>9. ASSUME NEW i \in DOMAIN f, NEW j \in {1, 2}
      PROVE  \/ \E k \in DOMAIN ms : ms[k].atom = todo[i][j] /\ ms[k].to = f[i][j]
             \/ /\ at[todo[i][j]] = f[i][j]
                /\ \A k \in DOMAIN ms : ms[k].atom # todo[i][j]
  <2>1. CASE at[todo[i][j]] # f[i][j]
    BY <1>3, <2>1
  <2>2. CASE at[todo[i][j]] = f[i][j]
    <3>1. ASSUME NEW k \in DOMAIN ms, ms[k].atom = todo[i][j] PROVE FALSE
      <4>1. PICK l \in DOMAIN f, m \in {1, 2} : k = Slot(l, m)
        BY <1>4
      <4>2. ms[k].atom = todo[l][m]
        BY <1>3, <4>1
      <4>3. l = i /\ m = j
        <5>1. todo[l][m] = todo[i][j]
          BY <3>1, <4>2
        <5>. QED
          BY <5>1, SlotsApart
      <4>. QED
        BY <1>3, <2>2, <4>1, <4>3
    <3>. QED
      BY <2>2, <3>1
  <2>. QED
    BY <2>1, <2>2
<1>. QED
  BY <1>1, <1>6, <1>7, <1>8, <1>9 DEF GoodMoves

\* The operations of a kind that are next to be read out.
LEMMA ToReadIs ==
  ASSUME ToBeRead, step = "readout"
  PROVE  NextKind \in DOMAIN readouts /\ ToRead \subseteq Readouts /\ LayerAtoms(ToRead) \subseteq Atoms
<1>1. DOMAIN readouts \in SUBSET Nat /\ DOMAIN readouts # {}
  BY DEF ToBeRead
<1>2. \E k \in DOMAIN readouts : \A l \in DOMAIN readouts : k <= l
  BY <1>1, LeastElement
<1>3. NextKind \in DOMAIN readouts
  BY <1>2 DEF NextKind
<1>4. ToRead \subseteq Readouts
  BY <1>3 DEF ToBeRead, ToRead
<1>5. LayerAtoms(ToRead) \subseteq Atoms
  BY <1>4 DEF LayerAtoms, Readouts, Action
<1>. QED
  BY <1>3, <1>4, <1>5

MovesToReadout(site) == [a \in Movers |-> Displacement(a, site[a])]

\* Their moves are good, and bring them to the readout zone.
LEMMA ReadoutMoves ==
  ASSUME LayoutOK, ToBeRead, step = "readout",
         NEW site \in [Movers -> FreeReadout], ReadoutSitesFor(site)
  PROVE  /\ GoodMoves(MovesToReadout(site)) /\ DOMAIN MovesToReadout(site) \subseteq Nat
         /\ \A a \in LayerAtoms(ToRead) :
              \/ \E k \in DOMAIN MovesToReadout(site) :
                   MovesToReadout(site)[k].atom = a /\ MovesToReadout(site)[k].to \in ReadoutSites
              \/ /\ at[a] \in ReadoutSites
                 /\ \A k \in DOMAIN MovesToReadout(site) : MovesToReadout(site)[k].atom # a
<1>1. PICK ms : ms = MovesToReadout(site)
  OBVIOUS
<1>2. Movers \subseteq Atoms /\ Atoms \subseteq Nat /\ ReadoutSites \subseteq Sites
  BY ToReadIs, ZonedAssumption DEF Movers
<1>3. /\ DOMAIN ms = Movers
      /\ \A a \in Movers : ms[a].atom = a /\ ms[a].to = site[a] /\ ms[a].from = at[a]
  BY <1>1 DEF MovesToReadout, Displacement
<1>4. \A a \in Movers : site[a] \in ReadoutSites /\ holder[site[a]] = None
  BY DEF FreeReadout
<1>5. ASSUME NEW a \in Movers, NEW b \in Movers, b < a PROVE site[a] # site[b]
  <2>1. site[a] \notin {site[c] : c \in {d \in Movers : d < a}}
    BY DEF ReadoutSitesFor
  <2>. QED
    BY <1>5, <2>1
<1>6. ASSUME NEW a \in Movers, NEW b \in Movers, site[a] = site[b] PROVE a = b
  <2>1. a \in Nat /\ b \in Nat
    BY <1>2
  <2>2. ~(a < b) /\ ~(b < a)
    BY <1>5, <1>6
  <2>. QED
    BY <2>1, <2>2
<1>7. GoodMoves(ms)
  <2>1. \A j, k \in DOMAIN ms : ms[j].atom = ms[k].atom \/ ms[j].to = ms[k].to => j = k
    BY <1>3, <1>6
  <2>2. ASSUME NEW a \in Movers
        PROVE  /\ ms[a].atom \in Atoms /\ ms[a].to \in Sites
               /\ ms[a].from = at[ms[a].atom] /\ holder[ms[a].to] = None
    <3>1. ms[a].atom = a /\ ms[a].to = site[a] /\ ms[a].from = at[a]
      BY <1>3
    <3>2. a \in Atoms /\ site[a] \in Sites /\ holder[site[a]] = None
      BY <1>2, <1>4
    <3>. QED
      BY <3>1, <3>2
  <2>. QED
    BY <1>3, <2>1, <2>2 DEF GoodMoves
<1>8. ASSUME NEW a \in LayerAtoms(ToRead)
      PROVE  \/ \E k \in DOMAIN ms : ms[k].atom = a /\ ms[k].to \in ReadoutSites
             \/ at[a] \in ReadoutSites /\ \A k \in DOMAIN ms : ms[k].atom # a
  <2>1. CASE a \in Movers
    BY <1>3, <1>4, <2>1
  <2>2. CASE a \notin Movers
    <3>1. at[a] \in ReadoutSites
      BY <2>2 DEF Movers
    <3>. QED
      BY <1>3, <2>2, <3>1
  <2>. QED
    BY <2>1, <2>2
<1>. QED
  BY <1>1, <1>2, <1>3, <1>7, <1>8

--------------------------------------------------------------------------------
(* The schedule grows.                                                         *)

\* Appending behind a concatenation.
LEMMA ConcatOneMore ==
  ASSUME NEW S, NEW s \in Seq(S), NEW t \in Seq(S), NEW e \in S
  PROVE  s \o Append(t, e) = Append(s \o t, e)
<1>1. <<e>> \in Seq(S) /\ s \o t \in Seq(S)
  BY ConcatProperties
<1>2. Append(t, e) = t \o <<e>> /\ Append(s \o t, e) = (s \o t) \o <<e>>
  BY <1>1, AppendIsConcat
<1>. QED
  BY <1>1, <1>2, ConcatAssociative

\* What the schedule is.
LEMMA ScheduleIs ==
  /\ stage = "idle" => Schedule = out
  /\ stage = "asap" => Schedule = input
  /\ stage \in {"merge", "done"} => Schedule = ActsOf(layers) \o out
BY DEF Schedule, ActsOf

\* What compaction has made of a planned schedule.
LEMMA CompactedIsSound ==
  ASSUME PlanInv, Compacting, ~foreign
  PROVE  Sound(layers) /\ UsesSorted /\ \E S : ActsOf(layers) \in Seq(S)
<1>1. Forward
  BY OwnForward DEF OwnDependenciesForward, Compacting, Submitted
<1>2. Sound(layers)
  BY <1>1 DEF PlanInv, CompactionInv
<1>3. UsesSorted
  BY <1>1, HazardsSuffice DEF UsesStayInOrder, UsesSorted
<1>4. PICK m \in Nat : DOMAIN layers = 1 .. m
  BY <1>2 DEF Sound
<1>5. ActsOf(layers) \in [1 .. m -> {layers[k].acts : k \in 1 .. m}]
  BY <1>4 DEF ActsOf
<1>6. ActsOf(layers) \in Seq({layers[k].acts : k \in 1 .. m})
  BY <1>5, FunctionIsSeq
<1>. QED
  BY <1>2, <1>3, <1>6

\* Planning goes on behind what was compacted.
LEMMA ScheduleGrows ==
  ASSUME PlanInv, Tracked, ~foreign, stage \in {"idle", "done"}, UNCHANGED cvars
  PROVE  /\ \E S : Schedule \in Seq(S)
         /\ out' = out => Schedule' = Schedule
         /\ \A e : out' = Append(out, e) => Schedule' = Append(Schedule, e)
         /\ \A x, y, z : out' = out \o <<x, y, z>> =>
              Schedule' = Append(Append(Append(Schedule, x), y), z)
<1>1. out \in Seq(SUBSET Action)
  BY DEF Tracked
<1>2. CASE stage = "idle"
  <2>1. Schedule = out
    BY <1>2, ScheduleIs
  <2>2. Schedule' = out'
    BY <1>2 DEF Schedule, cvars
  <2>3. ASSUME NEW x, NEW y, NEW z
        PROVE  out \o <<x, y, z>> = Append(Append(Append(out, x), y), z)
    <3>. DEFINE U == (SUBSET Action) \cup {x, y, z}
    <3>1. out \in Seq(U) /\ x \in U /\ y \in U /\ z \in U
      BY <1>1, SeqMonotonic
    <3>. HIDE DEF U
    <3>. QED
      BY <3>1
  <2>. QED
    BY <1>1, <2>1, <2>2, <2>3
<1>3. CASE stage = "done"
  <2>1. PICK s, S : s = ActsOf(layers) /\ s \in Seq(S)
    BY <1>3, CompactedIsSound DEF Compacting
  <2>2. Schedule = s \o out
    BY <1>3, <2>1, ScheduleIs
  <2>3. Schedule' = s \o out'
    BY <1>3, <2>1 DEF Schedule, ActsOf, cvars
  <2>4. s \in Seq(S \cup (SUBSET Action)) /\ out \in Seq(S \cup (SUBSET Action))
    BY <1>1, <2>1, SeqMonotonic
  <2>5. ASSUME NEW e PROVE s \o Append(out, e) = Append(s \o out, e)
    <3>1. s \in Seq(S \cup (SUBSET Action) \cup {e}) /\ out \in Seq(S \cup (SUBSET Action) \cup {e})
      BY <2>4, SeqMonotonic
    <3>. QED
      BY <3>1, ConcatOneMore
  <2>6. ASSUME NEW x, NEW y, NEW z
        PROVE  s \o (out \o <<x, y, z>>) = Append(Append(Append(s \o out, x), y), z)
    <3>. DEFINE U == S \cup (SUBSET Action) \cup {x, y, z}
    <3>1. s \in Seq(U) /\ out \in Seq(U) /\ x \in U /\ y \in U /\ z \in U
      BY <2>4, SeqMonotonic
    <3>. HIDE DEF U
    <3>2. out \o <<x, y, z>> = Append(Append(Append(out, x), y), z)
      BY <3>1
    <3>3. Append(out, x) \in Seq(U) /\ Append(Append(out, x), y) \in Seq(U)
      BY <3>1
    <3>4. s \o Append(out, x) = Append(s \o out, x)
      BY <3>1, ConcatOneMore
    <3>5. s \o Append(Append(out, x), y) = Append(s \o Append(out, x), y)
      BY <3>1, <3>3, ConcatOneMore
    <3>6. s \o Append(Append(Append(out, x), y), z) = Append(s \o Append(Append(out, x), y), z)
      BY <3>1, <3>3, ConcatOneMore
    <3>. QED
      BY <3>2, <3>4, <3>5, <3>6
  <2>7. s \o out \in Seq(S \cup (SUBSET Action))
    BY <2>4, ConcatProperties
  <2>8. out' = out => Schedule' = Schedule
    BY <2>2, <2>3
  <2>9. \A e : out' = Append(out, e) => Schedule' = Append(Schedule, e)
    BY <2>2, <2>3, <2>5
  <2>10. ASSUME NEW x, NEW y, NEW z, out' = out \o <<x, y, z>>
         PROVE  Schedule' = Append(Append(Append(Schedule, x), y), z)
    <3>1. Schedule' = s \o (out \o <<x, y, z>>)
      BY <2>3, <2>10
    <3>2. s \o (out \o <<x, y, z>>) = Append(Append(Append(s \o out, x), y), z)
      BY <2>6
    <3>. QED
      BY <2>2, <3>1, <3>2
  <2>. QED
    BY <2>2, <2>7, <2>8, <2>9, <2>10
<1>. QED
  BY <1>2, <1>3

\* A layer without a move leaves the atoms where they are.
Still(ls, e) == \A x \in e : x.op # "move" /\ FindsItsAtoms(x, {Ends(ls, a) : a \in x.atoms})
Undisturbed(ls, ms) == Found(ms) /\ \A a : Ends(ms, a) = Ends(ls, a)

LEMMA EmitStill ==
  ASSUME NEW S, NEW ls \in Seq(S), Found(ls), NEW e, Still(ls, e)
  PROVE  Append(ls, e) \in Seq(S \cup {e}) /\ Undisturbed(ls, Append(ls, e))
<1>1. \A a : MovesOf(e, a) = {}
  BY DEF MovesOf, Still
<1>2. Append(ls, e) \in Seq(S \cup {e})
  <2>1. ls \in Seq(S \cup {e}) /\ e \in S \cup {e}
    BY SeqMonotonic
  <2>. QED
    BY <2>1
<1>3. Found(Append(ls, e))
  BY OneMore DEF Still
<1>4. \A a : Ends(Append(ls, e), a) = IF MovesOf(e, a) # {} THEN Target(e, a) ELSE Ends(ls, a)
  BY OneMore
<1>. QED
  BY <1>1, <1>2, <1>3, <1>4 DEF Undisturbed

\* The three layers of a group of moves.
Loaded(joined) == {ActAt("load", m.atom, m.from) : m \in {moves[k] : k \in joined}}
Moved(joined) == {ActAt("move", m.atom, m.to) : m \in {moves[k] : k \in joined}}
Stored(joined) == {ActAt("store", m.atom, m.to) : m \in {moves[k] : k \in joined}}
Carried(ls, joined) == Append(Append(Append(ls, Loaded(joined)), Moved(joined)), Stored(joined))

\* They find the atoms where the schedule left them and leave them where the layout has them.
LEMMA CarriedFound ==
  ASSUME Pending, NEW S, NEW ls \in Seq(S), Replayed(ls), NEW joined \in SUBSET DOMAIN moves
  PROVE  /\ Found(Carried(ls, joined))
         /\ \A k \in joined : Ends(Carried(ls, joined), moves[k].atom) = moves[k].to
         /\ \A a : (\A k \in joined : moves[k].atom # a) => Ends(Carried(ls, joined), a) = Ends(ls, a)
<1>1. \A j, k \in joined : moves[j].atom = moves[k].atom => j = k
  BY DEF Pending
<1>2. Found(ls) /\ \A k \in joined : Ends(ls, moves[k].atom) = moves[k].from
  BY DEF Replayed
<1>3. PICK l1 : l1 = Append(ls, Loaded(joined))
  OBVIOUS
<1>4. l1 \in Seq(S \cup {Loaded(joined)}) /\ Found(l1) /\ \A a : Ends(l1, a) = Ends(ls, a)
  <2>1. ASSUME NEW x \in Loaded(joined)
        PROVE  x.op # "move" /\ FindsItsAtoms(x, {Ends(ls, a) : a \in x.atoms})
    <3>1. PICK k \in joined : x = ActAt("load", moves[k].atom, moves[k].from)
      BY DEF Loaded
    <3>2. x.op = "load" /\ x.atoms = {moves[k].atom} /\ x.to = moves[k].from
      BY <3>1 DEF ActAt
    <3>3. {Ends(ls, a) : a \in x.atoms} = {x.to}
      BY <1>2, <3>2
    <3>. QED
      BY <3>2, <3>3 DEF FindsItsAtoms
  <2>2. Still(ls, Loaded(joined))
    BY <2>1 DEF Still
  <2>. QED
    BY <1>2, <1>3, <2>2, EmitStill DEF Undisturbed
<1>5. PICK l2, T : l2 = Append(l1, Moved(joined)) /\ T = S \cup {Loaded(joined)} \cup {Moved(joined)}
  OBVIOUS
<1>6. l2 \in Seq(T) /\ Found(l2)
  <2>1. l2 \in Seq(T)
    <3>1. l1 \in Seq(T) /\ Moved(joined) \in T
      BY <1>4, <1>5, SeqMonotonic
    <3>. QED
      BY <1>5, <3>1
  <2>2. ASSUME NEW x \in Moved(joined)
        PROVE  FindsItsAtoms(x, {Ends(l1, a) : a \in x.atoms})
    <3>1. x.op = "move"
      BY DEF Moved, ActAt
    <3>. QED
      BY <3>1 DEF FindsItsAtoms
  <2>3. Found(Append(l1, Moved(joined)))
    BY <1>4, <2>2, OneMore
  <2>. QED
    BY <1>5, <2>1, <2>3
<1>7. \A a : Ends(l2, a) = IF MovesOf(Moved(joined), a) # {} THEN Target(Moved(joined), a) ELSE Ends(l1, a)
  BY <1>4, <1>5, OneMore
<1>8. ASSUME NEW k \in joined PROVE Ends(l2, moves[k].atom) = moves[k].to
  <2>1. MovesOf(Moved(joined), moves[k].atom) = {ActAt("move", moves[k].atom, moves[k].to)}
    <3>1. ActAt("move", moves[k].atom, moves[k].to) \in Moved(joined)
      BY DEF Moved
    <3>2. ASSUME NEW x \in Moved(joined), moves[k].atom \in x.atoms
          PROVE  x = ActAt("move", moves[k].atom, moves[k].to)
      <4>1. PICK j \in joined : x = ActAt("move", moves[j].atom, moves[j].to)
        BY DEF Moved
      <4>2. moves[j].atom = moves[k].atom
        BY <3>2, <4>1 DEF ActAt
      <4>3. j = k
        BY <1>1, <4>2
      <4>. QED
        BY <4>1, <4>3
    <3>3. \A s : ActAt("move", moves[k].atom, s).op = "move" /\ moves[k].atom \in ActAt("move", moves[k].atom, s).atoms
      BY DEF ActAt
    <3>. QED
      BY <3>1, <3>2, <3>3 DEF MovesOf
  <2>2. Target(Moved(joined), moves[k].atom) = moves[k].to
    <3>1. (CHOOSE x \in {ActAt("move", moves[k].atom, moves[k].to)} : TRUE)
            = ActAt("move", moves[k].atom, moves[k].to)
      OBVIOUS
    <3>2. ActAt("move", moves[k].atom, moves[k].to).to = moves[k].to
      BY DEF ActAt
    <3>. QED
      BY <2>1, <3>1, <3>2 DEF Target
  <2>. QED
    BY <1>7, <2>1, <2>2
<1>9. ASSUME NEW a, \A k \in joined : moves[k].atom # a PROVE Ends(l2, a) = Ends(ls, a)
  <2>1. MovesOf(Moved(joined), a) = {}
    <3>. SUFFICES ASSUME NEW x \in Moved(joined) PROVE a \notin x.atoms
      BY DEF MovesOf
    <3>1. PICK k \in joined : x.atoms = {moves[k].atom}
      BY DEF Moved, ActAt
    <3>. QED
      BY <1>9, <3>1
  <2>. QED
    BY <1>4, <1>7, <2>1
<1>10. Found(Append(l2, Stored(joined))) /\ \A a : Ends(Append(l2, Stored(joined)), a) = Ends(l2, a)
  <2>1. ASSUME NEW x \in Stored(joined)
        PROVE  x.op # "move" /\ FindsItsAtoms(x, {Ends(l2, a) : a \in x.atoms})
    <3>1. PICK k \in joined : x = ActAt("store", moves[k].atom, moves[k].to)
      BY DEF Stored
    <3>2. x.op = "store" /\ x.atoms = {moves[k].atom} /\ x.to = moves[k].to
      BY <3>1 DEF ActAt
    <3>3. {Ends(l2, a) : a \in x.atoms} = {x.to}
      BY <1>8, <3>2
    <3>. QED
      BY <3>2, <3>3 DEF FindsItsAtoms
  <2>2. Still(l2, Stored(joined))
    BY <2>1 DEF Still
  <2>3. Undisturbed(l2, Append(l2, Stored(joined)))
    BY <1>6, <2>2, EmitStill
  <2>. QED
    BY <2>3 DEF Undisturbed
<1>11. Carried(ls, joined) = Append(l2, Stored(joined))
  BY <1>3, <1>5 DEF Carried
<1>. QED
  BY <1>8, <1>9, <1>10, <1>11

--------------------------------------------------------------------------------
(* Every step of the planner.                                                  *)

\* Operations of the program are not moves.
LEMMA OperationsStill ==
  /\ \A x \in Operations \cup Readouts : x \in Action /\ x.op \notin Loads
  /\ \A x \in Operations : \A spots : FindsItsAtoms(x, spots)
<1>1. \A x \in Operations \cup Readouts : x \in Action /\ x.op \notin Loads
  BY DEF Operations, Readouts, Loads
<1>2. \A x \in Operations : x.op \in {"local", "ry", "wait"}
  BY DEF Operations
<1>. QED
  BY <1>1, <1>2 DEF FindsItsAtoms

\* Gates are assigned to pairs:
LEMMA AssignKeeps ==
  ASSUME PlanInv, ZonedInv, AssignPairs, UNCHANGED cvars, UNCHANGED pvars
  PROVE  ZonedInv'
<1>1. /\ step = "gates" /\ step' = "moving" /\ UNCHANGED <<readouts, out>>
      /\ \E f \in Assignments :
           /\ Displace(MovesFor(f))
           /\ last' = last \cup {Act("entangle", {todo[i][1], todo[i][2]}) : i \in DOMAIN f}
           /\ todo' = Deferred(f)
  BY DEF AssignPairs
<1>2. PICK f \in Assignments :
           /\ Displace(MovesFor(f))
           /\ last' = last \cup {Act("entangle", {todo[i][1], todo[i][2]}) : i \in DOMAIN f}
           /\ todo' = Deferred(f)
  BY <1>1
<1>3. LayoutOK /\ PutOff /\ Pending /\ ToBeRead /\ Ready /\ Tracked
  BY DEF ZonedInv
<1>4. PICK ms : ms = MovesFor(f)
  OBVIOUS
<1>5. GoodMoves(ms) /\ DOMAIN ms \subseteq Nat /\ Displace(ms)
  BY <1>2, <1>3, <1>4, GateMoves
<1>6. \A i \in DOMAIN f : \A j \in {1, 2} :
        \/ \E k \in DOMAIN ms : ms[k].atom = todo[i][j] /\ ms[k].to = f[i][j]
        \/ at[todo[i][j]] = f[i][j] /\ \A k \in DOMAIN ms : ms[k].atom # todo[i][j]
  BY <1>3, <1>4, GateMoves
<1>7. LayoutOK'
  BY <1>3, <1>5, GoodMovesKeep
<1>8. Pending'
  BY <1>1, <1>3, <1>5, GoodMovesPend
<1>9. PutOff'
  <2>1. DOMAIN todo' \subseteq DOMAIN todo /\ \A i \in DOMAIN todo' : todo'[i] = todo[i]
    BY <1>2 DEF Deferred, Restrict
  <2>. QED
    BY <1>3, <2>1 DEF PutOff
<1>10. ToBeRead'
  BY <1>1, <1>3 DEF ToBeRead
<1>11. DOMAIN f \subseteq DOMAIN todo /\ \A i \in DOMAIN f : todo[i] \in Atoms \X Atoms
  BY <1>3, AssignmentIs DEF PutOff
<1>12. ASSUME NEW i \in DOMAIN f, NEW j \in {1, 2} PROVE at'[todo[i][j]] = f[i][j]
  <2>1. todo[i][j] \in Atoms
    BY <1>11
  <2>2. /\ \A k \in DOMAIN ms : at'[ms[k].atom] = ms[k].to
        /\ \A a \in Atoms : (\A k \in DOMAIN ms : ms[k].atom # a) => at'[a] = at[a]
    BY <1>3, <1>5, GoodMovesKeep
  <2>. QED
    BY <1>6, <2>1, <2>2
<1>13. Ready'
  <2>1. ASSUME NEW x \in last'
        PROVE  x \in Action /\ x.op \notin Loads /\ FindsItsAtoms(x, {at'[a] : a \in x.atoms})
    <3>1. CASE x \in last
      <4>1. x \in Operations
        BY <1>1, <1>3, <3>1 DEF Ready
      <4>. QED
        BY <4>1, OperationsStill
    <3>2. CASE x \in {Act("entangle", {todo[i][1], todo[i][2]}) : i \in DOMAIN f}
      <4>1. PICK i \in DOMAIN f : x = Act("entangle", {todo[i][1], todo[i][2]})
        BY <3>2
      <4>2. x.op = "entangle" /\ x.atoms = {todo[i][1], todo[i][2]} /\ x.to = None
        BY <4>1 DEF Act
      <4>3. x \in Action
        BY <1>11, <4>1 DEF Act, Action, Ops
      <4>4. {at'[a] : a \in x.atoms} = PairSites(f[i])
        <5>1. at'[todo[i][1]] = f[i][1] /\ at'[todo[i][2]] = f[i][2]
          BY <1>12
        <5>. QED
          BY <4>2, <5>1 DEF PairSites
      <4>5. \E p \in Pairs : PairSites(f[i]) = PairSites(p)
        BY <1>3, AssignmentIs
      <4>. QED
        BY <4>2, <4>3, <4>4, <4>5 DEF FindsItsAtoms, Loads
    <3>. QED
      BY <1>2, <3>1, <3>2
  <2>. QED
    BY <1>1, <2>1 DEF Ready
<1>14. Tracked'
  <2>1. stage' = stage /\ stage \notin {"asap", "merge"} /\ foreign' = foreign /\ UNCHANGED cvars
    BY <1>1, <1>3 DEF Tracked, cvars, pvars
  <2>2. ASSUME ~foreign, stage \in {"idle", "done"} PROVE Replayed(Schedule)'
    <3>1. PICK ls : ls = Schedule
      OBVIOUS
    <3>2. Schedule' = ls
      BY <1>1, <1>3, <2>1, <2>2, <3>1, ScheduleGrows
    <3>3. Replayed(ls)'
      <4>1. DOMAIN moves = {}
        BY <1>1, <1>3 DEF Pending
      <4>2. Replayed(ls)
        BY <1>3, <2>2, <3>1 DEF Tracked
      <4>. QED
        BY <1>3, <1>5, <4>1, <4>2, GoodMovesReplayed
    <3>. QED
      BY <3>2, <3>3 DEF Replayed
  <2>. QED
    BY <1>1, <1>3, <2>1, <2>2 DEF Tracked
<1>. QED
  BY <1>7, <1>8, <1>9, <1>10, <1>13, <1>14 DEF ZonedInv

\* a group is carried,
LEMMA EmitGroupKeeps ==
  ASSUME PlanInv, ZonedInv, EmitGroup, UNCHANGED cvars, UNCHANGED pvars
  PROVE  ZonedInv'
<1>1. /\ step = "moving" /\ UNCHANGED <<step, at, holder, todo, last, readouts>>
      /\ \E joined \in {S \in SUBSET DOMAIN moves : FirstGroup(S)} :
           /\ out' = out \o <<Loaded(joined), Moved(joined), Stored(joined)>>
           /\ moves' = Restrict(moves, DOMAIN moves \ joined)
  BY DEF EmitGroup, Loaded, Moved, Stored
<1>2. PICK joined \in SUBSET DOMAIN moves :
           /\ out' = out \o <<Loaded(joined), Moved(joined), Stored(joined)>>
           /\ moves' = Restrict(moves, DOMAIN moves \ joined)
  BY <1>1
<1>3. LayoutOK /\ PutOff /\ Pending /\ ToBeRead /\ Ready /\ Tracked
  BY DEF ZonedInv
<1>4. /\ DOMAIN moves' = DOMAIN moves \ joined
      /\ \A k \in DOMAIN moves \ joined : moves'[k] = moves[k]
  BY <1>2 DEF Restrict
<1>5. LayoutOK' /\ PutOff' /\ ToBeRead' /\ Ready'
  BY <1>1, <1>3 DEF LayoutOK, PutOff, ToBeRead, Ready
<1>6. Pending'
  BY <1>1, <1>3, <1>4 DEF Pending
<1>7. \A k \in DOMAIN moves : moves[k].atom \in Atoms /\ moves[k].from \in Sites
                              /\ moves[k].to = at[moves[k].atom] /\ moves[k].to \in Sites
  BY <1>3 DEF Pending, LayoutOK
<1>8. out' \in Seq(SUBSET Action)
  <2>1. ASSUME NEW k \in joined
        PROVE  /\ ActAt("load", moves[k].atom, moves[k].from) \in Action
               /\ ActAt("move", moves[k].atom, moves[k].to) \in Action
               /\ ActAt("store", moves[k].atom, moves[k].to) \in Action
    BY <1>7 DEF ActAt, Action, Ops
  <2>2. Loaded(joined) \in SUBSET Action /\ Moved(joined) \in SUBSET Action /\ Stored(joined) \in SUBSET Action
    BY <2>1 DEF Loaded, Moved, Stored
  <2>3. <<Loaded(joined), Moved(joined), Stored(joined)>> \in Seq(SUBSET Action)
    BY <2>2
  <2>. QED
    BY <1>2, <1>3, <2>3, ConcatProperties DEF Tracked
<1>9. stage' = stage /\ stage \notin {"asap", "merge"} /\ foreign' = foreign /\ UNCHANGED cvars
  BY <1>1, <1>3 DEF Tracked, cvars, pvars
<1>10. ASSUME ~foreign, stage \in {"idle", "done"} PROVE Replayed(Schedule)'
  <2>1. PICK ls, S : ls = Schedule /\ ls \in Seq(S)
    BY <1>3, <1>9, <1>10, ScheduleGrows
  <2>2. Schedule' = Carried(ls, joined)
    BY <1>2, <1>3, <1>9, <1>10, <2>1, ScheduleGrows DEF Carried
  <2>3. Replayed(ls)
    BY <1>3, <1>10, <2>1 DEF Tracked
  <2>4. PICK ms : ms = Carried(ls, joined)
    OBVIOUS
  <2>5. /\ Found(ms)
        /\ \A k \in joined : Ends(ms, moves[k].atom) = moves[k].to
        /\ \A a : (\A k \in joined : moves[k].atom # a) => Ends(ms, a) = Ends(ls, a)
    BY <1>3, <2>1, <2>3, <2>4, CarriedFound
  <2>6. ASSUME NEW k \in DOMAIN moves' PROVE Ends(ms, moves'[k].atom) = moves'[k].from
    <3>1. k \in DOMAIN moves /\ k \notin joined /\ moves'[k] = moves[k]
      BY <1>4
    <3>2. \A j \in joined : moves[j].atom # moves[k].atom
      BY <1>3, <3>1 DEF Pending
    <3>3. Ends(ls, moves[k].atom) = moves[k].from
      BY <2>3, <3>1 DEF Replayed
    <3>. QED
      BY <2>5, <3>1, <3>2, <3>3
  <2>7. ASSUME NEW a \in Atoms, \A k \in DOMAIN moves' : moves'[k].atom # a PROVE Ends(ms, a) = at'[a]
    <3>1. CASE \E k \in joined : moves[k].atom = a
      BY <1>1, <1>7, <2>5, <3>1
    <3>2. CASE \A k \in joined : moves[k].atom # a
      <4>1. \A k \in DOMAIN moves : moves[k].atom # a
        BY <1>4, <2>7, <3>2
      <4>2. Ends(ls, a) = at[a]
        BY <2>3, <4>1 DEF Replayed
      <4>. QED
        BY <1>1, <2>5, <3>2, <4>2
    <3>. QED
      BY <3>1, <3>2
  <2>. QED
    BY <2>2, <2>4, <2>5, <2>6, <2>7 DEF Replayed
<1>11. Tracked'
  BY <1>8, <1>9, <1>10 DEF Tracked
<1>. QED
  BY <1>5, <1>6, <1>11 DEF ZonedInv

\* the operations it was carried for are emitted,
LEMMA EmitLastKeeps ==
  ASSUME PlanInv, ZonedInv, EmitLast, UNCHANGED cvars, UNCHANGED pvars
  PROVE  ZonedInv'
<1>1. /\ step = "moving" /\ DOMAIN moves = {}
      /\ out' = Append(out, last) /\ last' = {}
      /\ step' = IF DOMAIN todo # {} THEN "gates" ELSE IF DOMAIN readouts # {} THEN "readout" ELSE "ready"
      /\ UNCHANGED <<at, holder, todo, moves, readouts>>
  BY DEF EmitLast
<1>2. LayoutOK /\ PutOff /\ Pending /\ ToBeRead /\ Ready /\ Tracked
  BY DEF ZonedInv
<1>3. LayoutOK' /\ PutOff' /\ Pending'
  BY <1>1, <1>2 DEF LayoutOK, PutOff, Pending
<1>4. ToBeRead'
  BY <1>1, <1>2 DEF ToBeRead
<1>5. Ready'
  BY <1>1 DEF Ready
<1>6. last \subseteq Action /\ \A x \in last : x.op # "move"
  BY <1>2 DEF Ready, Loads
<1>7. stage' = stage /\ stage \notin {"asap", "merge"} /\ foreign' = foreign /\ UNCHANGED cvars
  BY <1>1, <1>2 DEF Tracked, cvars, pvars
<1>8. ASSUME ~foreign, stage \in {"idle", "done"} PROVE Replayed(Schedule)'
  <2>1. PICK ls, S : ls = Schedule /\ ls \in Seq(S)
    BY <1>2, <1>7, <1>8, ScheduleGrows
  <2>2. Schedule' = Append(ls, last)
    BY <1>1, <1>2, <1>7, <1>8, <2>1, ScheduleGrows
  <2>3. Found(ls) /\ \A a \in Atoms : Ends(ls, a) = at[a]
    BY <1>1, <1>2, <1>8, <2>1 DEF Tracked, Replayed
  <2>4. PICK ms : ms = Append(ls, last)
    OBVIOUS
  <2>5. ASSUME NEW x \in last PROVE x.op # "move" /\ FindsItsAtoms(x, {Ends(ls, a) : a \in x.atoms})
    <3>1. x.atoms \subseteq Atoms
      BY <1>6 DEF Action
    <3>2. {Ends(ls, a) : a \in x.atoms} = {at[a] : a \in x.atoms}
      BY <2>3, <3>1
    <3>. QED
      BY <1>1, <1>2, <1>6, <3>2 DEF Ready
  <2>6. Found(ms) /\ \A a : Ends(ms, a) = Ends(ls, a)
    <3>1. Still(ls, last)
      BY <2>5 DEF Still
    <3>2. Undisturbed(ls, Append(ls, last))
      BY <2>1, <2>3, <3>1, EmitStill
    <3>. QED
      BY <2>4, <3>2 DEF Undisturbed
  <2>. QED
    BY <1>1, <2>2, <2>3, <2>4, <2>6 DEF Replayed
<1>9. out' \in Seq(SUBSET Action)
  BY <1>1, <1>2, <1>6 DEF Tracked
<1>10. Tracked'
  BY <1>7, <1>8, <1>9 DEF Tracked
<1>. QED
  BY <1>3, <1>4, <1>5, <1>10 DEF ZonedInv

\* atoms are shuttled to readout.
LEMMA MoveToReadoutKeeps ==
  ASSUME PlanInv, ZonedInv, MoveToReadout, UNCHANGED cvars, UNCHANGED pvars
  PROVE  ZonedInv'
<1>1. /\ step = "readout" /\ step' = "moving"
      /\ \E site \in [Movers -> FreeReadout] : ReadoutSitesFor(site) /\ Displace(MovesToReadout(site))
      /\ last' = ToRead /\ readouts' = Restrict(readouts, DOMAIN readouts \ {NextKind})
      /\ UNCHANGED <<todo, out>>
  BY DEF MoveToReadout, MovesToReadout
<1>2. PICK site \in [Movers -> FreeReadout] : ReadoutSitesFor(site) /\ Displace(MovesToReadout(site))
  BY <1>1
<1>3. LayoutOK /\ PutOff /\ Pending /\ ToBeRead /\ Ready /\ Tracked
  BY DEF ZonedInv
<1>4. PICK ms : ms = MovesToReadout(site)
  OBVIOUS
<1>5. GoodMoves(ms) /\ DOMAIN ms \subseteq Nat /\ Displace(ms)
  BY <1>1, <1>2, <1>3, <1>4, ReadoutMoves
<1>6. \A a \in LayerAtoms(ToRead) :
        \/ \E k \in DOMAIN ms : ms[k].atom = a /\ ms[k].to \in ReadoutSites
        \/ at[a] \in ReadoutSites /\ \A k \in DOMAIN ms : ms[k].atom # a
  BY <1>1, <1>2, <1>3, <1>4, ReadoutMoves
<1>7. LayoutOK'
  BY <1>3, <1>5, GoodMovesKeep
<1>8. Pending'
  BY <1>1, <1>3, <1>5, GoodMovesPend
<1>9. PutOff'
  BY <1>1, <1>3 DEF PutOff
<1>10. ToBeRead'
  <2>1. DOMAIN readouts' \subseteq DOMAIN readouts /\ \A k \in DOMAIN readouts' : readouts'[k] = readouts[k]
    BY <1>1 DEF Restrict
  <2>. QED
    BY <1>1, <1>3, <2>1 DEF ToBeRead
<1>11. ToRead \subseteq Readouts /\ LayerAtoms(ToRead) \subseteq Atoms
  BY <1>1, <1>3, ToReadIs
<1>12. ASSUME NEW a \in LayerAtoms(ToRead) PROVE at'[a] \in ReadoutSites
  <2>1. a \in Atoms
    BY <1>11
  <2>2. /\ \A k \in DOMAIN ms : at'[ms[k].atom] = ms[k].to
        /\ \A b \in Atoms : (\A k \in DOMAIN ms : ms[k].atom # b) => at'[b] = at[b]
    BY <1>3, <1>5, GoodMovesKeep
  <2>. QED
    BY <1>6, <2>1, <2>2
<1>13. Ready'
  <2>1. ASSUME NEW x \in ToRead
        PROVE  x \in Action /\ x.op \notin Loads /\ FindsItsAtoms(x, {at'[a] : a \in x.atoms})
    <3>1. x \in Readouts
      BY <1>11
    <3>2. \A a \in x.atoms : at'[a] \in ReadoutSites
      BY <1>12 DEF LayerAtoms
    <3>3. x.op \in {"measure", "reset", "reuse"}
      BY <3>1 DEF Readouts
    <3>. QED
      BY <3>1, <3>2, <3>3, OperationsStill DEF FindsItsAtoms
  <2>. QED
    BY <1>1, <2>1 DEF Ready
<1>14. Tracked'
  <2>1. stage' = stage /\ stage \notin {"asap", "merge"} /\ foreign' = foreign /\ UNCHANGED cvars
    BY <1>1, <1>3 DEF Tracked, cvars, pvars
  <2>2. ASSUME ~foreign, stage \in {"idle", "done"} PROVE Replayed(Schedule)'
    <3>1. PICK ls : ls = Schedule
      OBVIOUS
    <3>2. Schedule' = ls
      BY <1>1, <1>3, <2>1, <2>2, <3>1, ScheduleGrows
    <3>3. Replayed(ls)'
      <4>1. DOMAIN moves = {}
        BY <1>1, <1>3 DEF Pending
      <4>2. Replayed(ls)
        BY <1>3, <2>2, <3>1 DEF Tracked
      <4>. QED
        BY <1>3, <1>5, <4>1, <4>2, GoodMovesReplayed
    <3>. QED
      BY <3>2, <3>3 DEF Replayed
  <2>. QED
    BY <1>1, <1>3, <2>1, <2>2 DEF Tracked
<1>. QED
  BY <1>7, <1>8, <1>9, <1>10, <1>13, <1>14 DEF ZonedInv

\* Steps that leave the schedule and the layout alone.
LEMMA TrackedStays ==
  ASSUME PlanInv, Tracked, UNCHANGED cvars, UNCHANGED <<at, moves, out, foreign>>,
         stage \in {"asap", "merge"} => step' = step
  PROVE  Tracked'
<1>1. stage' = stage /\ input' = input
  BY DEF cvars
<1>2. ASSUME ~foreign, stage \in {"idle", "done"} PROVE Replayed(Schedule)'
  <2>1. Schedule' = Schedule /\ Replayed(Schedule)
    BY <1>2, ScheduleGrows DEF Tracked
  <2>. QED
    BY <2>1 DEF Replayed
<1>3. ~foreign /\ stage \in {"asap", "merge"} => Replayed(input)'
  BY <1>1 DEF Tracked, Replayed
<1>. QED
  BY <1>1, <1>2, <1>3 DEF Tracked

\* A layer is taken: one of gates,
LEMMA GateLayerKeeps ==
  ASSUME PlanInv, ZonedInv, NEW gates \in GateLists, NEW rest \in SUBSET Operations,
         GateLayer(gates, rest), stage = "idle", UNCHANGED cvars, foreign' = foreign
  PROVE  ZonedInv'
<1>1. LayoutOK /\ PutOff /\ Pending /\ ToBeRead /\ Ready /\ Tracked
  BY DEF ZonedInv
<1>2. /\ step = "ready" /\ todo' = gates /\ last' = rest /\ step' = "gates"
      /\ UNCHANGED <<at, holder, moves, readouts, out>>
  BY DEF GateLayer
<1>3. LayoutOK' /\ Pending' /\ ToBeRead'
  BY <1>1, <1>2 DEF LayoutOK, Pending, ToBeRead
<1>4. PutOff'
  <2>1. gates \in Seq(Atoms \X Atoms) /\ \A i \in DOMAIN gates : gates[i][1] # gates[i][2]
    BY DEF GateLists
  <2>2. \A i, j \in DOMAIN gates : i # j => PairSites(gates[i]) \cap PairSites(gates[j]) = {}
    BY DEF GateLists
  <2>3. DOMAIN gates \subseteq Nat \ {0} /\ \A i \in DOMAIN gates : gates[i] \in Atoms \X Atoms
    BY <2>1
  <2>. QED
    BY <1>2, <2>1, <2>2, <2>3 DEF PutOff
<1>5. Ready'
  BY <1>2, OperationsStill DEF Ready
<1>6. Tracked'
  BY <1>1, <1>2, TrackedStays
<1>. QED
  BY <1>3, <1>4, <1>5, <1>6 DEF ZonedInv

\* one without,
LEMMA PassLayerKeeps ==
  ASSUME PlanInv, ZonedInv, NEW layer \in SUBSET Operations,
         PassLayer(layer), stage = "idle", UNCHANGED cvars, foreign' = foreign
  PROVE  ZonedInv'
<1>1. LayoutOK /\ PutOff /\ Pending /\ ToBeRead /\ Ready /\ Tracked
  BY DEF ZonedInv
<1>2. /\ step = "ready" /\ out' = Append(out, layer)
      /\ UNCHANGED <<step, at, holder, todo, moves, last, readouts>>
  BY DEF PassLayer
<1>3. LayoutOK' /\ Pending' /\ ToBeRead' /\ PutOff' /\ Ready'
  BY <1>1, <1>2 DEF LayoutOK, Pending, ToBeRead, PutOff, Ready
<1>4. layer \in SUBSET Action /\ \A x \in layer : x.op # "move" /\ \A spots : FindsItsAtoms(x, spots)
  BY OperationsStill DEF Loads
<1>5. ASSUME ~foreign PROVE Replayed(Schedule)'
  <2>1. PICK ls, S : ls = Schedule /\ ls \in Seq(S)
    BY <1>1, <1>5, ScheduleGrows
  <2>2. Schedule' = Append(ls, layer)
    BY <1>1, <1>2, <1>5, <2>1, ScheduleGrows
  <2>3. Replayed(ls)
    BY <1>1, <1>5, <2>1 DEF Tracked
  <2>4. PICK ms : ms = Append(ls, layer)
    OBVIOUS
  <2>5. Found(ms) /\ \A a : Ends(ms, a) = Ends(ls, a)
    <3>1. Still(ls, layer)
      BY <1>4 DEF Still
    <3>2. Found(ls)
      BY <2>3 DEF Replayed
    <3>3. Undisturbed(ls, Append(ls, layer))
      BY <2>1, <3>1, <3>2, EmitStill
    <3>. QED
      BY <2>4, <3>3 DEF Undisturbed
  <2>. QED
    BY <1>2, <2>2, <2>3, <2>4, <2>5 DEF Replayed
<1>6. out' \in Seq(SUBSET Action)
  BY <1>1, <1>2, <1>4 DEF Tracked
<1>7. stage' = "idle"
  BY DEF cvars
<1>8. Tracked'
  BY <1>5, <1>6, <1>7 DEF Tracked
<1>. QED
  BY <1>3, <1>8 DEF ZonedInv

\* one to read out.
LEMMA ReadoutLayerKeeps ==
  ASSUME PlanInv, ZonedInv, NEW acts \in SUBSET Readouts,
         ReadoutLayer(acts), stage \in {"idle", "done"}, UNCHANGED cvars, foreign' = foreign
  PROVE  ZonedInv'
<1>1. LayoutOK /\ PutOff /\ Pending /\ ToBeRead /\ Ready /\ Tracked
  BY DEF ZonedInv
<1>. DEFINE kinds == {k \in DOMAIN ReadoutKinds : OfKind(acts, ReadoutKinds[k]) # {}}
            others == {x \in acts : x.op \notin Range(ReadoutKinds)}
<1>2. /\ step = "ready" /\ step' = "readout" /\ kinds # {}
      /\ out' = IF others = {} THEN out ELSE Append(out, others)
      /\ holder' = FromLayout(at)
      /\ readouts' = [k \in kinds |-> OfKind(acts, ReadoutKinds[k])]
      /\ UNCHANGED <<at, todo, moves, last>>
  BY DEF ReadoutLayer
<1>3. DOMAIN ReadoutKinds = 1 .. 3 /\ \A x \in acts : x.op \in Range(ReadoutKinds)
  <2>1. /\ DOMAIN ReadoutKinds = 1 .. 3 /\ ReadoutKinds[1] = "measure"
        /\ ReadoutKinds[2] = "reset" /\ ReadoutKinds[3] = "reuse"
    BY DEF ReadoutKinds
  <2>2. {"measure", "reset", "reuse"} \subseteq Range(ReadoutKinds)
    BY <2>1 DEF Range
  <2>3. \A x \in acts : x.op \in {"measure", "reset", "reuse"}
    BY DEF Readouts
  <2>. QED
    BY <2>1, <2>2, <2>3
<1>4. out' = out
  BY <1>2, <1>3
<1>5. LayoutOK'
  <2>1. at \in [Atoms -> Sites] /\ \A a, b \in Atoms : at[a] = at[b] => a = b
    BY <1>1 DEF LayoutOK
  <2>2. /\ FromLayout(at) \in [Sites -> Atoms \cup {None}]
        /\ \A a \in Atoms : FromLayout(at)[at[a]] = a
        /\ \A s \in Sites : FromLayout(at)[s] # None => at[FromLayout(at)[s]] = s
    BY <2>1, FromLayoutOK
  <2>. QED
    BY <1>2, <2>1, <2>2 DEF LayoutOK
<1>6. PutOff' /\ Pending' /\ Ready'
  BY <1>1, <1>2 DEF PutOff, Pending, Ready
<1>7. ToBeRead'
  <2>1. \A k \in kinds : readouts'[k] \subseteq Readouts
    BY <1>2 DEF OfKind
  <2>2. DOMAIN readouts' = kinds /\ kinds \subseteq 1 .. 3
    BY <1>2, <1>3
  <2>. HIDE DEF kinds
  <2>. QED
    BY <1>2, <2>1, <2>2 DEF ToBeRead
<1>8. Tracked'
  BY <1>1, <1>2, <1>4, TrackedStays
<1>. QED
  BY <1>5, <1>6, <1>7, <1>8 DEF ZonedInv

\* A refusal keeps what there is.
LEMMA RefuseKeeps ==
  ASSUME ZonedInv, Refuse
  PROVE  ZonedInv'
<1>1. UNCHANGED <<step, at, holder, todo, moves, last, readouts, out>> /\ stage' = "refused"
  BY DEF Refuse, zvars
<1>. QED
  BY <1>1 DEF ZonedInv, LayoutOK, PutOff, Pending, ToBeRead, Ready, Tracked

\* The layout is the compacted schedule's as it was the planned one's.
LEMMA SubmittedKeeps ==
  ASSUME PlanInv, ZonedInv, Compact
  PROVE  ZonedInv'
<1>1. UNCHANGED <<step, at, holder, todo, moves, last, readouts>> /\ UNCHANGED foreign
  BY DEF Compact, pvars
<1>2. LayoutOK' /\ PutOff' /\ Pending' /\ ToBeRead' /\ Ready'
  BY <1>1 DEF ZonedInv, LayoutOK, PutOff, Pending, ToBeRead, Ready
<1>3. /\ stage = "idle" /\ step = "ready" /\ out' = <<>> /\ stage' \in {"asap", "refused"}
      /\ stage' = "asap" => input' = out
  BY DEF Compact, Planning, Submit
<1>4. ~foreign => out \in Seq(SUBSET Action) /\ Replayed(out)
  BY <1>3, ScheduleIs DEF ZonedInv, Tracked
<1>5. ~foreign /\ stage' = "asap" => Replayed(input)'
  BY <1>1, <1>3, <1>4 DEF Replayed
<1>6. <<>> \in Seq(SUBSET Action)
  OBVIOUS
<1>7. Tracked'
  BY <1>1, <1>3, <1>4, <1>5, <1>6 DEF Tracked
<1>. QED
  BY <1>2, <1>7 DEF ZonedInv

\* A schedule that is given has no layout.
LEMMA GivenKeeps ==
  ASSUME ZonedInv, NEW ls, NEW caller, CompactForeign(ls, caller)
  PROVE  ZonedInv'
<1>1. /\ UNCHANGED <<step, at, holder, todo, moves, last, readouts, out>>
      /\ foreign' /\ step = "ready"
  BY DEF CompactForeign, zvars, Planning
<1>. QED
  BY <1>1 DEF ZonedInv, LayoutOK, PutOff, Pending, ToBeRead, Ready, Tracked

\* What compaction makes of a replayed schedule is replayed.
LEMMA CompactedReplayed ==
  ASSUME PlanInv, ZonedInv, ~foreign, stage = "merge"
  PROVE  Replayed(ActsOf(layers)) /\ ActsOf(layers) \o <<>> = ActsOf(layers)
<1>1. input \in Seq(SUBSET Action) /\ Replayed(input) /\ step = "ready"
  BY DEF ZonedInv, Tracked
<1>2. DOMAIN moves = {}
  BY <1>1 DEF ZonedInv, Pending
<1>3. Sound(layers) /\ UsesSorted /\ \E S : ActsOf(layers) \in Seq(S)
  BY CompactedIsSound DEF Compacting
<1>4. Found(ActsOf(layers)) /\ \A a \in Atoms : Ends(ActsOf(layers), a) = Ends(input, a)
  BY <1>1, <1>3, CompactedFound DEF Replayed
<1>5. ActsOf(layers) \o <<>> = ActsOf(layers)
  BY <1>3, ConcatEmptySeq
<1>. QED
  BY <1>1, <1>2, <1>4, <1>5 DEF Replayed

\* Compaction does not touch the layout.
LEMMA CompactionStepKeeps ==
  ASSUME PlanInv, ZonedInv, CompactionNext, UNCHANGED zvars, UNCHANGED pvars
  PROVE  ZonedInv'
<1>1. UNCHANGED <<step, at, holder, todo, moves, last, readouts, out>> /\ UNCHANGED foreign
  BY DEF zvars, pvars
<1>2. LayoutOK' /\ PutOff' /\ Pending' /\ ToBeRead' /\ Ready'
  BY <1>1 DEF ZonedInv, LayoutOK, PutOff, Pending, ToBeRead, Ready
<1>3. Tracked /\ out \in Seq(SUBSET Action)
  BY DEF ZonedInv, Tracked
<1>4. CASE AsapStep \/ SortByCycle \/ Merge
  <2>1. /\ stage \in {"asap", "merge"} /\ stage' \in {"asap", "merge"} /\ input' = input
    BY <1>4 DEF AsapStep, SortByCycle, Merge
  <2>2. ~foreign => Replayed(input)'
    BY <1>1, <1>3, <2>1 DEF Tracked, Replayed
  <2>3. Tracked'
    BY <1>1, <1>3, <2>1, <2>2 DEF Tracked
  <2>. QED
    BY <1>2, <2>3 DEF ZonedInv
<1>5. CASE Finish
  <2>1. stage = "merge" /\ stage' \in {"done", "refused"} /\ layers' = layers
    BY <1>5 DEF Finish
  <2>2. ASSUME ~foreign, stage' = "done" PROVE Replayed(Schedule)'
    <3>1. out' = <<>>
      BY <1>1, <1>3, <2>1, <2>2 DEF Tracked
    <3>2. Schedule' = ActsOf(layers) \o out'
      BY <2>1, <2>2 DEF Schedule, ActsOf
    <3>3. Replayed(ActsOf(layers)) /\ ActsOf(layers) \o <<>> = ActsOf(layers)
      BY <2>1, <2>2, CompactedReplayed
    <3>4. PICK ls : ls = ActsOf(layers)
      OBVIOUS
    <3>5. Schedule' = ls /\ Replayed(ls)
      BY <3>1, <3>2, <3>3, <3>4
    <3>. QED
      BY <1>1, <3>5 DEF Replayed
  <2>3. Tracked'
    BY <1>1, <1>3, <2>1, <2>2 DEF Tracked
  <2>. QED
    BY <1>2, <2>3 DEF ZonedInv
<1>. QED
  BY <1>4, <1>5 DEF CompactionNext

\* Every step keeps the invariant,
LEMMA PlanNextKeeps ==
  ASSUME PlanInv, ZonedInv, [Next]_vars
  PROVE  ZonedInv'
<1>1. ASSUME NEW gates \in GateLists, NEW rest \in SUBSET Beside(gates), PlanGates(gates, rest)
      PROVE  ZonedInv'
  <2>0. rest \in SUBSET Operations
    BY <1>1 DEF Beside
  <2>1. CASE GateLayer(gates, rest) /\ UNCHANGED cvars
    BY <1>1, <2>0, <2>1, GateLayerKeeps DEF PlanGates, Planning
  <2>2. CASE TooManyGates(gates)
    BY <2>2, RefuseKeeps DEF TooManyGates
  <2>. QED
    BY <1>1, <2>1, <2>2 DEF PlanGates
<1>2. ASSUME NEW layer \in SUBSET Operations, PlanLocal(layer) PROVE ZonedInv'
  BY <1>2, PassLayerKeeps DEF PlanLocal, Planning
<1>3. ASSUME NEW acts \in SUBSET Readouts, EndRound(acts) PROVE ZonedInv'
  BY <1>3, ReadoutLayerKeeps DEF EndRound, Planning
<1>4. CASE Compact
  BY <1>4, SubmittedKeeps
<1>5. ASSUME NEW measured \in SUBSET Atoms, TerminalMeasure(measured) PROVE ZonedInv'
  <2>1. {Act("measure", {a}) : a \in measured} \in SUBSET Readouts
    BY DEF Readouts, Action, Act, Ops
  <2>2. /\ stage = "done" /\ ReadoutLayer({Act("measure", {a}) : a \in measured})
        /\ UNCHANGED cvars /\ foreign' = foreign
    BY <1>5 DEF TerminalMeasure
  <2>. QED
    BY <2>1, <2>2, ReadoutLayerKeeps
<1>6. ASSUME NEW ls, NEW caller, CompactForeign(ls, caller) PROVE ZonedInv'
  BY <1>6, GivenKeeps
<1>7. CASE PlanStep
  <2>1. CASE ZonedStep /\ UNCHANGED cvars /\ UNCHANGED pvars
    BY <2>1, AssignKeeps, EmitGroupKeeps, EmitLastKeeps, MoveToReadoutKeeps DEF ZonedStep
  <2>2. CASE ZonedRefusal /\ stage # "refused" /\ UNCHANGED pvars
    BY <2>2, RefuseKeeps DEF ZonedRefusal, NoLegalPair, ReadoutFull
  <2>3. CASE CompactionNext /\ UNCHANGED zvars /\ UNCHANGED pvars
    BY <2>3, CompactionStepKeeps
  <2>. QED
    BY <1>7, <2>1, <2>2, <2>3 DEF PlanStep
<1>8. CASE UNCHANGED vars
  <2>1. UNCHANGED <<step, at, holder, todo, moves, last, readouts, out>> /\ UNCHANGED cvars /\ foreign' = foreign
    BY <1>8 DEF vars, zvars, pvars
  <2>2. LayoutOK' /\ PutOff' /\ Pending' /\ ToBeRead' /\ Ready'
    BY <2>1 DEF ZonedInv, LayoutOK, PutOff, Pending, ToBeRead, Ready
  <2>3. Tracked'
    BY <2>1, TrackedStays DEF ZonedInv
  <2>. QED
    BY <2>2, <2>3 DEF ZonedInv
<1>. QED
  BY <1>1, <1>2, <1>3, <1>4, <1>5, <1>6, <1>7, <1>8 DEF Next

\* the first state has it,
LEMMA InitZoned ==
  ASSUME Init
  PROVE  ZonedInv
<1>1. /\ step = "ready" /\ at = Start /\ holder = FromLayout(Start)
      /\ todo = <<>> /\ moves = <<>> /\ last = {} /\ readouts = <<>> /\ out = <<>>
      /\ stage = "idle"
  BY DEF Init, ZonedInit, CompactionInit
<1>2. LayoutOK
  <2>1. Start \in [Atoms -> Sites] /\ \A a, b \in Atoms : Start[a] = Start[b] => a = b
    BY CompactionAssumption, ZonedAssumption
  <2>. QED
    BY <1>1, <2>1, FromLayoutOK DEF LayoutOK
<1>3. DOMAIN todo = {} /\ DOMAIN moves = {} /\ DOMAIN readouts = {}
  BY <1>1
<1>4. PutOff /\ Pending /\ ToBeRead /\ Ready
  BY <1>1, <1>3 DEF PutOff, Pending, ToBeRead, Ready
<1>5. Replayed(<<>>)
  <2>1. DOMAIN <<>> = {} /\ Len(<<>>) = 0
    OBVIOUS
  <2>2. ASSUME NEW a \in Atoms PROVE Ends(<<>>, a) = at[a]
    <3>1. 0 + 1 \in Nat /\ \A i \in 1 .. (0 + 1) - 1 : FALSE
      OBVIOUS
    <3>2. Where(<<>>, a, 0 + 1) = Start[a]
      BY <3>1, WhereIs
    <3>. QED
      BY <1>1, <2>1, <3>2 DEF Ends
  <2>3. Found(<<>>)
    BY <2>1 DEF Found
  <2>. QED
    BY <1>3, <2>2, <2>3 DEF Replayed
<1>6. Tracked
  <2>1. Schedule = <<>>
    BY <1>1, ScheduleIs
  <2>2. <<>> \in Seq(SUBSET Action)
    OBVIOUS
  <2>. QED
    BY <1>1, <1>5, <2>1, <2>2 DEF Tracked
<1>. QED
  BY <1>2, <1>4, <1>6 DEF ZonedInv

\* and so have all.
LEMMA ZonedInductive == Spec => []ZonedInv
<1>1. Init => ZonedInv
  BY InitZoned
<1>2. PlanInv /\ ZonedInv /\ [Next]_vars => ZonedInv'
  BY PlanNextKeeps
<1>. QED
  BY <1>1, <1>2, Inductive, PTL DEF Spec

\* A settled schedule is replayed.
LEMMA SettledReplayed ==
  ASSUME PlanInv, ZonedInv, Settled, ~foreign
  PROVE  Replayed(Schedule)
<1>1. CASE stage \in {"idle", "done"}
  BY <1>1 DEF ZonedInv, Tracked
<1>2. CASE stage = "merge"
  <2>1. out = <<>>
    BY <1>2 DEF ZonedInv, Tracked
  <2>2. Schedule = ActsOf(layers) \o <<>>
    BY <1>2, <2>1, ScheduleIs
  <2>3. Replayed(ActsOf(layers)) /\ ActsOf(layers) \o <<>> = ActsOf(layers)
    BY <1>2, CompactedReplayed
  <2>. QED
    BY <2>2, <2>3
<1>. QED
  BY <1>1, <1>2 DEF Settled

\* LayoutIsTheReplay follows,
LEMMA LayoutFollows ==
  ASSUME PlanInv, ZonedInv
  PROVE  LayoutIsTheReplay
<1>. SUFFICES ASSUME step # "moving", Settled, ~foreign
              PROVE  /\ \A a \in Atoms : at[a] = Where(Schedule, a, Len(Schedule) + 1) /\ holder[at[a]] = a
                     /\ \A s \in Sites : holder[s] # None => at[holder[s]] = s
  BY DEF LayoutIsTheReplay
<1>1. Replayed(Schedule)
  BY SettledReplayed
<1>2. DOMAIN moves = {}
  BY DEF ZonedInv, Pending
<1>3. \A a \in Atoms : Ends(Schedule, a) = at[a]
  BY <1>1, <1>2 DEF Replayed
<1>. QED
  BY <1>3 DEF Ends, ZonedInv, LayoutOK

\* and OperationsFindTheirAtoms.
LEMMA OperationsFollow ==
  ASSUME PlanInv, ZonedInv
  PROVE  OperationsFindTheirAtoms
BY SettledReplayed DEF OperationsFindTheirAtoms, Replayed, Found

--------------------------------------------------------------------------------
(* Deferral ends.                                                              *)

\* A proper subset of a finite set is smaller.
LEMMA Fewer ==
  ASSUME NEW S, IsFiniteSet(S), NEW T \in SUBSET S, T # S
  PROVE  Cardinality(T) < Cardinality(S)
<1>1. /\ IsFiniteSet(T) /\ Cardinality(T) <= Cardinality(S)
      /\ Cardinality(S) # Cardinality(T)
  BY FS_Subset
<1>2. Cardinality(S) \in Nat /\ Cardinality(T) \in Nat
  BY <1>1, FS_CardinalityType
<1>. QED
  BY <1>1, <1>2

\* A function that gives each of its arguments an atom of its own is finite.
LEMMA FinitelyMany ==
  ASSUME NEW S, NEW h \in [S -> Atoms], \A j, k \in S : h[j] = h[k] => j = k
  PROVE  IsFiniteSet(S)
<1>1. h \in Injection(S, Atoms) /\ IsFiniteSet(Atoms)
  BY ZonedAssumption DEF Injection, IsInjective
<1>. QED
  BY <1>1, FS_Injection

\* The atoms are finite, and so is what is left of a layer.
LEMMA FiniteWork ==
  ASSUME ZonedInv
  PROVE  IsFiniteSet(DOMAIN moves) /\ IsFiniteSet(DOMAIN todo) /\ IsFiniteSet(DOMAIN readouts)
<1>1. IsFiniteSet(DOMAIN moves)
  <2>. DEFINE h == [k \in DOMAIN moves |-> moves[k].atom]
  <2>1. h \in [DOMAIN moves -> Atoms] /\ \A j, k \in DOMAIN moves : h[j] = h[k] => j = k
    BY DEF ZonedInv, Pending
  <2>. HIDE DEF h
  <2>. QED
    BY <2>1, FinitelyMany
<1>2. IsFiniteSet(DOMAIN todo)
  <2>. DEFINE h == [i \in DOMAIN todo |-> todo[i][1]]
  <2>1. \A i \in DOMAIN todo : todo[i][1] \in Atoms /\ todo[i][1] \in PairSites(todo[i])
    BY DEF ZonedInv, PutOff, PairSites
  <2>2. \A i, j \in DOMAIN todo : i # j => PairSites(todo[i]) \cap PairSites(todo[j]) = {}
    BY DEF ZonedInv, PutOff
  <2>3. h \in [DOMAIN todo -> Atoms] /\ \A i, j \in DOMAIN todo : h[i] = h[j] => i = j
    BY <2>1, <2>2
  <2>. HIDE DEF h
  <2>. QED
    BY <2>3, FinitelyMany
<1>3. IsFiniteSet(DOMAIN readouts)
  <2>1. DOMAIN readouts \in SUBSET (1 .. 3)
    BY DEF ZonedInv, ToBeRead
  <2>2. IsFiniteSet(1 .. 3)
    <3>1. PICK i \in Int, j \in Int : i = 1 /\ j = 3
      OBVIOUS
    <3>2. IsFiniteSet(i .. j)
      BY FS_Interval
    <3>. QED
      BY <3>1, <3>2
  <2>. QED
    BY <2>1, <2>2, FS_Subset
<1>. QED
  BY <1>1, <1>2, <1>3

\* Fewer readouts, else fewer gates, else the stage's layer out, else fewer moves.
LEMMA LessWork ==
  ASSUME LET r == Cardinality(DOMAIN readouts)
             t == Cardinality(DOMAIN todo)
             m == IF step = "moving" THEN 1 ELSE 0
             n == Cardinality(DOMAIN moves)
         IN  \/ r' < r
             \/ r' = r /\ t' < t
             \/ r' = r /\ t' = t /\ m' < m
             \/ r' = r /\ t' = t /\ m' = m /\ n' < n
  PROVE  Less(Work', Work)
<1>1. PICK v, w : v = Work' /\ w = Work
  OBVIOUS
<1>2. /\ DOMAIN v = 1 .. 4
      /\ w[1] = Cardinality(DOMAIN readouts) /\ w[2] = Cardinality(DOMAIN todo)
      /\ w[3] = (IF step = "moving" THEN 1 ELSE 0) /\ w[4] = Cardinality(DOMAIN moves)
  BY <1>1 DEF Work
<1>3. /\ v[1] = Cardinality(DOMAIN readouts)' /\ v[2] = Cardinality(DOMAIN todo)'
      /\ v[3] = (IF step' = "moving" THEN 1 ELSE 0) /\ v[4] = Cardinality(DOMAIN moves)'
  BY <1>1 DEF Work
<1>4. \E i \in DOMAIN v : v[i] < w[i] /\ \A j \in 1 .. i - 1 : v[j] = w[j]
  <2>1. CASE v[1] < w[1]
    BY <1>2, <2>1
  <2>2. CASE v[1] = w[1] /\ v[2] < w[2]
    <3>1. \A j \in 1 .. 2 - 1 : j = 1
      OBVIOUS
    <3>. QED
      BY <1>2, <2>2, <3>1
  <2>3. CASE v[1] = w[1] /\ v[2] = w[2] /\ v[3] < w[3]
    <3>1. \A j \in 1 .. 3 - 1 : j = 1 \/ j = 2
      OBVIOUS
    <3>. QED
      BY <1>2, <2>3, <3>1
  <2>4. CASE v[1] = w[1] /\ v[2] = w[2] /\ v[3] = w[3] /\ v[4] < w[4]
    <3>1. \A j \in 1 .. 4 - 1 : j = 1 \/ j = 2 \/ j = 3
      OBVIOUS
    <3>. QED
      BY <1>2, <2>4, <3>1
  <2>. QED
    BY <1>2, <1>3, <2>1, <2>2, <2>3, <2>4
<1>. QED
  BY <1>1, <1>4 DEF Less

\* A stage places a gate, a group carries a move.
LEMMA StepsDoWork ==
  ASSUME PlanInv, ZonedInv, ZonedStep
  PROVE  Less(Work', Work)
<1>1. CASE AssignPairs
  <2>1. PICK f \in Assignments : todo' = Deferred(f)
    BY <1>1 DEF AssignPairs
  <2>2. DOMAIN f # {} /\ DOMAIN f \subseteq DOMAIN todo
    BY <2>1, AssignmentIs DEF ZonedInv
  <2>3. DOMAIN todo' = DOMAIN todo \ DOMAIN f
    BY <2>1 DEF Deferred, Restrict
  <2>4. Cardinality(DOMAIN todo') < Cardinality(DOMAIN todo)
    BY <2>2, <2>3, FiniteWork, Fewer
  <2>5. readouts' = readouts
    BY <1>1 DEF AssignPairs
  <2>. QED
    BY <2>4, <2>5, LessWork
<1>2. CASE EmitGroup
  <2>1. /\ step' = step /\ readouts' = readouts /\ todo' = todo /\ DOMAIN moves # {}
        /\ \E joined \in {S \in SUBSET DOMAIN moves : FirstGroup(S)} :
             moves' = Restrict(moves, DOMAIN moves \ joined)
    BY <1>2 DEF EmitGroup
  <2>2. PICK joined \in SUBSET DOMAIN moves :
          FirstGroup(joined) /\ moves' = Restrict(moves, DOMAIN moves \ joined)
    BY <2>1
  <2>3. DOMAIN moves \in SUBSET Nat
    BY DEF ZonedInv, Pending
  <2>4. PICK k \in DOMAIN moves : \A j \in DOMAIN moves : k <= j
    BY <2>1, <2>3, LeastElement
  <2>5. k \in joined
    <3>1. \A j \in joined : ~(j < k)
      <4>. TAKE j \in joined
      <4>1. j \in Nat /\ k \in Nat /\ k <= j
        BY <2>3, <2>4
      <4>. QED
        BY <4>1
    <3>. QED
      BY <2>2, <3>1 DEF FirstGroup
  <2>6. DOMAIN moves' = DOMAIN moves \ joined
    BY <2>2 DEF Restrict
  <2>7. Cardinality(DOMAIN moves') < Cardinality(DOMAIN moves)
    BY <2>5, <2>6, FiniteWork, Fewer
  <2>. QED
    BY <2>1, <2>7, LessWork
<1>3. CASE EmitLast
  <2>1. step = "moving" /\ step' # "moving" /\ readouts' = readouts /\ todo' = todo
    BY <1>3 DEF EmitLast
  <2>. QED
    BY <2>1, LessWork
<1>4. CASE MoveToReadout
  <2>1. readouts' = Restrict(readouts, DOMAIN readouts \ {NextKind}) /\ step = "readout"
    BY <1>4 DEF MoveToReadout
  <2>2. DOMAIN readouts' = DOMAIN readouts \ {NextKind}
    BY <2>1 DEF Restrict
  <2>3. NextKind \in DOMAIN readouts
    BY <2>1, ToReadIs DEF ZonedInv
  <2>4. Cardinality(DOMAIN readouts') < Cardinality(DOMAIN readouts)
    BY <2>2, <2>3, FiniteWork, Fewer
  <2>. QED
    BY <2>4, LessWork
<1>. QED
  BY <1>1, <1>2, <1>3, <1>4 DEF ZonedStep

\* Between layers there is nothing left to do; in a layer only these steps are taken.
LEMMA DeferralStep ==
  ASSUME PlanInv, ZonedInv, Next, step # "ready", stage' # "refused"
  PROVE  Less(Work', Work)
<1>1. ~Planning /\ stage \notin {"asap", "merge"}
  BY DEF Planning, ZonedInv, Tracked
<1>2. PlanStep
  BY <1>1 DEF Next, PlanGates, PlanLocal, EndRound, Compact, TerminalMeasure, CompactForeign
<1>3. ~CompactionNext
  BY <1>1 DEF CompactionNext, AsapStep, SortByCycle, Merge, Finish
<1>4. ~ZonedRefusal
  BY DEF ZonedRefusal, NoLegalPair, ReadoutFull, Refuse
<1>5. ZonedStep
  BY <1>2, <1>3, <1>4 DEF PlanStep
<1>. QED
  BY <1>5, StepsDoWork
\* A history with a layer more, if it has an operation of the atom.
Push(h, ops) == IF ops = {} THEN h ELSE Append(h, ops)

--------------------------------------------------------------------------------
(* The nonempty of a sequence of sets, in their order.                         *)

\* The place of k in a set of numbers.
Rank(S, k) == Cardinality({j \in S : j <= k})

\* Each member has its place, each place its member.
LEMMA NthIs ==
  ASSUME NEW n \in Nat, NEW S \in SUBSET (1 .. n)
  PROVE  /\ IsFiniteSet(S) /\ Cardinality(S) \in Nat
         /\ \A k \in S : Rank(S, k) \in 1 .. Cardinality(S) /\ Nth(S, Rank(S, k)) = k
         /\ \A m \in 1 .. Cardinality(S) : Nth(S, m) \in S /\ Rank(S, Nth(S, m)) = m
<1>1. IsFiniteSet(S)
  <2>1. IsFiniteSet(1 .. n)
    BY FS_Interval
  <2>. QED
    BY <2>1, FS_Subset
<1>2. PICK c \in Nat : c = Cardinality(S)
  BY <1>1, FS_CardinalityType
<1>3. ASSUME NEW k \in S
      PROVE  /\ IsFiniteSet({j \in S : j <= k}) /\ Rank(S, k) \in Nat /\ Rank(S, k) <= c
             /\ Rank(S, k) # 0
  <2>1. {j \in S : j <= k} \in SUBSET S /\ k \in {j \in S : j <= k}
    OBVIOUS
  <2>2. IsFiniteSet({j \in S : j <= k}) /\ Rank(S, k) <= c
    BY <1>1, <1>2, <2>1, FS_Subset DEF Rank
  <2>. QED
    BY <2>1, <2>2, FS_CardinalityType, FS_EmptySet DEF Rank
<1>4. ASSUME NEW i \in S, NEW k \in S, i < k PROVE Rank(S, i) < Rank(S, k)
  <2>1. {j \in S : j <= i} \in SUBSET {j \in S : j <= k}
    <3>. SUFFICES ASSUME NEW j \in S, j <= i PROVE j <= k
      OBVIOUS
    <3>1. j \in Int /\ i \in Int /\ k \in Int
      OBVIOUS
    <3>. QED
      BY <1>4, <3>1
  <2>2. k \in {j \in S : j <= k} /\ k \notin {j \in S : j <= i}
    BY <1>4
  <2>3. IsFiniteSet({j \in S : j <= k})
    BY <1>3
  <2>. QED
    BY <2>1, <2>2, <2>3, Fewer DEF Rank
<1>5. \A i, k \in S : Rank(S, i) = Rank(S, k) => i = k
  <2>. SUFFICES ASSUME NEW i \in S, NEW k \in S, Rank(S, i) = Rank(S, k), i # k PROVE FALSE
    OBVIOUS
  <2>1. i < k \/ k < i
    OBVIOUS
  <2>2. Rank(S, i) \in Nat
    BY <1>3
  <2>. QED
    BY <1>4, <2>1, <2>2
<1>. DEFINE f == [k \in S |-> Rank(S, k)]
            T == {Rank(S, k) : k \in S}
<1>6. ASSUME NEW k \in S PROVE Rank(S, k) \in 1 .. c
  <2>1. Rank(S, k) \in Nat /\ Rank(S, k) <= c /\ Rank(S, k) # 0
    BY <1>3
  <2>. QED
    BY <2>1
<1>7. T = 1 .. c
  <2>1. f \in Bijection(S, T)
    <3>1. f \in [S -> T] /\ \A i, k \in S : f[i] = f[k] => i = k
      BY <1>5
    <3>2. \A t \in T : \E k \in S : f[k] = t
      OBVIOUS
    <3>. QED
      BY <3>1, <3>2 DEF Bijection, Injection, Surjection, IsInjective
  <2>2. ExistsBijection(S, T)
    BY <2>1 DEF ExistsBijection
  <2>3. Cardinality(T) = c
    <3>. HIDE DEF T
    <3>. QED
      BY <1>1, <1>2, <2>2, FS_Bijection
  <2>4. T \in SUBSET (1 .. c)
    BY <1>6
  <2>5. IsFiniteSet(1 .. c) /\ Cardinality(1 .. c) = c
    BY FS_Interval
  <2>. HIDE DEF T
  <2>. QED
    BY <2>3, <2>4, <2>5, FS_Subset
<1>8. \A m \in 1 .. c : \E k \in S : Rank(S, k) = m
  BY <1>7
<1>9. \A m \in 1 .. c : Nth(S, m) \in S /\ Rank(S, Nth(S, m)) = m
  BY <1>8 DEF Nth, Rank
<1>. QED
  BY <1>1, <1>2, <1>5, <1>6, <1>9

\* How many there are, and which comes at the place of k.
LEMMA NonEmptyIs ==
  ASSUME NEW n \in Nat, NEW f, DOMAIN f = 1 .. n
  PROVE  /\ Filled(f) \in SUBSET (1 .. n) /\ Cardinality(Filled(f)) \in Nat
         /\ NonEmpty(f) \in Seq({f[k] : k \in 1 .. n})
         /\ Len(NonEmpty(f)) = Cardinality(Filled(f))
         /\ \A k \in Filled(f) : NonEmpty(f)[Rank(Filled(f), k)] = f[k]
         /\ \A m \in 1 .. Cardinality(Filled(f)) :
              NonEmpty(f)[m] = f[Nth(Filled(f), m)]
<1>1. PICK S : S = Filled(f)
  OBVIOUS
<1>2. S \in SUBSET (1 .. n)
  BY <1>1 DEF Filled
<1>3. PICK c \in Nat : c = Cardinality(S)
  BY <1>2, NthIs
<1>4. NonEmpty(f) = [m \in 1 .. c |-> f[Nth(S, m)]]
  BY <1>1, <1>3 DEF NonEmpty
<1>5. /\ \A m \in 1 .. c : Nth(S, m) \in S
      /\ \A k \in S : Rank(S, k) \in 1 .. c /\ Nth(S, Rank(S, k)) = k
  BY <1>2, <1>3, NthIs
<1>6. NonEmpty(f) \in [1 .. c -> {f[k] : k \in 1 .. n}]
  BY <1>2, <1>4, <1>5
<1>7. NonEmpty(f) \in Seq({f[k] : k \in 1 .. n}) /\ Len(NonEmpty(f)) = c
  BY <1>6, FunctionIsSeq
<1>. QED
  BY <1>1, <1>2, <1>3, <1>4, <1>5, <1>7

\* One more at the end.
LEMMA NonEmptyNext ==
  ASSUME NEW n \in Nat, NEW f, NEW g, DOMAIN f = 1 .. n, DOMAIN g = 1 .. n + 1,
         \A k \in 1 .. n : g[k] = f[k]
  PROVE  NonEmpty(g) = Push(NonEmpty(f), g[n + 1])
<1>1. PICK S, T : S = Filled(f) /\ T = Filled(g)
  OBVIOUS
<1>2. PICK m \in Nat : m = n + 1
  OBVIOUS
<1>3. S \in SUBSET (1 .. n) /\ T \in SUBSET (1 .. m)
  BY <1>1, <1>2 DEF Filled
<1>4. T = IF g[m] = {} THEN S ELSE S \cup {m}
  BY <1>1, <1>2 DEF Filled
<1>5. PICK c \in Nat : c = Cardinality(S)
  BY <1>3, NthIs
<1>6. NonEmpty(f) = [p \in 1 .. c |-> f[Nth(S, p)]]
  BY <1>1, <1>5 DEF NonEmpty
<1>7. \A p \in 1 .. c : Nth(S, p) \in S /\ Rank(S, Nth(S, p)) = p
  BY <1>3, <1>5, NthIs
<1>8. \A p \in 1 .. c : g[Nth(S, p)] = f[Nth(S, p)]
  BY <1>3, <1>7
<1>9. CASE g[m] = {}
  <2>1. NonEmpty(g) = [p \in 1 .. c |-> g[Nth(S, p)]]
    BY <1>1, <1>4, <1>5, <1>9 DEF NonEmpty
  <2>. QED
    BY <1>2, <1>6, <1>8, <1>9, <2>1 DEF Push
<1>10. CASE g[m] # {}
  <2>1. T = S \cup {m} /\ m \notin S
    BY <1>2, <1>3, <1>4, <1>10
  <2>2. Cardinality(T) = c + 1
    BY <1>3, <1>5, <2>1, NthIs, FS_AddElement
  <2>3. NonEmpty(g) = [p \in 1 .. c + 1 |-> g[Nth(T, p)]]
    BY <1>1, <2>2 DEF NonEmpty
  <2>10. \A k \in T : Nth(T, Rank(T, k)) = k
    BY <1>2, <1>3, NthIs
  <2>4. \A k \in S : {j \in T : j <= k} = {j \in S : j <= k}
    BY <1>2, <1>3, <2>1
  <2>5. ASSUME NEW p \in 1 .. c PROVE Nth(T, p) = Nth(S, p)
    <3>1. Nth(S, p) \in T /\ Rank(T, Nth(S, p)) = p
      BY <1>7, <2>1, <2>4 DEF Rank
    <3>. QED
      BY <2>10, <3>1
  <2>6. Nth(T, c + 1) = m
    <3>1. \A j \in T : j <= m
      BY <1>2, <1>3
    <3>2. Rank(T, m) = c + 1
      <4>1. {j \in T : j <= m} = T
        BY <3>1
      <4>. QED
        BY <2>2, <4>1 DEF Rank
    <3>. QED
      BY <2>1, <2>10, <3>2
  <2>7. NonEmpty(f) \in Seq({f[k] : k \in 1 .. n}) /\ Len(NonEmpty(f)) = c
    BY <1>1, <1>5, NonEmptyIs
  <2>8. Append(NonEmpty(f), g[m]) = [p \in 1 .. c + 1 |-> IF p = c + 1 THEN g[m] ELSE NonEmpty(f)[p]]
    BY <2>7
  <2>9. ASSUME NEW p \in 1 .. c + 1
        PROVE  g[Nth(T, p)] = IF p = c + 1 THEN g[m] ELSE NonEmpty(f)[p]
    <3>1. CASE p = c + 1
      BY <2>6, <3>1
    <3>2. CASE p # c + 1
      <4>1. p \in 1 .. c
        BY <3>2
      <4>. QED
        BY <1>6, <1>8, <2>5, <3>2, <4>1
    <3>. QED
      BY <3>1, <3>2
  <2>. QED
    BY <1>2, <1>10, <2>3, <2>8, <2>9 DEF Push
<1>. QED
  BY <1>9, <1>10

\* Two sequences have the same if those of one come, in order, from those of the other.
LEMMA SameNonEmpty ==
  ASSUME NEW n \in Nat, NEW f, DOMAIN f = 1 .. n, NEW m \in Nat, NEW g, DOMAIN g = 1 .. m,
         NEW v \in [Filled(f) -> Filled(g)],
         \A i, j \in Filled(f) : i < j => v[i] < v[j],
         \A k \in Filled(g) : \E i \in Filled(f) : v[i] = k,
         \A i \in Filled(f) : g[v[i]] = f[i]
  PROVE  NonEmpty(g) = NonEmpty(f)
<1>1. PICK S, T : S = Filled(f) /\ T = Filled(g)
  OBVIOUS
<1>2. S \in SUBSET (1 .. n) /\ T \in SUBSET (1 .. m)
  BY <1>1 DEF Filled
<1>3. /\ IsFiniteSet(S) /\ \A p \in 1 .. Cardinality(S) : Nth(S, p) \in S /\ Rank(S, Nth(S, p)) = p
      /\ \A k \in T : Nth(T, Rank(T, k)) = k
  BY <1>2, NthIs
<1>4. \A i, j \in S : v[i] \in T /\ (i < j <=> v[i] < v[j]) /\ (v[i] = v[j] => i = j)
  <2>. TAKE i, j \in S
  <2>1. v[i] \in T /\ v[j] \in T /\ i \in Int /\ j \in Int /\ v[i] \in Int /\ v[j] \in Int
    BY <1>1, <1>2
  <2>2. (i < j => v[i] < v[j]) /\ (j < i => v[j] < v[i])
    BY <1>1
  <2>. QED
    BY <2>1, <2>2
<1>5. Cardinality(T) = Cardinality(S)
  <2>1. v \in Bijection(S, T)
    BY <1>1, <1>4 DEF Bijection, Injection, Surjection, IsInjective
  <2>2. ExistsBijection(S, T)
    BY <2>1 DEF ExistsBijection
  <2>. QED
    BY <1>3, <2>2, FS_Bijection
<1>8. (\A j \in S : j \in Int) /\ \A k \in T : k \in Int
  BY <1>2
<1>6. ASSUME NEW k \in S PROVE Rank(T, v[k]) = Rank(S, k)
  <2>. DEFINE A == {j \in S : j <= k}
              B == {j \in T : j <= v[k]}
              w == [j \in A |-> v[j]]
  <2>1. \A j \in S : j <= k <=> v[j] <= v[k]
    <3>. TAKE j \in S
    <3>0. v[j] \in T /\ v[k] \in T
      BY <1>4
    <3>1. v[j] \in Int /\ v[k] \in Int /\ j \in Int /\ k \in Int
      BY <1>8, <3>0
    <3>2. (k < j <=> v[k] < v[j])
      BY <1>4
    <3>. QED
      BY <3>1, <3>2
  <2>2. w \in [A -> B] /\ \A i, j \in A : w[i] = w[j] => i = j
    BY <1>4, <2>1
  <2>3. \A t \in B : \E j \in A : w[j] = t
    <3>. TAKE t \in B
    <3>1. PICK j \in S : v[j] = t
      BY <1>1
    <3>2. j \in A
      BY <2>1, <3>1
    <3>. QED
      BY <3>1, <3>2
  <2>4. IsFiniteSet(A)
    BY <1>3, FS_Subset
  <2>5. A \in SUBSET S
    OBVIOUS
  <2>. HIDE DEF A, B, w
  <2>6. w \in Bijection(A, B)
    BY <2>2, <2>3 DEF Bijection, Injection, Surjection, IsInjective
  <2>7. ExistsBijection(A, B)
    BY <2>6 DEF ExistsBijection
  <2>8. Cardinality(B) = Cardinality(A)
    BY <2>4, <2>7, FS_Bijection
  <2>. QED
    BY <2>8 DEF Rank, A, B
<1>7. ASSUME NEW p \in 1 .. Cardinality(S) PROVE g[Nth(T, p)] = f[Nth(S, p)]
  <2>1. Nth(S, p) \in S /\ Rank(S, Nth(S, p)) = p
    BY <1>3
  <2>2. Rank(T, v[Nth(S, p)]) = p /\ v[Nth(S, p)] \in T
    BY <1>4, <1>6, <2>1
  <2>3. Nth(T, p) = v[Nth(S, p)]
    BY <1>3, <2>2
  <2>. QED
    BY <1>1, <2>1, <2>3
<1>. QED
  BY <1>1, <1>5, <1>7 DEF NonEmpty

\* The history of one more layer.
LEMMA HistoryNext ==
  ASSUME NEW ls \in Seq(SUBSET Action), NEW e \in SUBSET Action, NEW a
  PROVE  /\ History(Append(ls, e), a) = Push(History(ls, a), OpsOf(e, a))
         /\ History(ls, a) \in Seq(SUBSET Action)
<1>1. PICK n \in Nat : DOMAIN ls = 1 .. n /\ Len(ls) = n
  OBVIOUS
<1>2. PICK f, g : /\ f = [k \in DOMAIN ls |-> OpsOf(ls[k], a)]
                  /\ g = [k \in DOMAIN Append(ls, e) |-> OpsOf(Append(ls, e)[k], a)]
  OBVIOUS
<1>3. /\ DOMAIN Append(ls, e) = 1 .. n + 1 /\ Append(ls, e)[n + 1] = e
      /\ \A k \in 1 .. n : Append(ls, e)[k] = ls[k]
  BY <1>1
<1>4. /\ DOMAIN f = 1 .. n /\ DOMAIN g = 1 .. n + 1 /\ g[n + 1] = OpsOf(e, a)
      /\ \A k \in 1 .. n : g[k] = f[k] /\ f[k] = OpsOf(ls[k], a)
  BY <1>1, <1>2, <1>3
<1>5. NonEmpty(g) = Push(NonEmpty(f), OpsOf(e, a))
  BY <1>4, NonEmptyNext
<1>6. {f[k] : k \in 1 .. n} \subseteq SUBSET Action
  <2>1. \A k \in 1 .. n : OpsOf(ls[k], a) \subseteq Action
    BY <1>1 DEF OpsOf
  <2>. QED
    BY <1>4, <2>1
<1>7. NonEmpty(f) \in Seq({f[k] : k \in 1 .. n})
  BY <1>4, NonEmptyIs
<1>8. NonEmpty(f) \in Seq(SUBSET Action)
  BY <1>6, <1>7, SeqMonotonic
<1>. QED
  BY <1>2, <1>5, <1>8 DEF History

\* Nothing is pushed by nothing.
LEMMA PushIs ==
  /\ \A h : Push(h, {}) = h
  /\ \A a : OpsOf({}, a) = {}
  /\ \A e, f, a : OpsOf(e \cup f, a) = OpsOf(e, a) \cup OpsOf(f, a)
  /\ \A e \in SUBSET Action : \A a : OpsOf(e, a) \in SUBSET Action
  /\ \A h \in Seq(SUBSET Action), e \in SUBSET Action : Push(h, e) \in Seq(SUBSET Action)
BY DEF Push, OpsOf

\* The history behind some layers, of one layer more.
LEMMA HistoryBehind ==
  ASSUME NEW ls \in Seq(SUBSET Action), NEW ms \in Seq(SUBSET Action),
         NEW e \in SUBSET Action, NEW a
  PROVE  History(ls \o Push(ms, e), a) = Push(History(ls \o ms, a), OpsOf(e, a))
<1>1. CASE e = {}
  BY <1>1, PushIs
<1>2. CASE e # {}
  <2>1. ls \o Push(ms, e) = Append(ls \o ms, e)
    <3>1. Push(ms, e) = Append(ms, e)
      BY <1>2 DEF Push
    <3>. QED
      BY <3>1, ConcatOneMore
  <2>2. ls \o ms \in Seq(SUBSET Action)
    BY ConcatProperties
  <2>. QED
    <3>1. History(Append(ls \o ms, e), a) = Push(History(ls \o ms, a), OpsOf(e, a))
      BY <2>2, HistoryNext
    <3>. QED
      BY <2>1, <3>1
<1>. QED
  BY <1>1, <1>2

\* The readout of a round, kind by kind.
LEMMA ReadoutHistory ==
  ASSUME NEW ls \in Seq(SUBSET Action), NEW acts \in SUBSET Action, NEW a
  PROVE  /\ ls \o ReadoutGroups(acts) \in Seq(SUBSET Action)
         /\ History(ls \o ReadoutGroups(acts), a)
              = Push(Push(Push(History(ls, a), OpsOf(OfKind(acts, "measure"), a)),
                          OpsOf(OfKind(acts, "reset"), a)), OpsOf(OfKind(acts, "reuse"), a))
<1>. DEFINE f(n) == [k \in 1 .. n |-> OfKind(acts, ReadoutKinds[k])]
<1>1. /\ DOMAIN ReadoutKinds = 1 .. 3 /\ ReadoutKinds[1] = "measure"
      /\ ReadoutKinds[2] = "reset" /\ ReadoutKinds[3] = "reuse"
  BY DEF ReadoutKinds
<1>2. \A op : OfKind(acts, op) \in SUBSET Action
  BY DEF OfKind
<1>3. ReadoutGroups(acts) = NonEmpty(f(3))
  BY <1>1 DEF ReadoutGroups
<1>4. NonEmpty(f(0)) = <<>>
  <2>1. Filled(f(0)) = {}
    BY DEF Filled
  <2>2. Cardinality(Filled(f(0))) = 0 /\ 1 .. 0 = {}
    <3>1. 1 .. 0 = {}
      OBVIOUS
    <3>2. Cardinality({}) = 0
      BY FS_EmptySet
    <3>. QED
      BY <2>1, <3>1, <3>2
  <2>3. NonEmpty(f(0)) = [n \in {} |-> f(0)[Nth(Filled(f(0)), n)]]
    BY <2>2 DEF NonEmpty
  <2>. QED
    BY <2>3
<1>5. ASSUME NEW n \in Nat
      PROVE  NonEmpty(f(n + 1)) = Push(NonEmpty(f(n)), OfKind(acts, ReadoutKinds[n + 1]))
  <2>1. /\ DOMAIN f(n) = 1 .. n /\ DOMAIN f(n + 1) = 1 .. n + 1
        /\ \A k \in 1 .. n : f(n + 1)[k] = f(n)[k]
        /\ f(n + 1)[n + 1] = OfKind(acts, ReadoutKinds[n + 1])
    OBVIOUS
  <2>. HIDE DEF f
  <2>. QED
    BY <2>1, NonEmptyNext
<1>6. PICK g0, g1, g2, g3 : /\ g0 = NonEmpty(f(0)) /\ g1 = NonEmpty(f(1))
                            /\ g2 = NonEmpty(f(2)) /\ g3 = NonEmpty(f(3))
  OBVIOUS
<1>. HIDE DEF f
<1>7. /\ g0 = <<>> /\ g1 = Push(g0, OfKind(acts, "measure"))
      /\ g2 = Push(g1, OfKind(acts, "reset")) /\ g3 = Push(g2, OfKind(acts, "reuse"))
  <2>1. 0 + 1 = 1 /\ 1 + 1 = 2 /\ 2 + 1 = 3 /\ 0 \in Nat /\ 1 \in Nat /\ 2 \in Nat
    OBVIOUS
  <2>2. /\ NonEmpty(f(1)) = Push(NonEmpty(f(0)), OfKind(acts, ReadoutKinds[1]))
        /\ NonEmpty(f(2)) = Push(NonEmpty(f(1)), OfKind(acts, ReadoutKinds[2]))
        /\ NonEmpty(f(3)) = Push(NonEmpty(f(2)), OfKind(acts, ReadoutKinds[3]))
    BY <1>5, <2>1
  <2>. QED
    BY <1>1, <1>4, <1>6, <2>2
<1>8. g0 \in Seq(SUBSET Action) /\ g1 \in Seq(SUBSET Action) /\ g2 \in Seq(SUBSET Action)
      /\ g3 \in Seq(SUBSET Action)
  <2>1. g0 \in Seq(SUBSET Action)
    BY <1>7
  <2>. QED
    BY <1>2, <1>7, <2>1, PushIs
<1>9. ls \o g0 = ls
  BY <1>7, ConcatEmptySeq
<1>10. ls \o g3 \in Seq(SUBSET Action)
  BY <1>8, ConcatProperties
<1>11. /\ History(ls \o g1, a) = Push(History(ls \o g0, a), OpsOf(OfKind(acts, "measure"), a))
       /\ History(ls \o g2, a) = Push(History(ls \o g1, a), OpsOf(OfKind(acts, "reset"), a))
       /\ History(ls \o g3, a) = Push(History(ls \o g2, a), OpsOf(OfKind(acts, "reuse"), a))
  <2>1. ASSUME NEW ms \in Seq(SUBSET Action), NEW op
        PROVE  History(ls \o Push(ms, OfKind(acts, op)), a)
                 = Push(History(ls \o ms, a), OpsOf(OfKind(acts, op), a))
    <3>1. OfKind(acts, op) \in SUBSET Action
      BY <1>2
    <3>. QED
      BY <3>1, HistoryBehind, ZenonT(60)
  <2>. QED
    BY <1>7, <1>8, <2>1
<1>. QED
  BY <1>3, <1>6, <1>9, <1>10, <1>11

--------------------------------------------------------------------------------
(* Compaction keeps the history of every atom.                                 *)

\* A layer overtakes only layers it shares no atom with.
LEMMA BusyInOrder ==
  ASSUME PlanInv, Compacting, Forward, NEW a \in Atoms,
         NEW i \in DOMAIN input, NEW j \in DOMAIN input, i < j,
         OpsOf(input[i], a) # {}, OpsOf(input[j], a) # {}
  PROVE  VertexOf(layers, i) < VertexOf(layers, j)
<1>1. Sound(layers)
  BY DEF PlanInv, CompactionInv
<1>2. /\ VertexOf(layers, i) \in DOMAIN layers /\ VertexOf(layers, j) \in DOMAIN layers
      /\ i \in layers[VertexOf(layers, i)].lineage /\ j \in layers[VertexOf(layers, j)].lineage
      /\ VertexOf(layers, i) \in Nat /\ CycleOf(layers, i) = VertexOf(layers, i) - 1
      /\ VertexOf(layers, j) \in Nat /\ CycleOf(layers, j) = VertexOf(layers, j) - 1
  BY <1>1, CycleIsPlace
<1>3. CASE ~EntangleOnly(input[j])
  BY <1>1, <1>2, <1>3 DEF Sound, Overtaking
<1>4. CASE EntangleOnly(input[j])
  <2>1. PICK x \in input[i] : a \in x.atoms \/ x.op = "ry"
    BY DEF OpsOf
  <2>2. PICK y \in input[j] : a \in y.atoms \/ y.op = "ry"
    BY DEF OpsOf
  <2>3. y.op # "ry"
    BY <1>4, <2>2 DEF EntangleOnly
  <2>4. a \in LayerAtoms(input[j])
    BY <2>2, <2>3 DEF LayerAtoms
  <2>5. j \in Users(input, a)
    BY <2>4 DEF Users
  <2>6. i \in Users(input, a)
    <3>1. CASE a \in x.atoms
      BY <2>1, <3>1 DEF Users, LayerAtoms
    <3>2. CASE x.op = "ry"
      BY <2>1, <2>4, <3>2 DEF Users, Has
    <3>. QED
      BY <2>1, <3>1, <3>2
  <2>7. CycleOf(layers, i) < CycleOf(layers, j)
    BY <2>5, <2>6, HazardsSuffice DEF UsesStayInOrder
  <2>. QED
    BY <1>2, <2>7
<1>. QED
  BY <1>3, <1>4

\* So its layers with an operation of the atom are those of the input, in their order.
LEMMA CompactedHistory ==
  ASSUME PlanInv, Compacting, Forward, input \in Seq(SUBSET Action)
  PROVE  /\ ActsOf(layers) \in Seq(SUBSET Action)
         /\ \A a \in Atoms : History(ActsOf(layers), a) = History(input, a)
<1>1. PICK n \in Nat : Len(input) = n /\ DOMAIN input = 1 .. n
  BY DEF PlanInv, CompactionInv, Baseline
<1>2. Sound(layers)
  BY DEF PlanInv, CompactionInv
<1>3. PICK m \in Nat : Len(layers) = m /\ DOMAIN layers = 1 .. m
  BY <1>2 DEF Sound
<1>4. PICK L : L = ActsOf(layers)
  OBVIOUS
<1>5. DOMAIN L = 1 .. m /\ \A k \in 1 .. m : L[k] = UNION {input[j] : j \in layers[k].lineage}
  BY <1>2, <1>3, <1>4 DEF Sound, Covered, ActsOf
<1>6. \A k \in 1 .. m : layers[k].lineage \subseteq 1 .. n
  <2>1. \A k \in 1 .. m : layers[k] \in LayerSet
    BY <1>2, <1>3 DEF Sound
  <2>. QED
    BY <1>1, <2>1 DEF LayerSet
<1>7. L \in Seq(SUBSET Action)
  <2>1. \A j \in 1 .. n : input[j] \in SUBSET Action
    BY <1>1
  <2>2. \A k \in 1 .. m : L[k] \in SUBSET Action
    BY <1>5, <1>6, <2>1
  <2>3. L = [k \in 1 .. m |-> L[k]]
    BY <1>3, <1>4 DEF ActsOf
  <2>4. L \in [1 .. m -> SUBSET Action]
    BY <2>2, <2>3
  <2>. QED
    BY <2>4, FunctionIsSeq
<1>8. ASSUME NEW a \in Atoms PROVE History(L, a) = History(input, a)
  <2>1. PICK f, g : /\ f = [k \in DOMAIN input |-> OpsOf(input[k], a)]
                    /\ g = [k \in DOMAIN L |-> OpsOf(L[k], a)]
    OBVIOUS
  <2>2. PICK v : v = [i \in Filled(f) |-> VertexOf(layers, i)]
    OBVIOUS
  <2>3. /\ DOMAIN f = 1 .. n /\ DOMAIN g = 1 .. m
        /\ \A i \in 1 .. n : f[i] = OpsOf(input[i], a)
        /\ \A k \in 1 .. m : g[k] = OpsOf(L[k], a)
    BY <1>1, <1>5, <2>1
  <2>4. /\ \A i : i \in Filled(f) <=> i \in 1 .. n /\ OpsOf(input[i], a) # {}
        /\ \A k : k \in Filled(g) <=> k \in 1 .. m /\ OpsOf(L[k], a) # {}
    BY <2>3 DEF Filled
  <2>5. ASSUME NEW i \in 1 .. n
        PROVE  /\ VertexOf(layers, i) \in 1 .. m /\ i \in layers[VertexOf(layers, i)].lineage
               /\ \A k \in 1 .. m : i \in layers[k].lineage => VertexOf(layers, i) = k
    BY <1>1, <1>2, <1>3, VertexIs DEF Sound
  <2>6. \A i, j \in Filled(f) : i < j => v[i] < v[j]
    BY <1>1, <2>2, <2>4, BusyInOrder
  <2>7. ASSUME NEW k \in 1 .. m, NEW x \in OpsOf(L[k], a)
        PROVE  \E j \in Filled(f) : x \in OpsOf(input[j], a) /\ v[j] = k
    <3>1. PICK j \in layers[k].lineage : x \in input[j]
      BY <1>5 DEF OpsOf
    <3>2. x \in OpsOf(input[j], a) /\ j \in 1 .. n
      BY <1>6, <3>1 DEF OpsOf
    <3>3. j \in Filled(f)
      BY <2>4, <3>2
    <3>4. VertexOf(layers, j) = k
      BY <2>5, <3>1, <3>2
    <3>. QED
      BY <2>2, <3>2, <3>3, <3>4
  <2>8. ASSUME NEW i \in Filled(f)
        PROVE  v[i] \in 1 .. m /\ OpsOf(L[v[i]], a) = OpsOf(input[i], a)
    <3>1. i \in 1 .. n /\ v[i] = VertexOf(layers, i)
      BY <2>2, <2>4
    <3>2. v[i] \in 1 .. m /\ i \in layers[v[i]].lineage
      BY <2>5, <3>1
    <3>3. input[i] \subseteq L[v[i]]
      BY <1>5, <3>2
    <3>4. ASSUME NEW x \in OpsOf(L[v[i]], a) PROVE x \in OpsOf(input[i], a)
      <4>1. PICK j \in Filled(f) : x \in OpsOf(input[j], a) /\ v[j] = v[i]
        BY <2>7, <3>2
      <4>2. j \in 1 .. n
        BY <2>4
      <4>3. ~(i < j) /\ ~(j < i)
        <5>1. v[i] \in Int /\ v[j] = v[i]
          BY <3>2, <4>1
        <5>. QED
          BY <2>6, <5>1
      <4>4. i = j
        BY <3>1, <4>2, <4>3
      <4>. QED
        BY <4>1, <4>4
    <3>. QED
      BY <3>2, <3>3, <3>4 DEF OpsOf
  <2>9. v \in [Filled(f) -> Filled(g)]
    <3>1. \A i \in Filled(f) : v[i] \in Filled(g)
      BY <2>4, <2>8
    <3>. QED
      BY <2>2, <3>1
  <2>10. \A k \in Filled(g) : \E i \in Filled(f) : v[i] = k
    BY <2>4, <2>7
  <2>11. \A i \in Filled(f) : g[v[i]] = f[i]
    BY <2>3, <2>4, <2>8
  <2>12. NonEmpty(g) = NonEmpty(f)
    BY <2>3, <2>6, <2>9, <2>10, <2>11, SameNonEmpty
  <2>. QED
    BY <2>1, <2>12 DEF History
<1>. QED
  BY <1>4, <1>7, <1>8

--------------------------------------------------------------------------------
(* The order of the program.                                                   *)

\* What is still to be done of the layer: the operations the stage moves its atoms for,
\* the gates put off, the readouts by kind.
PutOffGates == {Act("entangle", {todo[i][1], todo[i][2]}) : i \in DOMAIN todo}
Readout(k) == IF k \in DOMAIN readouts THEN readouts[k] ELSE {}
Behind(h, a) ==
  Push(Push(Push(Push(Push(h, OpsOf(last, a)), OpsOf(PutOffGates, a)),
                 OpsOf(Readout(1), a)), OpsOf(Readout(2), a)), OpsOf(Readout(3), a))

\* A layer has gates put off or readouts to come, and neither between layers.
Turns ==
  /\ step \in {"ready", "readout"} => last = {} /\ DOMAIN todo = {}
  /\ step \in {"ready", "gates"} => DOMAIN readouts = {}
  /\ DOMAIN todo = {} \/ DOMAIN readouts = {}

\* What a stage runs is not of the atoms of gates put off.
Apart ==
  \A i \in DOMAIN todo : \A j \in {1, 2} : OpsOf(last, todo[i][j]) = {}

\* Before the first layer, and behind a given schedule, nothing is emitted.
Fresh ==
  /\ rounds \in Nat
  /\ (program = <<>> /\ rounds = 0) \/ foreign => step = "ready" /\ out = <<>>

\* The schedule, and behind it what is still to be done, is the program, atom by atom.
InOrder ==
  /\ program \in Seq(SUBSET Action)
  /\ stage \in {"idle", "done"} /\ Forward =>
       /\ Schedule \in Seq(SUBSET Action)
       /\ \A a \in Atoms : History(program, a) = Behind(History(Schedule, a), a)
  /\ stage \in {"asap", "merge"} =>
       /\ input \in Seq(SUBSET Action)
       /\ \A a \in Atoms : History(program, a) = History(input, a)

OrderInv == Turns /\ Apart /\ Fresh /\ InOrder

\* Between layers nothing is behind the schedule.
LEMMA BehindNothing ==
  ASSUME Turns, step = "ready"
  PROVE  \A h, a : Behind(h, a) = h
<1>1. last = {} /\ PutOffGates = {} /\ Readout(1) = {} /\ Readout(2) = {} /\ Readout(3) = {}
  BY DEF Turns, PutOffGates, Readout
<1>2. \A a : OpsOf({}, a) = {}
  BY PushIs
<1>3. \A h : Push(h, {}) = h
  BY PushIs
<1>. QED
  BY <1>1, <1>2, <1>3 DEF Behind

\* What is to be done are operations.
LEMMA ToDoIs ==
  ASSUME ZonedInv
  PROVE  /\ last \in SUBSET Action /\ PutOffGates \in SUBSET Action
         /\ \A k : Readout(k) \in SUBSET Action
<1>1. last \in SUBSET Action
  BY DEF ZonedInv, Ready
<1>2. PutOffGates \in SUBSET Action
  <2>1. ASSUME NEW i \in DOMAIN todo
        PROVE  Act("entangle", {todo[i][1], todo[i][2]}) \in Action
    <3>1. todo[i][1] \in Atoms /\ todo[i][2] \in Atoms
      BY DEF ZonedInv, PutOff
    <3>. QED
      BY <3>1 DEF Act, Action, Ops
  <2>. QED
    BY <2>1 DEF PutOffGates
<1>3. \A k : Readout(k) \in SUBSET Action
  BY DEF Readout, ZonedInv, ToBeRead, Readouts
<1>. QED
  BY <1>1, <1>2, <1>3

\* A history is a prefix of what is pushed to it.
LEMMA PushLonger ==
  ASSUME NEW h \in Seq(SUBSET Action), NEW g \in Seq(SUBSET Action), IsPrefix(h, g),
         NEW e \in SUBSET Action
  PROVE  IsPrefix(h, Push(g, e))
<1>1. CASE e = {}
  BY <1>1 DEF Push
<1>2. CASE e # {}
  <2>1. PICK n \in Nat, m \in Nat : n = Len(h) /\ m = Len(g)
    OBVIOUS
  <2>2. Push(g, e) = Append(g, e)
    BY <1>2 DEF Push
  <2>3. Len(Append(g, e)) = m + 1 /\ \A i \in 1 .. m : Append(g, e)[i] = g[i]
    BY <2>1
  <2>4. n <= m /\ SubSeq(h, 1, n) = SubSeq(g, 1, n)
    BY <2>1 DEF IsPrefix
  <2>5. SubSeq(Append(g, e), 1, n) = SubSeq(g, 1, n)
    <3>1. g \in Seq(SUBSET Action) /\ Append(g, e) \in Seq(SUBSET Action)
      OBVIOUS
    <3>2. \A i \in 1 .. n : g[i] \in SUBSET Action /\ Append(g, e)[i] = g[i]
      BY <2>1, <2>3, <2>4
    <3>3. PICK s, t : s = SubSeq(Append(g, e), 1, n) /\ t = SubSeq(g, 1, n)
      OBVIOUS
    <3>4. /\ s \in Seq(SUBSET Action) /\ t \in Seq(SUBSET Action) /\ Len(s) = n /\ Len(t) = n
          /\ \A i \in 1 .. n : s[i] = Append(g, e)[i] /\ t[i] = g[i]
      <4>1. \A i \in 1 .. n : Append(g, e)[i] \in SUBSET Action
        BY <3>2
      <4>2. 1 \in Int /\ n \in Int /\ n - 1 + 1 = n /\ (1 <= n \/ n = 0)
            /\ \A i \in 1 .. n : 1 + i - 1 = i
        OBVIOUS
      <4>3. /\ t \in Seq(SUBSET Action) /\ Len(t) = (IF 1 <= n THEN n - 1 + 1 ELSE 0)
            /\ \A i \in 1 .. n - 1 + 1 : t[i] = g[1 + i - 1]
        BY <3>2, <3>3, <4>2, SubSeqProperties
      <4>4. /\ s \in Seq(SUBSET Action) /\ Len(s) = (IF 1 <= n THEN n - 1 + 1 ELSE 0)
            /\ \A i \in 1 .. n - 1 + 1 : s[i] = Append(g, e)[1 + i - 1]
        <5>1. PICK l : l = Append(g, e)
          OBVIOUS
        <5>2. s = SubSeq(l, 1, n) /\ \A i \in 1 .. n : l[i] \in SUBSET Action
          BY <3>3, <4>1, <5>1
        <5>3. /\ s \in Seq(SUBSET Action) /\ Len(s) = (IF 1 <= n THEN n - 1 + 1 ELSE 0)
              /\ \A i \in 1 .. n - 1 + 1 : s[i] = l[1 + i - 1]
          BY <4>2, <5>2, SubSeqProperties
        <5>. QED
          BY <5>1, <5>3
      <4>. QED
        BY <4>2, <4>3, <4>4
    <3>5. s = t
      BY <3>2, <3>4, SeqEqual
    <3>. QED
      BY <3>3, <3>5
  <2>. QED
    BY <2>1, <2>2, <2>3, <2>4, <2>5 DEF IsPrefix
<1>. QED
  BY <1>1, <1>2

LEMMA BehindLonger ==
  ASSUME ZonedInv, NEW h \in Seq(SUBSET Action), NEW a
  PROVE  IsPrefix(h, Behind(h, a))
<1>1. IsPrefix(h, h)
  BY DEF IsPrefix
<1>2. /\ OpsOf(last, a) \in SUBSET Action /\ OpsOf(PutOffGates, a) \in SUBSET Action
      /\ OpsOf(Readout(1), a) \in SUBSET Action /\ OpsOf(Readout(2), a) \in SUBSET Action
      /\ OpsOf(Readout(3), a) \in SUBSET Action
  BY ToDoIs, PushIs
<1>3. PICK g1, g2, g3, g4 :
        /\ g1 = Push(h, OpsOf(last, a)) /\ g2 = Push(g1, OpsOf(PutOffGates, a))
        /\ g3 = Push(g2, OpsOf(Readout(1), a)) /\ g4 = Push(g3, OpsOf(Readout(2), a))
  OBVIOUS
<1>4. g1 \in Seq(SUBSET Action) /\ IsPrefix(h, g1)
  BY <1>1, <1>2, <1>3, PushIs, PushLonger
<1>5. g2 \in Seq(SUBSET Action) /\ IsPrefix(h, g2)
  BY <1>2, <1>3, <1>4, PushIs, PushLonger
<1>6. g3 \in Seq(SUBSET Action) /\ IsPrefix(h, g3)
  BY <1>2, <1>3, <1>5, PushIs, PushLonger
<1>7. g4 \in Seq(SUBSET Action) /\ IsPrefix(h, g4)
  BY <1>2, <1>3, <1>6, PushIs, PushLonger
<1>8. IsPrefix(h, Push(g4, OpsOf(Readout(3), a)))
  BY <1>2, <1>7, PushLonger
<1>. QED
  BY <1>3, <1>8 DEF Behind

\* A step of the planner that leaves the schedule and what is behind it together.
LEMMA InOrderStays ==
  ASSUME InOrder, UNCHANGED cvars, UNCHANGED pvars, stage \notin {"asap", "merge"},
         stage \in {"idle", "done"} /\ Forward =>
           /\ Schedule' \in Seq(SUBSET Action)
           /\ \A a \in Atoms : Behind(History(Schedule, a), a)' = Behind(History(Schedule, a), a)
  PROVE  InOrder'
<1>1. stage' = stage /\ (Forward' => Forward) /\ program' = program
  BY DEF cvars, pvars, Forward
<1>2. program' \in Seq(SUBSET Action) /\ stage' \notin {"asap", "merge"}
  BY <1>1 DEF InOrder
<1>3. ASSUME stage' \in {"idle", "done"}, Forward', NEW a \in Atoms
      PROVE  History(program', a) = Behind(History(Schedule, a), a)'
  <2>1. History(program, a) = Behind(History(Schedule, a), a)
    BY <1>1, <1>3 DEF InOrder
  <2>2. Behind(History(Schedule, a), a)' = Behind(History(Schedule, a), a)
    BY <1>1, <1>3
  <2>. QED
    BY <1>1, <2>1, <2>2
<1>4. stage' \in {"idle", "done"} /\ Forward' => Schedule' \in Seq(SUBSET Action)
  BY <1>1
<1>. QED
  BY <1>2, <1>3, <1>4 DEF InOrder

\* While a layer is planned the schedule is the planner's own.
LEMMA Underway ==
  ASSUME ZonedInv, OrderInv, step # "ready"
  PROVE  /\ ~foreign /\ stage \notin {"asap", "merge"}
         /\ UNCHANGED pvars => Fresh'
BY DEF ZonedInv, Tracked, OrderInv, Fresh, pvars

\* Gates are of the atoms they name.
LEMMA GatesTouch ==
  ASSUME NEW S, NEW g, NEW a, NEW x \in OpsOf({Act("entangle", {g[i][1], g[i][2]}) : i \in S}, a)
  PROVE  \E i \in S : x = Act("entangle", {g[i][1], g[i][2]}) /\ a \in PairSites(g[i])
<1>1. PICK i \in S : x = Act("entangle", {g[i][1], g[i][2]})
  BY DEF OpsOf
<1>2. x.op = "entangle" /\ x.atoms = {g[i][1], g[i][2]}
  BY <1>1 DEF Act
<1>3. a \in x.atoms
  BY <1>2 DEF OpsOf
<1>. QED
  BY <1>1, <1>2, <1>3 DEF PairSites

\* The gates a stage places are of other atoms than those it puts off.
LEMMA AssignInOrder ==
  ASSUME PlanInv, ZonedInv, OrderInv, AssignPairs, UNCHANGED cvars, UNCHANGED pvars
  PROVE  OrderInv'
<1>. DEFINE gate(i) == Act("entangle", {todo[i][1], todo[i][2]})
<1>1. /\ step = "gates" /\ step' = "moving" /\ UNCHANGED <<readouts, out>>
      /\ \E f \in Assignments : last' = last \cup {gate(i) : i \in DOMAIN f} /\ todo' = Deferred(f)
  BY DEF AssignPairs
<1>2. PICK f \in Assignments : last' = last \cup {gate(i) : i \in DOMAIN f} /\ todo' = Deferred(f)
  BY <1>1
<1>3. DOMAIN f \subseteq DOMAIN todo
  BY AssignmentIs DEF ZonedInv
<1>4. DOMAIN todo' = DOMAIN todo \ DOMAIN f /\ \A i \in DOMAIN todo' : todo'[i] = todo[i]
  BY <1>2 DEF Deferred, Restrict
<1>5. PICK F, R : F = {gate(i) : i \in DOMAIN f} /\ R = {gate(i) : i \in DOMAIN todo \ DOMAIN f}
  OBVIOUS
<1>6. last' = last \cup F /\ PutOffGates = F \cup R
  BY <1>2, <1>3, <1>5 DEF PutOffGates
<1>7. PutOffGates' = R
  BY <1>4, <1>5 DEF PutOffGates
<1>8. \A i, j \in DOMAIN todo : i # j => PairSites(todo[i]) \cap PairSites(todo[j]) = {}
  BY DEF ZonedInv, PutOff
<1>9. ASSUME NEW a, OpsOf(F, a) # {} PROVE \E i \in DOMAIN f : a \in PairSites(todo[i])
  BY <1>5, <1>9, GatesTouch
<1>10. ASSUME NEW a, OpsOf(R, a) # {} PROVE \E i \in DOMAIN todo \ DOMAIN f : a \in PairSites(todo[i])
  BY <1>5, <1>10, GatesTouch
<1>11. \A i \in DOMAIN todo : \A a \in PairSites(todo[i]) : OpsOf(last, a) = {}
  BY DEF OrderInv, Apart, PairSites
<1>12. ASSUME NEW h, NEW a
       PROVE  Push(Push(h, OpsOf(last', a)), OpsOf(PutOffGates', a))
                = Push(Push(h, OpsOf(last, a)), OpsOf(PutOffGates, a))
  <2>1. /\ OpsOf(last', a) = OpsOf(last, a) \cup OpsOf(F, a)
        /\ OpsOf(PutOffGates, a) = OpsOf(F, a) \cup OpsOf(R, a)
        /\ OpsOf(PutOffGates', a) = OpsOf(R, a)
    BY <1>6, <1>7, PushIs
  <2>2. CASE OpsOf(F, a) = {}
    BY <2>1, <2>2
  <2>3. CASE OpsOf(F, a) # {}
    <3>1. PICK i \in DOMAIN f : a \in PairSites(todo[i])
      BY <1>9, <2>3
    <3>2. OpsOf(last, a) = {}
      BY <1>3, <1>11, <3>1
    <3>3. OpsOf(R, a) = {}
      BY <1>3, <1>8, <1>10, <3>1
    <3>4. Push(h, {}) = h /\ Push(Push(h, OpsOf(F, a)), {}) = Push(h, OpsOf(F, a))
      BY PushIs
    <3>. QED
      BY <2>1, <3>2, <3>3, <3>4
  <2>. QED
    BY <2>2, <2>3
<1>13. Turns'
  BY <1>1 DEF OrderInv, Turns
<1>14. Apart'
  <2>. SUFFICES ASSUME NEW i \in DOMAIN todo', NEW j \in {1, 2} PROVE OpsOf(last', todo'[i][j]) = {}
    BY DEF Apart
  <2>1. i \in DOMAIN todo \ DOMAIN f /\ todo'[i][j] = todo[i][j] /\ todo[i][j] \in PairSites(todo[i])
    BY <1>4 DEF PairSites
  <2>2. OpsOf(F, todo[i][j]) = {}
    BY <1>3, <1>8, <1>9, <2>1
  <2>3. OpsOf(last, todo[i][j]) = {}
    BY <1>11, <2>1
  <2>4. OpsOf(last \cup F, todo[i][j]) = OpsOf(last, todo[i][j]) \cup OpsOf(F, todo[i][j])
    BY PushIs
  <2>. QED
    BY <1>6, <2>1, <2>2, <2>3, <2>4
<1>15. Fresh' /\ ~foreign /\ stage \notin {"asap", "merge"}
  BY <1>1, Underway
<1>16. InOrder'
  <2>1. ASSUME stage \in {"idle", "done"}, Forward
        PROVE  /\ Schedule' \in Seq(SUBSET Action)
               /\ \A a \in Atoms : Behind(History(Schedule, a), a)' = Behind(History(Schedule, a), a)
    <3>1. Schedule' = Schedule
      BY <1>1, <1>15, <2>1, ScheduleGrows DEF ZonedInv
    <3>2. Schedule \in Seq(SUBSET Action)
      BY <2>1 DEF OrderInv, InOrder
    <3>3. Readout(1)' = Readout(1) /\ Readout(2)' = Readout(2) /\ Readout(3)' = Readout(3)
      BY <1>1 DEF Readout
    <3>4. ASSUME NEW a \in Atoms
          PROVE  Behind(History(Schedule, a), a)' = Behind(History(Schedule, a), a)
      <4>1. PICK h : h = History(Schedule, a)
        OBVIOUS
      <4>2. History(Schedule', a) = h
        BY <3>1, <4>1
      <4>. QED
        BY <1>12, <3>3, <4>1, <4>2 DEF Behind
    <3>. QED
      BY <3>1, <3>2, <3>4
  <2>. QED
    BY <1>15, <2>1, InOrderStays DEF OrderInv
<1>. QED
  BY <1>13, <1>14, <1>15, <1>16 DEF OrderInv

\* The layers of a group have no operation of the program.
LEMMA GroupInOrder ==
  ASSUME PlanInv, ZonedInv, OrderInv, EmitGroup, UNCHANGED cvars, UNCHANGED pvars
  PROVE  OrderInv'
<1>1. PICK joined \in SUBSET DOMAIN moves :
        out' = out \o <<{ActAt("load", moves[k].atom, moves[k].from) : k \in joined},
                        {ActAt("move", moves[k].atom, moves[k].to) : k \in joined},
                        {ActAt("store", moves[k].atom, moves[k].to) : k \in joined}>>
  <2>1. PICK joined \in SUBSET DOMAIN moves :
          LET group == {moves[k] : k \in joined}
          IN out' = out \o <<{ActAt("load", m.atom, m.from) : m \in group},
                             {ActAt("move", m.atom, m.to) : m \in group},
                             {ActAt("store", m.atom, m.to) : m \in group}>>
    BY DEF EmitGroup
  <2>2. PICK group : group = {moves[k] : k \in joined}
    OBVIOUS
  <2>3. /\ {ActAt("load", m.atom, m.from) : m \in group}
             = {ActAt("load", moves[k].atom, moves[k].from) : k \in joined}
        /\ {ActAt("move", m.atom, m.to) : m \in group}
             = {ActAt("move", moves[k].atom, moves[k].to) : k \in joined}
        /\ {ActAt("store", m.atom, m.to) : m \in group}
             = {ActAt("store", moves[k].atom, moves[k].to) : k \in joined}
    BY <2>2
  <2>. QED
    BY <2>1, <2>2, <2>3
<1>2. PICK x, y, z : /\ x = {ActAt("load", moves[k].atom, moves[k].from) : k \in joined}
                     /\ y = {ActAt("move", moves[k].atom, moves[k].to) : k \in joined}
                     /\ z = {ActAt("store", moves[k].atom, moves[k].to) : k \in joined}
  OBVIOUS
<1>3. \A k \in joined : moves[k].atom \in Atoms /\ moves[k].from \in Sites /\ moves[k].to \in Sites
  <2>1. \A k \in DOMAIN moves : /\ moves[k].atom \in Atoms /\ moves[k].from \in Sites
                                /\ moves[k].to = at[moves[k].atom]
    BY DEF ZonedInv, Pending
  <2>2. at \in [Atoms -> Sites]
    BY DEF ZonedInv, LayoutOK
  <2>. QED
    BY <2>1, <2>2
<1>4. ASSUME NEW e \in {x, y, z} PROVE e \in SUBSET Action /\ \A a : OpsOf(e, a) = {}
  <2>1. ASSUME NEW op \in {"load", "move", "store"}, NEW k \in joined, NEW s \in Sites
        PROVE  ActAt(op, moves[k].atom, s) \in Action /\ ActAt(op, moves[k].atom, s).op = op
    BY <1>3 DEF ActAt, Action, Ops
  <2>2. \A u \in e : u \in Action /\ u.op \in {"load", "move", "store"}
    BY <1>2, <1>3, <2>1
  <2>. QED
    BY <2>2 DEF OpsOf
<1>5. UNCHANGED <<step, todo, last, readouts>> /\ step = "moving"
  BY DEF EmitGroup
<1>6. Turns' /\ Apart'
  BY <1>5 DEF OrderInv, Turns, Apart
<1>7. Fresh' /\ ~foreign /\ stage \notin {"asap", "merge"}
  BY <1>5, Underway
<1>8. InOrder'
  <2>1. ASSUME stage \in {"idle", "done"}, Forward
        PROVE  /\ Schedule' \in Seq(SUBSET Action)
               /\ \A a \in Atoms : Behind(History(Schedule, a), a)' = Behind(History(Schedule, a), a)
    <3>1. PICK ls, l1, l2, l3 : /\ ls = Schedule /\ l1 = Append(ls, x)
                                /\ l2 = Append(l1, y) /\ l3 = Append(l2, z)
      OBVIOUS
    <3>2. Schedule' = l3
      BY <1>1, <1>2, <1>7, <2>1, <3>1, ScheduleGrows, ZenonT(60) DEF ZonedInv
    <3>3. /\ ls \in Seq(SUBSET Action) /\ l1 \in Seq(SUBSET Action)
          /\ l2 \in Seq(SUBSET Action) /\ l3 \in Seq(SUBSET Action)
      BY <1>4, <2>1, <3>1 DEF OrderInv, InOrder
    <3>4. ASSUME NEW a \in Atoms PROVE History(l3, a) = History(ls, a)
      <4>1. ASSUME NEW s \in Seq(SUBSET Action), NEW e \in SUBSET Action, OpsOf(e, a) = {}
            PROVE  History(Append(s, e), a) = History(s, a)
        <5>1. History(Append(s, e), a) = Push(History(s, a), OpsOf(e, a))
          BY HistoryNext
        <5>. QED
          BY <4>1, <5>1, PushIs
      <4>2. /\ x \in SUBSET Action /\ y \in SUBSET Action /\ z \in SUBSET Action
            /\ OpsOf(x, a) = {} /\ OpsOf(y, a) = {} /\ OpsOf(z, a) = {}
        BY <1>4
      <4>3. /\ History(Append(ls, x), a) = History(ls, a)
            /\ History(Append(l1, y), a) = History(l1, a)
            /\ History(Append(l2, z), a) = History(l2, a)
        BY <3>3, <4>1, <4>2
      <4>. QED
        BY <3>1, <4>3
    <3>6. ASSUME NEW a \in Atoms
          PROVE  Behind(History(Schedule, a), a)' = Behind(History(Schedule, a), a)
      <4>1. PICK h : h = History(ls, a)
        OBVIOUS
      <4>2. History(Schedule', a) = h /\ History(Schedule, a) = h
        BY <3>1, <3>2, <3>4, <4>1
      <4>. QED
        BY <1>5, <4>2 DEF Behind, PutOffGates, Readout
    <3>. QED
      BY <3>2, <3>3, <3>6
  <2>. QED
    BY <1>7, <2>1, InOrderStays DEF OrderInv
<1>. QED
  BY <1>6, <1>7, <1>8 DEF OrderInv

\* What a stage moved its atoms for is done next.
LEMMA LastInOrder ==
  ASSUME PlanInv, ZonedInv, OrderInv, EmitLast, UNCHANGED cvars, UNCHANGED pvars
  PROVE  OrderInv'
<1>1. /\ step = "moving" /\ out' = Append(out, last) /\ last' = {}
      /\ step' = IF DOMAIN todo # {} THEN "gates" ELSE IF DOMAIN readouts # {} THEN "readout" ELSE "ready"
      /\ UNCHANGED <<todo, readouts>>
  BY DEF EmitLast
<1>2. Turns'
  BY <1>1 DEF OrderInv, Turns
<1>3. \A a : OpsOf({}, a) = {}
  BY PushIs
<1>4. Apart'
  BY <1>1, <1>3 DEF Apart
<1>5. Fresh' /\ ~foreign /\ stage \notin {"asap", "merge"}
  BY <1>1, Underway
<1>6. InOrder'
  <2>1. ASSUME stage \in {"idle", "done"}, Forward
        PROVE  /\ Schedule' \in Seq(SUBSET Action)
               /\ \A a \in Atoms : Behind(History(Schedule, a), a)' = Behind(History(Schedule, a), a)
    <3>1. Schedule' = Append(Schedule, last)
      BY <1>1, <1>5, <2>1, ScheduleGrows DEF ZonedInv
    <3>2. Schedule \in Seq(SUBSET Action) /\ last \in SUBSET Action
      BY <2>1, ToDoIs DEF OrderInv, InOrder
    <3>3. ASSUME NEW a \in Atoms
          PROVE  Behind(History(Schedule, a), a)' = Behind(History(Schedule, a), a)
      <4>1. PICK h : h = History(Schedule, a)
        OBVIOUS
      <4>2. History(Schedule', a) = Push(h, OpsOf(last, a))
        BY <3>1, <3>2, <4>1, HistoryNext
      <4>3. Push(Push(h, OpsOf(last, a)), OpsOf({}, a)) = Push(h, OpsOf(last, a))
        BY <1>3, PushIs
      <4>4. /\ PutOffGates' = PutOffGates /\ Readout(1)' = Readout(1)
            /\ Readout(2)' = Readout(2) /\ Readout(3)' = Readout(3)
        BY <1>1 DEF PutOffGates, Readout
      <4>. QED
        BY <1>1, <4>1, <4>2, <4>3, <4>4 DEF Behind
    <3>. QED
      BY <3>1, <3>2, <3>3
  <2>. QED
    BY <1>5, <2>1, InOrderStays DEF OrderInv
<1>. QED
  BY <1>2, <1>4, <1>5, <1>6 DEF OrderInv

\* The kind of readout that is next is the first that is left.
LEMMA ReadoutInOrder ==
  ASSUME PlanInv, ZonedInv, OrderInv, MoveToReadout, UNCHANGED cvars, UNCHANGED pvars
  PROVE  OrderInv'
<1>1. /\ step = "readout" /\ step' = "moving" /\ last' = ToRead
      /\ readouts' = Restrict(readouts, DOMAIN readouts \ {NextKind}) /\ UNCHANGED <<todo, out>>
  BY DEF MoveToReadout
<1>2. last = {} /\ DOMAIN todo = {}
  BY <1>1 DEF OrderInv, Turns
<1>3. DOMAIN readouts \in SUBSET (1 .. 3) /\ DOMAIN readouts # {}
  BY <1>1 DEF ZonedInv, ToBeRead
<1>4. PICK n \in DOMAIN readouts : \A l \in DOMAIN readouts : n <= l
  <2>1. DOMAIN readouts \in SUBSET Nat
    BY <1>3
  <2>. QED
    BY <1>3, <2>1, LeastElement
<1>5. NextKind = n
  <2>1. NextKind \in DOMAIN readouts /\ \A l \in DOMAIN readouts : NextKind <= l
    BY <1>4 DEF NextKind
  <2>2. NextKind <= n /\ n <= NextKind /\ n \in Int /\ NextKind \in Int
    BY <1>3, <1>4, <2>1
  <2>. QED
    BY <2>2
<1>6. /\ DOMAIN readouts' = DOMAIN readouts \ {n}
      /\ \A k \in DOMAIN readouts' : readouts'[k] = readouts[k]
  BY <1>1, <1>5 DEF Restrict
<1>7. last' = Readout(n)
  BY <1>1, <1>4, <1>5 DEF ToRead, Readout
<1>8. /\ \A k : Readout(k)' = IF k = n THEN {} ELSE Readout(k)
      /\ \A k : k < n => Readout(k) = {}
  <2>1. ASSUME NEW k PROVE Readout(k)' = IF k = n THEN {} ELSE Readout(k)
    BY <1>6 DEF Readout
  <2>2. ASSUME NEW k, k < n PROVE Readout(k) = {}
    <3>1. k \notin DOMAIN readouts
      <4>. SUFFICES ASSUME k \in DOMAIN readouts PROVE FALSE
        OBVIOUS
      <4>1. k \in Int /\ n \in Int /\ n <= k
        BY <1>3, <1>4
      <4>. QED
        BY <2>2, <4>1
    <3>. QED
      BY <3>1 DEF Readout
  <2>. QED
    BY <2>1, <2>2
<1>9. PutOffGates = {} /\ PutOffGates' = {}
  BY <1>1, <1>2 DEF PutOffGates
<1>10. \A a : OpsOf({}, a) = {}
  BY PushIs
<1>11. \A h : Push(h, {}) = h
  BY PushIs
<1>12. ASSUME NEW h, NEW a
       PROVE  Push(Push(Push(Push(Push(h, OpsOf(last', a)), OpsOf(PutOffGates', a)),
                    OpsOf(Readout(1)', a)), OpsOf(Readout(2)', a)), OpsOf(Readout(3)', a))
                = Behind(h, a)
  <2>1. Behind(h, a) = Push(Push(Push(h, OpsOf(Readout(1), a)), OpsOf(Readout(2), a)), OpsOf(Readout(3), a))
    BY <1>2, <1>9, <1>10, <1>11 DEF Behind
  <2>2. n = 1 \/ n = 2 \/ n = 3
    BY <1>3, <1>4
  <2>3. CASE n = 1
    <3>1. Readout(1)' = {} /\ Readout(2)' = Readout(2) /\ Readout(3)' = Readout(3)
      BY <1>8, <2>3
    <3>. QED
      BY <1>7, <1>9, <1>10, <1>11, <2>1, <2>3, <3>1
  <2>4. CASE n = 2
    <3>1. Readout(1)' = {} /\ Readout(2)' = {} /\ Readout(3)' = Readout(3) /\ Readout(1) = {}
      BY <1>8, <2>4
    <3>. QED
      BY <1>7, <1>9, <1>10, <1>11, <2>1, <2>4, <3>1
  <2>5. CASE n = 3
    <3>1. Readout(1)' = {} /\ Readout(2)' = {} /\ Readout(3)' = {} /\ Readout(1) = {} /\ Readout(2) = {}
      BY <1>8, <2>5
    <3>. QED
      BY <1>7, <1>9, <1>10, <1>11, <2>1, <2>5, <3>1
  <2>. QED
    BY <2>2, <2>3, <2>4, <2>5
<1>13. Turns' /\ Apart'
  BY <1>1, <1>2 DEF Turns, Apart
<1>14. Fresh' /\ ~foreign /\ stage \notin {"asap", "merge"}
  BY <1>1, Underway
<1>15. InOrder'
  <2>1. ASSUME stage \in {"idle", "done"}, Forward
        PROVE  /\ Schedule' \in Seq(SUBSET Action)
               /\ \A a \in Atoms : Behind(History(Schedule, a), a)' = Behind(History(Schedule, a), a)
    <3>1. Schedule' = Schedule
      BY <1>1, <1>14, <2>1, ScheduleGrows DEF ZonedInv
    <3>2. Schedule \in Seq(SUBSET Action)
      BY <2>1 DEF OrderInv, InOrder
    <3>3. ASSUME NEW a \in Atoms
          PROVE  Behind(History(Schedule, a), a)' = Behind(History(Schedule, a), a)
      <4>1. PICK h : h = History(Schedule, a)
        OBVIOUS
      <4>2. History(Schedule', a) = h
        BY <3>1, <4>1
      <4>3. Behind(History(Schedule, a), a)'
              = Push(Push(Push(Push(Push(h, OpsOf(last', a)), OpsOf(PutOffGates', a)),
                     OpsOf(Readout(1)', a)), OpsOf(Readout(2)', a)), OpsOf(Readout(3)', a))
        BY <4>2 DEF Behind
      <4>. QED
        BY <1>12, <4>1, <4>3
    <3>. QED
      BY <3>1, <3>2, <3>3
  <2>. QED
    BY <1>14, <2>1, InOrderStays DEF OrderInv
<1>. QED
  BY <1>13, <1>14, <1>15 DEF OrderInv

\* A layer is taken: its gates are not of the atoms of what is beside them.
LEMMA GatesInOrder ==
  ASSUME PlanInv, ZonedInv, OrderInv, NEW gates \in GateLists, NEW rest \in SUBSET Beside(gates),
         GateLayer(gates, rest), program' = Append(program, GatesOf(gates) \cup rest),
         stage = "idle", UNCHANGED cvars, UNCHANGED <<rounds, foreign>>
  PROVE  OrderInv'
<1>1. /\ step = "ready" /\ todo' = gates /\ last' = rest /\ step' = "gates"
      /\ UNCHANGED <<readouts, out>>
  BY DEF GateLayer
<1>2. DOMAIN readouts = {} /\ DOMAIN readouts' = {}
  BY <1>1 DEF OrderInv, Turns
<1>3. ~foreign
  BY DEF PlanInv, PipelineInv
<1>4. program \in Seq(SUBSET Action) /\ Schedule \in Seq(SUBSET Action)
  <2>1. Forward
    BY DEF PlanInv, CompactionInv, Baseline, Forward
  <2>. QED
    BY <2>1 DEF OrderInv, InOrder
<1>5. gates \in Seq(Atoms \X Atoms)
  BY DEF GateLists
<1>6. rest \in SUBSET Action
  BY DEF Beside, Operations
<1>7. GatesOf(gates) = {Act("entangle", {gates[i][1], gates[i][2]}) : i \in DOMAIN gates}
  BY DEF GatesOf, Range
<1>8. GatesOf(gates) \in SUBSET Action
  <2>1. ASSUME NEW i \in DOMAIN gates PROVE Act("entangle", {gates[i][1], gates[i][2]}) \in Action
    <3>1. gates[i] \in Atoms \X Atoms
      BY <1>5
    <3>. QED
      BY <3>1 DEF Act, Action, Ops
  <2>. QED
    BY <1>7, <2>1
<1>9. PutOffGates' = GatesOf(gates)
  BY <1>1, <1>7 DEF PutOffGates
<1>10. ASSUME NEW i \in DOMAIN gates, NEW a \in PairSites(gates[i]) PROVE OpsOf(rest, a) = {}
  <2>1. \A x \in rest : x.op # "ry" /\ a \notin x.atoms
    BY DEF Beside
  <2>. QED
    BY <2>1 DEF OpsOf
<1>11. ASSUME NEW h, NEW a
       PROVE  Push(Push(h, OpsOf(rest, a)), OpsOf(GatesOf(gates), a))
                = Push(h, OpsOf(GatesOf(gates) \cup rest, a))
  <2>1. OpsOf(GatesOf(gates) \cup rest, a) = OpsOf(GatesOf(gates), a) \cup OpsOf(rest, a)
    BY PushIs
  <2>2. \A g : Push(g, {}) = g
    BY PushIs
  <2>3. CASE OpsOf(GatesOf(gates), a) = {}
    BY <2>1, <2>2, <2>3
  <2>4. CASE OpsOf(GatesOf(gates), a) # {}
    <3>1. PICK i \in DOMAIN gates : a \in PairSites(gates[i])
      BY <1>7, <2>4, GatesTouch
    <3>2. OpsOf(rest, a) = {}
      BY <1>10, <3>1
    <3>. QED
      BY <2>1, <2>2, <3>2
  <2>. QED
    BY <2>3, <2>4
<1>12. Turns'
  BY <1>1, <1>2 DEF Turns
<1>13. Apart'
  <2>. SUFFICES ASSUME NEW i \in DOMAIN gates, NEW j \in {1, 2} PROVE OpsOf(rest, gates[i][j]) = {}
    BY <1>1 DEF Apart
  <2>1. gates[i][j] \in PairSites(gates[i])
    BY DEF PairSites
  <2>. QED
    BY <1>10, <2>1
<1>14. Len(program') = Len(program) + 1 /\ program' \in Seq(SUBSET Action)
  BY <1>4, <1>6, <1>8
<1>15. Fresh'
  <2>1. program' # <<>>
    BY <1>4, <1>14
  <2>. QED
    BY <1>3, <2>1 DEF OrderInv, Fresh
<1>16. InOrder'
  <2>1. stage' = "idle"
    BY DEF cvars
  <2>2. Schedule' = Schedule
    BY <1>1, <1>3, ScheduleGrows DEF ZonedInv
  <2>3. ASSUME NEW a \in Atoms PROVE History(program', a) = Behind(History(Schedule, a), a)'
    <3>1. PICK h : h = History(Schedule, a)
      OBVIOUS
    <3>2. History(program, a) = h
      <4>1. Forward
        BY DEF PlanInv, CompactionInv, Baseline, Forward
      <4>2. History(program, a) = Behind(h, a)
        BY <3>1, <4>1 DEF OrderInv, InOrder
      <4>. QED
        BY <1>1, <4>2, BehindNothing DEF OrderInv
    <3>3. GatesOf(gates) \cup rest \in SUBSET Action
      BY <1>6, <1>8
    <3>4. History(program', a) = Push(h, OpsOf(GatesOf(gates) \cup rest, a))
      BY <1>4, <3>2, <3>3, HistoryNext
    <3>5. Readout(1)' = {} /\ Readout(2)' = {} /\ Readout(3)' = {}
      BY <1>2 DEF Readout
    <3>6. Behind(History(Schedule, a), a)'
            = Push(Push(h, OpsOf(rest, a)), OpsOf(GatesOf(gates), a))
      <4>1. History(Schedule', a) = h
        BY <2>2, <3>1
      <4>2. OpsOf({}, a) = {} /\ \A g : Push(g, {}) = g
        BY PushIs
      <4>. QED
        BY <1>1, <1>9, <3>5, <4>1, <4>2 DEF Behind
    <3>. QED
      BY <1>11, <3>4, <3>6
  <2>. QED
    BY <1>4, <1>14, <2>1, <2>2, <2>3 DEF InOrder
<1>. QED
  BY <1>12, <1>13, <1>15, <1>16 DEF OrderInv

\* one without a gate,
LEMMA PassInOrder ==
  ASSUME PlanInv, ZonedInv, OrderInv, NEW layer \in SUBSET Operations,
         PassLayer(layer), program' = Append(program, layer),
         stage = "idle", UNCHANGED cvars, UNCHANGED <<rounds, foreign>>
  PROVE  OrderInv'
<1>1. step = "ready" /\ out' = Append(out, layer) /\ UNCHANGED <<step, todo, last, readouts>>
  BY DEF PassLayer
<1>2. Turns' /\ Apart'
  BY <1>1 DEF OrderInv, Turns, Apart
<1>3. ~foreign
  BY DEF PlanInv, PipelineInv
<1>4. Forward
  BY DEF PlanInv, CompactionInv, Baseline, Forward
<1>5. program \in Seq(SUBSET Action) /\ Schedule \in Seq(SUBSET Action) /\ layer \in SUBSET Action
  BY <1>4 DEF OrderInv, InOrder, Operations
<1>6. Len(program') = Len(program) + 1 /\ program' \in Seq(SUBSET Action)
  BY <1>5
<1>7. Fresh'
  <2>1. program' # <<>>
    BY <1>5, <1>6
  <2>. QED
    BY <1>3, <2>1 DEF OrderInv, Fresh
<1>8. Schedule' = Append(Schedule, layer)
  BY <1>1, <1>3, ScheduleGrows DEF ZonedInv
<1>9. ASSUME NEW a \in Atoms PROVE History(program', a) = Behind(History(Schedule, a), a)'
  <2>1. History(program, a) = Behind(History(Schedule, a), a)
    BY <1>4 DEF OrderInv, InOrder
  <2>2. History(program, a) = History(Schedule, a)
    BY <1>1, <2>1, BehindNothing DEF OrderInv
  <2>3. History(program', a) = Push(History(program, a), OpsOf(layer, a))
    BY <1>5, HistoryNext
  <2>4. History(Schedule', a) = Push(History(Schedule, a), OpsOf(layer, a))
    BY <1>5, <1>8, HistoryNext
  <2>5. PICK h : h = History(Schedule', a)
    OBVIOUS
  <2>6. Behind(h, a) = h
    BY <1>1, BehindNothing DEF OrderInv
  <2>7. Behind(History(Schedule, a), a)' = Behind(h, a)
    BY <1>1, <2>5 DEF Behind, PutOffGates, Readout
  <2>. QED
    BY <2>2, <2>3, <2>4, <2>5, <2>6, <2>7
<1>10. InOrder'
  <2>1. stage' = "idle" /\ Schedule' \in Seq(SUBSET Action)
    BY <1>5, <1>8 DEF cvars
  <2>. QED
    BY <1>6, <1>9, <2>1 DEF InOrder
<1>. QED
  BY <1>2, <1>7, <1>10 DEF OrderInv

\* one to read out, kind by kind.
LEMMA ReadoutTaken ==
  ASSUME Turns, NEW acts \in SUBSET Readouts, ReadoutLayer(acts)
  PROVE  /\ step = "ready" /\ step' = "readout" /\ out' = out /\ Turns' /\ Apart'
         /\ \A h, a : Push(Push(Push(Push(Push(h, OpsOf(last', a)), OpsOf(PutOffGates', a)),
                           OpsOf(Readout(1)', a)), OpsOf(Readout(2)', a)), OpsOf(Readout(3)', a))
              = Push(Push(Push(h, OpsOf(OfKind(acts, "measure"), a)),
                          OpsOf(OfKind(acts, "reset"), a)), OpsOf(OfKind(acts, "reuse"), a))
<1>. DEFINE kinds == {k \in DOMAIN ReadoutKinds : OfKind(acts, ReadoutKinds[k]) # {}}
            others == {x \in acts : x.op \notin Range(ReadoutKinds)}
<1>1. /\ step = "ready" /\ step' = "readout"
      /\ out' = IF others = {} THEN out ELSE Append(out, others)
      /\ readouts' = [k \in kinds |-> OfKind(acts, ReadoutKinds[k])]
      /\ UNCHANGED <<todo, last>>
  BY DEF ReadoutLayer
<1>2. /\ DOMAIN ReadoutKinds = 1 .. 3 /\ ReadoutKinds[1] = "measure"
      /\ ReadoutKinds[2] = "reset" /\ ReadoutKinds[3] = "reuse"
  BY DEF ReadoutKinds
<1>3. others = {}
  <2>1. {"measure", "reset", "reuse"} \subseteq Range(ReadoutKinds)
    BY <1>2 DEF Range
  <2>2. \A x \in acts : x.op \in {"measure", "reset", "reuse"}
    BY DEF Readouts
  <2>. QED
    BY <2>1, <2>2
<1>4. last' = {} /\ DOMAIN todo' = {} /\ PutOffGates' = {}
  BY <1>1 DEF Turns, PutOffGates
<1>5. \A k \in 1 .. 3 : Readout(k)' = OfKind(acts, ReadoutKinds[k])
  <2>1. DOMAIN readouts' = kinds
    BY <1>1
  <2>2. \A k \in 1 .. 3 : k \notin kinds => OfKind(acts, ReadoutKinds[k]) = {}
    BY <1>2
  <2>. HIDE DEF kinds
  <2>. QED
    BY <1>1, <2>1, <2>2 DEF Readout
<1>6. /\ Readout(1)' = OfKind(acts, "measure") /\ Readout(2)' = OfKind(acts, "reset")
      /\ Readout(3)' = OfKind(acts, "reuse")
  BY <1>2, <1>5
<1>7. \A a : OpsOf({}, a) = {}
  BY PushIs
<1>8. \A h : Push(h, {}) = h
  BY PushIs
<1>9. Turns' /\ Apart'
  BY <1>1, <1>4 DEF Turns, Apart
<1>. QED
  BY <1>1, <1>3, <1>4, <1>6, <1>7, <1>8, <1>9

\* The readout of a round,
LEMMA RoundInOrder ==
  ASSUME PlanInv, ZonedInv, OrderInv, NEW acts \in SUBSET Readouts, ReadoutLayer(acts),
         program' = program \o ReadoutGroups(acts), stage = "idle",
         rounds' = rounds + 1, UNCHANGED cvars, foreign' = foreign
  PROVE  OrderInv'
<1>1. Turns'
  BY ReadoutTaken DEF OrderInv
<1>2. Apart' /\ step = "ready" /\ out' = out
  BY ReadoutTaken DEF OrderInv
<1>3. ~foreign /\ Forward
  BY DEF PlanInv, PipelineInv, CompactionInv, Baseline, Forward
<1>4. Fresh'
  BY <1>3 DEF OrderInv, Fresh
<1>5. acts \in SUBSET Action
  BY DEF Readouts
<1>6. program \in Seq(SUBSET Action) /\ Schedule \in Seq(SUBSET Action)
  BY <1>3 DEF OrderInv, InOrder
<1>7. Schedule' = Schedule
  BY <1>2, <1>3, ScheduleGrows DEF ZonedInv
<1>8. program' \in Seq(SUBSET Action)
  BY <1>5, <1>6, ReadoutHistory
<1>9. ASSUME NEW a \in Atoms PROVE History(program', a) = Behind(History(Schedule, a), a)'
  <2>1. PICK h : h = History(Schedule, a)
    OBVIOUS
  <2>2. History(program, a) = Behind(h, a)
    BY <1>3, <2>1 DEF OrderInv, InOrder
  <2>3. Behind(h, a) = h
    BY <1>2, BehindNothing DEF OrderInv
  <2>4. History(program', a)
          = Push(Push(Push(h, OpsOf(OfKind(acts, "measure"), a)),
                      OpsOf(OfKind(acts, "reset"), a)), OpsOf(OfKind(acts, "reuse"), a))
    <3>1. History(program \o ReadoutGroups(acts), a)
            = Push(Push(Push(History(program, a), OpsOf(OfKind(acts, "measure"), a)),
                        OpsOf(OfKind(acts, "reset"), a)), OpsOf(OfKind(acts, "reuse"), a))
      BY <1>5, <1>6, ReadoutHistory
    <3>. QED
      BY <2>2, <2>3, <3>1
  <2>5. History(Schedule', a) = h
    BY <1>7, <2>1
  <2>6. Behind(History(Schedule, a), a)'
          = Push(Push(Push(Push(Push(h, OpsOf(last', a)), OpsOf(PutOffGates', a)),
                 OpsOf(Readout(1)', a)), OpsOf(Readout(2)', a)), OpsOf(Readout(3)', a))
    BY <2>5 DEF Behind
  <2>7. Behind(History(Schedule, a), a)'
          = Push(Push(Push(h, OpsOf(OfKind(acts, "measure"), a)),
                      OpsOf(OfKind(acts, "reset"), a)), OpsOf(OfKind(acts, "reuse"), a))
    BY <2>6, ReadoutTaken DEF OrderInv
  <2>. QED
    BY <2>4, <2>7
<1>10. InOrder'
  <2>1. stage' = "idle"
    BY DEF cvars
  <2>. QED
    BY <1>6, <1>7, <1>8, <1>9, <2>1 DEF InOrder
<1>. QED
  BY <1>1, <1>2, <1>4, <1>10 DEF OrderInv

\* and that of a circuit, behind what was compacted.
LEMMA MeasureInOrder ==
  ASSUME PlanInv, ZonedInv, OrderInv, NEW measured \in SUBSET Atoms, TerminalMeasure(measured)
  PROVE  OrderInv'
<1>. DEFINE acts == {Act("measure", {a}) : a \in measured}
<1>1. /\ stage = "done" /\ ~foreign /\ ReadoutLayer(acts) /\ program' = Append(program, acts)
      /\ UNCHANGED cvars /\ UNCHANGED <<rounds, foreign>>
  BY DEF TerminalMeasure
<1>2. acts \in SUBSET Readouts /\ \A x \in acts : x.op = "measure"
  BY DEF Readouts, Action, Act, Ops
<1>. HIDE DEF acts
<1>3. OfKind(acts, "measure") = acts /\ OfKind(acts, "reset") = {} /\ OfKind(acts, "reuse") = {}
  BY <1>2 DEF OfKind
<1>4. Turns' /\ Apart' /\ step = "ready" /\ out' = out
  BY <1>1, <1>2, ReadoutTaken DEF OrderInv
<1>5. program \in Seq(SUBSET Action) /\ acts \in SUBSET Action
  BY <1>2 DEF OrderInv, InOrder, Readouts
<1>6. Len(program') = Len(program) + 1 /\ program' \in Seq(SUBSET Action)
  BY <1>1, <1>5
<1>7. Fresh'
  <2>1. program' # <<>>
    BY <1>5, <1>6
  <2>. QED
    BY <1>1, <2>1 DEF OrderInv, Fresh
<1>8. ASSUME Forward
      PROVE  /\ Schedule' \in Seq(SUBSET Action)
             /\ \A a \in Atoms : History(program', a) = Behind(History(Schedule, a), a)'
  <2>1. Schedule \in Seq(SUBSET Action)
    BY <1>1, <1>8 DEF OrderInv, InOrder
  <2>2. Schedule' = Schedule
    BY <1>1, <1>4, ScheduleGrows DEF ZonedInv
  <2>3. ASSUME NEW a \in Atoms PROVE History(program', a) = Behind(History(Schedule, a), a)'
    <3>1. PICK h : h = History(Schedule, a)
      OBVIOUS
    <3>2. History(program, a) = Behind(h, a)
      BY <1>1, <1>8, <3>1 DEF OrderInv, InOrder
    <3>3. Behind(h, a) = h
      BY <1>4, BehindNothing DEF OrderInv
    <3>4. History(program', a) = Push(h, OpsOf(acts, a))
      <4>1. History(Append(program, acts), a) = Push(History(program, a), OpsOf(acts, a))
        BY <1>5, HistoryNext
      <4>. QED
        BY <1>1, <3>2, <3>3, <4>1
    <3>5. History(Schedule', a) = h
      BY <2>2, <3>1
    <3>6. Behind(History(Schedule, a), a)'
            = Push(Push(Push(Push(Push(h, OpsOf(last', a)), OpsOf(PutOffGates', a)),
                   OpsOf(Readout(1)', a)), OpsOf(Readout(2)', a)), OpsOf(Readout(3)', a))
      BY <3>5 DEF Behind
    <3>7. Behind(History(Schedule, a), a)'
            = Push(Push(Push(h, OpsOf(OfKind(acts, "measure"), a)),
                        OpsOf(OfKind(acts, "reset"), a)), OpsOf(OfKind(acts, "reuse"), a))
      BY <1>1, <1>2, <3>6, ReadoutTaken DEF OrderInv
    <3>8. OpsOf({}, a) = {} /\ \A g : Push(g, {}) = g
      BY PushIs
    <3>. QED
      BY <1>3, <3>4, <3>7, <3>8
  <2>. QED
    BY <2>1, <2>2, <2>3
<1>9. InOrder'
  <2>1. stage' = "done" /\ (Forward' => Forward)
    BY <1>1 DEF cvars, Forward
  <2>. QED
    BY <1>6, <1>8, <2>1 DEF InOrder
<1>. QED
  BY <1>4, <1>7, <1>9 DEF OrderInv

\* A schedule is handed over, the planned one or a given one.
LEMMA SubmittedInOrder ==
  ASSUME PlanInv, ZonedInv, OrderInv, Compact
  PROVE  OrderInv'
<1>1. /\ stage = "idle" /\ step = "ready" /\ out' = <<>>
      /\ UNCHANGED <<step, todo, last, readouts, program, rounds, foreign>>
      /\ Submit(out, CallerDeps(out))
  BY DEF Compact, Planning, pvars
<1>2. Turns' /\ Apart' /\ Fresh'
  BY <1>1 DEF OrderInv, Turns, Apart, Fresh
<1>3. (stage' = "asap" /\ input' = out) \/ stage' = "refused"
  BY <1>1 DEF Submit
<1>4. program \in Seq(SUBSET Action)
  BY DEF OrderInv, InOrder
<1>5. /\ out \in Seq(SUBSET Action)
      /\ \A a \in Atoms : History(program, a) = History(out, a)
  <2>1. Forward
    BY <1>1 DEF PlanInv, CompactionInv, Baseline, Forward
  <2>2. Schedule = out
    BY <1>1, ScheduleIs
  <2>3. \A h, a : Behind(h, a) = h
    BY <1>1, BehindNothing DEF OrderInv
  <2>. QED
    BY <1>1, <2>1, <2>2, <2>3 DEF OrderInv, InOrder
<1>6. InOrder'
  <2>1. CASE stage' = "refused"
    BY <1>1, <1>4, <2>1 DEF InOrder
  <2>2. CASE stage' = "asap" /\ input' = out
    BY <1>1, <1>4, <1>5, <2>2 DEF InOrder
  <2>. QED
    BY <1>3, <2>1, <2>2
<1>. QED
  BY <1>2, <1>6 DEF OrderInv

LEMMA GivenInOrder ==
  ASSUME OrderInv, NEW ls \in Seq(SUBSET Action), NEW caller, CompactForeign(ls, caller)
  PROVE  OrderInv'
<1>1. /\ step = "ready" /\ program = <<>> /\ rounds = 0 /\ rounds' = rounds /\ program' = ls /\ foreign'
      /\ UNCHANGED <<step, todo, last, readouts, out>> /\ Submit(ls, caller)
  BY DEF CompactForeign, Planning, zvars
<1>2. Turns' /\ Apart' /\ Fresh'
  BY <1>1 DEF OrderInv, Turns, Apart, Fresh
<1>3. (stage' = "asap" /\ input' = ls) \/ stage' = "refused"
  BY <1>1 DEF Submit
<1>4. InOrder'
  BY <1>1, <1>3 DEF InOrder
<1>. QED
  BY <1>2, <1>4 DEF OrderInv

\* Compaction ends with the histories of what it was given.
LEMMA CompactionInOrder ==
  ASSUME PlanInv, ZonedInv, OrderInv, CompactionNext, UNCHANGED zvars, UNCHANGED pvars
  PROVE  OrderInv'
<1>1. /\ UNCHANGED <<step, todo, last, readouts, out, program, rounds, foreign>>
      /\ stage \in {"asap", "merge"} /\ UNCHANGED <<input, deps>>
  BY DEF zvars, pvars, CompactionNext, AsapStep, SortByCycle, Merge, Finish
<1>2. step = "ready" /\ out = <<>>
  BY <1>1 DEF ZonedInv, Tracked, OrderInv, Fresh
<1>3. Turns' /\ Apart' /\ Fresh'
  BY <1>1 DEF OrderInv, Turns, Apart, Fresh
<1>4. /\ program' \in Seq(SUBSET Action) /\ input \in Seq(SUBSET Action)
      /\ \A a \in Atoms : History(program, a) = History(input, a)
  BY <1>1 DEF OrderInv, InOrder
<1>5. CASE stage' \in {"asap", "merge", "refused"}
  BY <1>1, <1>4, <1>5, <1>3 DEF OrderInv, InOrder
<1>6. CASE stage' = "done"
  <2>1. stage = "merge" /\ UNCHANGED layers
    BY <1>6 DEF CompactionNext, AsapStep, SortByCycle, Merge, Finish
  <2>2. ASSUME Forward'
        PROVE  /\ Schedule' \in Seq(SUBSET Action)
               /\ \A a \in Atoms : History(program', a) = Behind(History(Schedule, a), a)'
    <3>1. Forward /\ Compacting
      BY <1>1, <2>1, <2>2 DEF Forward, Compacting
    <3>2. PICK L : L = ActsOf(layers)
      OBVIOUS
    <3>3. L \in Seq(SUBSET Action) /\ \A a \in Atoms : History(L, a) = History(input, a)
      BY <1>4, <3>1, <3>2, CompactedHistory
    <3>4. Schedule' = L
      <4>1. Schedule' = L \o <<>>
        BY <1>1, <1>2, <1>6, <2>1, <3>2 DEF Schedule, ActsOf
      <4>. QED
        BY <3>3, <4>1, ConcatEmptySeq
    <3>5. ASSUME NEW a \in Atoms PROVE History(program', a) = Behind(History(Schedule, a), a)'
      <4>1. PICK h : h = History(L, a)
        OBVIOUS
      <4>2. Behind(h, a) = h
        BY <1>2, BehindNothing DEF OrderInv
      <4>3. History(Schedule', a) = h
        BY <3>4, <4>1
      <4>4. Behind(History(Schedule, a), a)' = Behind(h, a)
        BY <1>1, <4>3 DEF Behind, PutOffGates, Readout
      <4>. QED
        BY <1>1, <1>4, <3>3, <4>1, <4>2, <4>4
    <3>. QED
      BY <3>3, <3>4, <3>5
  <2>3. InOrder'
    BY <1>4, <1>6, <2>2 DEF InOrder
  <2>. QED
    BY <1>3, <2>3 DEF OrderInv
<1>7. stage' \in {"asap", "merge", "refused", "done"}
  BY <1>1 DEF CompactionNext, AsapStep, SortByCycle, Merge, Finish
<1>. QED
  BY <1>5, <1>6, <1>7

\* Every step keeps the order,
LEMMA OrderKeeps ==
  ASSUME PlanInv, ZonedInv, OrderInv, [Next]_vars
  PROVE  OrderInv'
<1>0. ASSUME Refuse, UNCHANGED pvars PROVE OrderInv'
  <2>1. stage' = "refused" /\ UNCHANGED <<step, todo, last, readouts, out, program, rounds, foreign>>
    BY <1>0 DEF Refuse, zvars, pvars
  <2>. QED
    BY <2>1 DEF OrderInv, Turns, Apart, Fresh, InOrder
<1>1. ASSUME NEW gates \in GateLists, NEW rest \in SUBSET Beside(gates), PlanGates(gates, rest)
      PROVE  OrderInv'
  <2>1. CASE /\ GateLayer(gates, rest) /\ UNCHANGED cvars
             /\ program' = Append(program, GatesOf(gates) \cup rest)
    BY <1>1, <2>1, GatesInOrder DEF PlanGates, Planning
  <2>2. CASE TooManyGates(gates) /\ UNCHANGED program
    <3>1. Refuse /\ UNCHANGED pvars
      BY <1>1, <2>2 DEF TooManyGates, PlanGates, pvars
    <3>. QED
      BY <1>0, <3>1
  <2>. QED
    BY <1>1, <2>1, <2>2 DEF PlanGates
<1>2. ASSUME NEW layer \in SUBSET Operations, PlanLocal(layer) PROVE OrderInv'
  BY <1>2, PassInOrder DEF PlanLocal, Planning
<1>3. ASSUME NEW acts \in SUBSET Readouts, EndRound(acts) PROVE OrderInv'
  BY <1>3, RoundInOrder DEF EndRound, Planning
<1>4. CASE Compact
  BY <1>4, SubmittedInOrder
<1>5. ASSUME NEW measured \in SUBSET Atoms, TerminalMeasure(measured) PROVE OrderInv'
  BY <1>5, MeasureInOrder
<1>6. ASSUME NEW ls \in Seq(SUBSET Action), NEW caller, CompactForeign(ls, caller) PROVE OrderInv'
  BY <1>6, GivenInOrder
<1>7. CASE PlanStep
  <2>1. CASE ZonedStep /\ UNCHANGED cvars /\ UNCHANGED pvars
    BY <2>1, AssignInOrder, GroupInOrder, LastInOrder, ReadoutInOrder DEF ZonedStep
  <2>2. CASE ZonedRefusal /\ stage # "refused" /\ UNCHANGED pvars
    BY <1>0, <2>2 DEF ZonedRefusal, NoLegalPair, ReadoutFull
  <2>3. CASE CompactionNext /\ UNCHANGED zvars /\ UNCHANGED pvars
    BY <2>3, CompactionInOrder
  <2>. QED
    BY <1>7, <2>1, <2>2, <2>3 DEF PlanStep
<1>8. CASE UNCHANGED vars
  <2>1. /\ UNCHANGED <<step, todo, last, readouts, out, program, rounds, foreign>>
        /\ UNCHANGED <<stage, input, deps, layers>>
    BY <1>8 DEF vars, zvars, pvars, cvars
  <2>2. Turns' /\ Apart' /\ Fresh'
    BY <2>1 DEF OrderInv, Turns, Apart, Fresh
  <2>3. Schedule' = Schedule /\ (Forward' => Forward)
    BY <2>1 DEF Schedule, Forward
  <2>4. ASSUME NEW a \in Atoms PROVE Behind(History(Schedule, a), a)' = Behind(History(Schedule, a), a)
    <3>1. PICK h : h = History(Schedule, a)
      OBVIOUS
    <3>2. History(Schedule', a) = h
      BY <2>3, <3>1
    <3>. QED
      BY <2>1, <3>1, <3>2 DEF Behind, PutOffGates, Readout
  <2>5. InOrder'
    BY <2>1, <2>3, <2>4 DEF OrderInv, InOrder
  <2>. QED
    BY <2>2, <2>5 DEF OrderInv
<1>. QED
  BY <1>1, <1>2, <1>3, <1>4, <1>5, <1>6, <1>7, <1>8 DEF Next

\* and at first there is nothing.
LEMMA InitOrder ==
  ASSUME Init
  PROVE  OrderInv
<1>1. /\ step = "ready" /\ todo = <<>> /\ last = {} /\ readouts = <<>> /\ out = <<>>
      /\ stage = "idle" /\ program = <<>> /\ rounds = 0 /\ foreign = FALSE
  BY DEF Init, ZonedInit, CompactionInit
<1>2. DOMAIN todo = {} /\ DOMAIN readouts = {}
  BY <1>1
<1>3. Turns /\ Apart /\ Fresh
  BY <1>1, <1>2 DEF Turns, Apart, Fresh
<1>4. Schedule = <<>> /\ <<>> \in Seq(SUBSET Action)
  BY <1>1, ScheduleIs
<1>5. \A h, a : Behind(h, a) = h
  BY <1>1, <1>3, BehindNothing
<1>6. InOrder
  BY <1>1, <1>4, <1>5 DEF InOrder
<1>. QED
  BY <1>3, <1>6 DEF OrderInv

LEMMA OrderInductive == Spec => []OrderInv
<1>1. Init => OrderInv
  BY InitOrder
<1>2. PlanInv /\ ZonedInv /\ OrderInv /\ [Next]_vars => OrderInv'
  BY OrderKeeps
<1>. QED
  BY <1>1, <1>2, Inductive, ZonedInductive, PTL DEF Spec

\* ProgramOrderKept follows.
LEMMA OrderFollows ==
  ASSUME PlanInv, ZonedInv, OrderInv
  PROVE  ProgramOrderKept
<1>. SUFFICES ASSUME Settled, Forward, NEW a \in Atoms
              PROVE  IF step = "ready" THEN History(Schedule, a) = History(program, a)
                     ELSE IsPrefix(History(Schedule, a), History(program, a))
  BY DEF ProgramOrderKept
<1>1. CASE stage \in {"idle", "done"}
  <2>1. PICK h : h = History(Schedule, a)
    OBVIOUS
  <2>2. Schedule \in Seq(SUBSET Action) /\ History(program, a) = Behind(h, a)
    BY <1>1, <2>1 DEF OrderInv, InOrder
  <2>3. CASE step = "ready"
    <3>1. Behind(h, a) = h
      BY <2>3, BehindNothing DEF OrderInv
    <3>. QED
      BY <2>1, <2>2, <2>3, <3>1
  <2>4. CASE step # "ready"
    <3>1. h \in Seq(SUBSET Action)
      <4>1. {} \in SUBSET Action
        OBVIOUS
      <4>. QED
        BY <2>1, <2>2, <4>1, HistoryNext
    <3>2. IsPrefix(h, Behind(h, a))
      BY <3>1, BehindLonger
    <3>. QED
      BY <2>1, <2>2, <2>4, <3>2
  <2>. QED
    BY <2>3, <2>4
<1>2. CASE stage = "merge"
  <2>1. step = "ready" /\ out = <<>>
    BY <1>2 DEF ZonedInv, Tracked, OrderInv, Fresh
  <2>2. input \in Seq(SUBSET Action) /\ History(program, a) = History(input, a)
    BY <1>2 DEF OrderInv, InOrder
  <2>3. PICK L : L = ActsOf(layers)
    OBVIOUS
  <2>4. L \in Seq(SUBSET Action) /\ History(L, a) = History(input, a)
    BY <1>2, <2>2, <2>3, CompactedHistory DEF Compacting
  <2>5. Schedule = L
    <3>1. Schedule = L \o <<>>
      BY <1>2, <2>1, <2>3, ScheduleIs
    <3>. QED
      BY <2>4, <3>1, ConcatEmptySeq
  <2>. QED
    BY <2>1, <2>2, <2>4, <2>5
<1>. QED
  BY <1>1, <1>2 DEF Settled

--------------------------------------------------------------------------------
(* The critical path.                                                          *)

\* Dependencies between the layers 1 .. n that point forward.
ForwardEdges(E, n) == \A e \in E : e[1] \in 1 .. n /\ e[2] \in 1 .. n /\ e[1] < e[2]

\* The longest chains to the layers 1 .. v.
LongestUpTo(E, t, v) ==
  /\ t \in Seq(Nat) /\ Len(t) = v
  /\ \A k \in 1 .. v : /\ t[k] \in 1 .. k
                       /\ t[k] = 1 + MaxOf({t[e[1]] : e \in {g \in E : g[2] = k}})

\* One layer more.
ToNext(E, t, v) ==
  Append(t, 1 + MaxOf({IF e[1] < v THEN t[e[1]] ELSE 1 : e \in {g \in E : g[2] = v}}))

LEMMA ToNextIs ==
  ASSUME NEW n \in Nat, NEW E, ForwardEdges(E, n), NEW v \in 1 .. n, NEW t, LongestUpTo(E, t, v - 1)
  PROVE  LongestUpTo(E, ToNext(E, t, v), v)
<1>. DEFINE S == {t[e[1]] : e \in {g \in E : g[2] = v}}
<1>1. {IF e[1] < v THEN t[e[1]] ELSE 1 : e \in {g \in E : g[2] = v}} = S
  BY DEF ForwardEdges
<1>2. PICK u \in Nat : u = v - 1 /\ v = u + 1
  BY SMT
<1>3. t \in Seq(Nat) /\ Len(t) = u /\ \A k \in 1 .. u : t[k] \in 1 .. k
  BY <1>2 DEF LongestUpTo
<1>4. S \in SUBSET (0 .. u)
  <2>1. ASSUME NEW e \in E, e[2] = v PROVE t[e[1]] \in 0 .. u
    <3>1. e[1] \in 1 .. u
      BY <1>2, <2>1 DEF ForwardEdges
    <3>2. t[e[1]] \in 1 .. e[1]
      BY <1>3, <3>1
    <3>. QED
      BY <3>1, <3>2
  <2>. QED
    BY <2>1
<1>5. PICK x : x = 1 + MaxOf(S)
  OBVIOUS
<1>6. x \in 1 .. v
  <2>1. MaxOf(S) \in 0 .. u
    BY <1>4, MaxOfIsGreatest
  <2>. QED
    BY <1>2, <1>5, <2>1
<1>7. PICK s : s = Append(t, x)
  OBVIOUS
<1>8. /\ s \in Seq(Nat) /\ Len(s) = v /\ s[v] = x
      /\ \A k \in 1 .. u : s[k] = t[k]
  BY <1>2, <1>3, <1>6, <1>7
<1>9. ASSUME NEW k \in 1 .. v
      PROVE  s[k] \in 1 .. k /\ s[k] = 1 + MaxOf({s[e[1]] : e \in {g \in E : g[2] = k}})
  <2>1. \A e \in E : e[2] = k => s[e[1]] = t[e[1]]
    <3>1. \A e \in E : e[2] = k => e[1] \in 1 .. u
      BY <1>2 DEF ForwardEdges
    <3>. QED
      BY <1>8, <3>1
  <2>2. {s[e[1]] : e \in {g \in E : g[2] = k}} = {t[e[1]] : e \in {g \in E : g[2] = k}}
    BY <2>1
  <2>3. CASE k = v
    BY <1>5, <1>6, <1>8, <2>2, <2>3
  <2>4. CASE k # v
    <3>1. k \in 1 .. u
      BY <1>2, <2>4
    <3>2. t[k] \in 1 .. k /\ t[k] = 1 + MaxOf({t[e[1]] : e \in {g \in E : g[2] = k}})
      BY <1>2, <3>1 DEF LongestUpTo
    <3>. QED
      BY <1>8, <2>2, <3>1, <3>2
  <2>. QED
    BY <2>3, <2>4
<1>10. ToNext(E, t, v) = s
  BY <1>1, <1>5, <1>7 DEF ToNext
<1>11. LongestUpTo(E, s, v)
  BY <1>8, <1>9 DEF LongestUpTo
<1>. QED
  BY <1>10, <1>11

\* The sweep over the layers.
ToSweep(E, n, f) == f = [v \in 0 .. n |-> IF v = 0 THEN <<>> ELSE ToNext(E, f[v - 1], v)]

LEMMA ToSweepExists ==
  ASSUME NEW n \in Nat, NEW E
  PROVE  \E f : ToSweep(E, n, f)
<1>. DEFINE Bad == {m \in Nat : \A f : ~ToSweep(E, m, f)}
<1>1. SUFFICES ASSUME Bad # {} PROVE FALSE
  OBVIOUS
<1>2. PICK m \in Bad : \A j \in Bad : m <= j
  BY <1>1, LeastElement
<1>3. CASE m = 0
  <2>. DEFINE f == [v \in 0 .. m |-> <<>>]
  <2>1. f = [v \in 0 .. m |-> IF v = 0 THEN <<>> ELSE ToNext(E, f[v - 1], v)]
    BY <1>3
  <2>2. ToSweep(E, m, f)
    BY <2>1 DEF ToSweep
  <2>. QED
    BY <2>2
<1>4. CASE m # 0
  <2>1. m - 1 \in Nat /\ m - 1 \notin Bad
    BY <1>2, <1>4
  <2>2. PICK f : ToSweep(E, m - 1, f)
    BY <2>1
  <2>3. f = [v \in 0 .. m - 1 |-> IF v = 0 THEN <<>> ELSE ToNext(E, f[v - 1], v)]
    BY <2>2 DEF ToSweep
  <2>. DEFINE h == [v \in 0 .. m |-> IF v = m THEN ToNext(E, f[m - 1], m) ELSE f[v]]
  <2>4. \A v \in 0 .. m : v # 0 => v - 1 \in 0 .. m /\ h[v - 1] = f[v - 1]
    BY <2>1
  <2>5. \A v \in 0 .. m : h[v] = IF v = 0 THEN <<>> ELSE ToNext(E, h[v - 1], v)
    <3>. TAKE v \in 0 .. m
    <3>1. CASE v = m
      BY <1>4, <2>4, <3>1
    <3>2. CASE v # m
      <4>1. v \in 0 .. m - 1 /\ h[v] = f[v]
        BY <2>1, <3>2
      <4>2. f[v] = IF v = 0 THEN <<>> ELSE ToNext(E, f[v - 1], v)
        BY <2>3, <4>1
      <4>. QED
        BY <2>4, <4>1, <4>2
    <3>. QED
      BY <3>1, <3>2
  <2>6. h = [v \in 0 .. m |-> IF v = 0 THEN <<>> ELSE ToNext(E, h[v - 1], v)]
    <3>1. h = [v \in 0 .. m |-> h[v]]
      OBVIOUS
    <3>. HIDE DEF h
    <3>. QED
      BY <2>5, <3>1
  <2>7. ToSweep(E, m, h)
    <3>. HIDE DEF h
    <3>. QED
      BY <2>6 DEF ToSweep
  <2>. QED
    BY <2>7
<1>. QED
  BY <1>3, <1>4

\* What LongestTo computes.
LEMMA LongestToIs ==
  ASSUME NEW ls, NEW n \in Nat, Len(ls) = n, NEW E, ForwardEdges(E, n)
  PROVE  LongestUpTo(E, LongestTo(E, ls), n)
<1>. DEFINE f == CHOOSE f : ToSweep(E, n, f)
<1>1. LongestTo(E, ls) = f[n]
  BY DEF LongestTo, ToSweep, ToNext
<1>2. f = [v \in 0 .. n |-> IF v = 0 THEN <<>> ELSE ToNext(E, f[v - 1], v)]
  <2>1. ToSweep(E, n, f)
    BY ToSweepExists
  <2>. QED
    BY <2>1 DEF ToSweep
<1>. HIDE DEF f
<1>. DEFINE Bad == {v \in 0 .. n : ~LongestUpTo(E, f[v], v)}
<1>3. SUFFICES ASSUME Bad # {} PROVE FALSE
  BY <1>1
<1>4. PICK v \in Bad : \A j \in Bad : v <= j
  <2>1. Bad \in SUBSET Nat
    OBVIOUS
  <2>. QED
    BY <1>3, <2>1, LeastElement
<1>5. CASE v = 0
  <2>1. f[v] = <<>>
    BY <1>2, <1>5
  <2>2. LongestUpTo(E, <<>>, 0)
    BY DEF LongestUpTo
  <2>. QED
    BY <1>4, <1>5, <2>1, <2>2
<1>6. CASE v # 0
  <2>1. v \in 1 .. n /\ v - 1 \in 0 .. n /\ v - 1 \notin Bad
    BY <1>4, <1>6
  <2>2. LongestUpTo(E, f[v - 1], v - 1)
    BY <2>1
  <2>3. f[v] = ToNext(E, f[v - 1], v)
    BY <1>2, <1>6, <2>1
  <2>. QED
    BY <1>4, <2>1, <2>2, <2>3, ToNextIs
<1>. QED
  BY <1>5, <1>6
\* The longest chains from the layers v .. n; the sweep goes back.
LongestDownTo(E, t, n, v) ==
  /\ t \in Seq(Nat) /\ Len(t) = n + 1 - v
  /\ \A k \in v .. n :
       /\ t[k - v + 1] \in 1 .. n + 1 - k
       /\ t[k - v + 1] = 1 + MaxOf({t[e[2] - v + 1] : e \in {g \in E : g[1] = k}})

FromNext(E, t, v) ==
  <<1 + MaxOf({IF e[2] > v THEN t[e[2] - v] ELSE 0 : e \in {g \in E : g[1] = v}})>> \o t

LEMMA FromNextIs ==
  ASSUME NEW n \in Nat, NEW E, ForwardEdges(E, n), NEW v \in 1 .. n, NEW t,
         LongestDownTo(E, t, n, v + 1)
  PROVE  LongestDownTo(E, FromNext(E, t, v), n, v)
<1>. DEFINE S == {t[e[2] - v] : e \in {g \in E : g[1] = v}}
<1>1. {IF e[2] > v THEN t[e[2] - v] ELSE 0 : e \in {g \in E : g[1] = v}} = S
  BY DEF ForwardEdges
<1>2. PICK u \in Nat : u = n - v
  BY SMT
<1>3. t \in Seq(Nat) /\ Len(t) = u /\ \A k \in v + 1 .. n : t[k - v] \in 1 .. n + 1 - k
  <2>1. t \in Seq(Nat) /\ Len(t) = n + 1 - (v + 1)
    BY DEF LongestDownTo
  <2>2. ASSUME NEW k \in v + 1 .. n PROVE t[k - v] \in 1 .. n + 1 - k
    <3>1. k - (v + 1) + 1 = k - v
      OBVIOUS
    <3>2. t[k - (v + 1) + 1] \in 1 .. n + 1 - k
      BY DEF LongestDownTo
    <3>. QED
      BY <3>1, <3>2
  <2>. QED
    BY <1>2, <2>1, <2>2
<1>4. S \in SUBSET (0 .. u)
  <2>1. ASSUME NEW e \in E, e[1] = v PROVE t[e[2] - v] \in 0 .. u
    <3>1. e[2] \in v + 1 .. n
      BY <2>1 DEF ForwardEdges
    <3>2. t[e[2] - v] \in 1 .. n + 1 - e[2]
      BY <1>3, <3>1
    <3>. QED
      BY <1>2, <3>1, <3>2
  <2>. QED
    BY <2>1
<1>5. PICK x : x = 1 + MaxOf(S)
  OBVIOUS
<1>6. x \in 1 .. n + 1 - v
  <2>1. MaxOf(S) \in 0 .. u
    BY <1>4, MaxOfIsGreatest
  <2>. QED
    BY <1>2, <1>5, <2>1
<1>7. PICK s : s = <<x>> \o t
  OBVIOUS
<1>8. /\ s \in Seq(Nat) /\ Len(s) = n + 1 - v /\ s[1] = x
      /\ \A k \in v + 1 .. n : s[k - v + 1] = t[k - v]
  <2>1. <<x>> \in Seq(Nat) /\ Len(<<x>>) = 1 /\ <<x>>[1] = x
    BY <1>6
  <2>2. s \in Seq(Nat) /\ Len(s) = 1 + u /\ s[1] = x
    BY <1>3, <1>7, <2>1
  <2>3. ASSUME NEW k \in v + 1 .. n PROVE s[k - v + 1] = t[k - v]
    <3>1. PICK j : j = k - v + 1 /\ j \in 2 .. u + 1 /\ k - v = j - 1
      BY <1>2
    <3>2. s[j] = t[j - 1]
      BY <1>3, <1>7, <2>1, <3>1
    <3>. QED
      BY <3>1, <3>2
  <2>. QED
    BY <1>2, <2>2, <2>3
<1>9. ASSUME NEW k \in v .. n
      PROVE  /\ s[k - v + 1] \in 1 .. n + 1 - k
             /\ s[k - v + 1] = 1 + MaxOf({s[e[2] - v + 1] : e \in {g \in E : g[1] = k}})
  <2>1. \A e \in E : e[1] = k => e[2] \in k + 1 .. n /\ s[e[2] - v + 1] = t[e[2] - v]
    <3>1. \A e \in E : e[1] = k => e[2] \in k + 1 .. n /\ e[2] \in v + 1 .. n
      BY DEF ForwardEdges
    <3>. QED
      BY <1>8, <3>1
  <2>2. {s[e[2] - v + 1] : e \in {g \in E : g[1] = k}} = {t[e[2] - v] : e \in {g \in E : g[1] = k}}
    BY <2>1
  <2>3. CASE k = v
    <3>1. k - v + 1 = 1
      BY <2>3
    <3>. QED
      BY <1>5, <1>6, <1>8, <2>2, <2>3, <3>1
  <2>4. CASE k # v
    <3>1. k \in v + 1 .. n /\ k - (v + 1) + 1 = k - v
      BY <2>4
    <3>2. /\ t[k - v] \in 1 .. n + 1 - k
          /\ t[k - v] = 1 + MaxOf({t[e[2] - (v + 1) + 1] : e \in {g \in E : g[1] = k}})
      BY <3>1 DEF LongestDownTo
    <3>3. {t[e[2] - (v + 1) + 1] : e \in {g \in E : g[1] = k}} = {t[e[2] - v] : e \in {g \in E : g[1] = k}}
      <4>1. \A e \in E : e[1] = k => e[2] - (v + 1) + 1 = e[2] - v
        BY <2>1
      <4>. QED
        BY <4>1
    <3>. QED
      BY <1>8, <2>2, <3>1, <3>2, <3>3
  <2>. QED
    BY <2>3, <2>4
<1>10. FromNext(E, t, v) = s
  BY <1>1, <1>5, <1>7 DEF FromNext
<1>11. LongestDownTo(E, s, n, v)
  BY <1>8, <1>9 DEF LongestDownTo
<1>. QED
  BY <1>10, <1>11

\* The sweep, from layer m on.
FromSweep(E, n, m, f) == f = [v \in m .. n + 1 |-> IF v > n THEN <<>> ELSE FromNext(E, f[v + 1], v)]

LEMMA FromSweepExists ==
  ASSUME NEW n \in Nat, NEW E
  PROVE  \E f : FromSweep(E, n, 1, f)
<1>. DEFINE Bad == {m \in 0 .. n : \A f : ~FromSweep(E, n, n + 1 - m, f)}
<1>0. SUFFICES ASSUME Bad # {} PROVE FALSE
  <2>1. n \notin Bad /\ n \in 0 .. n /\ n + 1 - n = 1
    OBVIOUS
  <2>. QED
    BY <2>1
<1>2. PICK m \in Bad : \A j \in Bad : m <= j
  <2>1. Bad \in SUBSET Nat
    OBVIOUS
  <2>. QED
    BY <1>0, <2>1, LeastElement
<1>3. PICK p \in Nat : p = n + 1 - m
  BY <1>2
<1>4. CASE m = 0
  <2>. DEFINE f == [v \in p .. n + 1 |-> <<>>]
  <2>1. f = [v \in p .. n + 1 |-> IF v > n THEN <<>> ELSE FromNext(E, f[v + 1], v)]
    BY <1>3, <1>4
  <2>2. FromSweep(E, n, p, f)
    BY <2>1 DEF FromSweep
  <2>. QED
    BY <1>3, <2>2
<1>5. CASE m # 0
  <2>1. m - 1 \in 0 .. n /\ m - 1 \notin Bad /\ n + 1 - (m - 1) = p + 1 /\ p <= n
    BY <1>2, <1>3, <1>5
  <2>2. PICK f : FromSweep(E, n, p + 1, f)
    BY <2>1
  <2>3. f = [v \in p + 1 .. n + 1 |-> IF v > n THEN <<>> ELSE FromNext(E, f[v + 1], v)]
    BY <2>2 DEF FromSweep
  <2>. DEFINE h == [v \in p .. n + 1 |-> IF v = p THEN FromNext(E, f[p + 1], p) ELSE f[v]]
  <2>4. \A v \in p .. n + 1 : v <= n => v + 1 \in p .. n + 1 /\ h[v + 1] = f[v + 1]
    BY <2>1
  <2>5. \A v \in p .. n + 1 : h[v] = IF v > n THEN <<>> ELSE FromNext(E, h[v + 1], v)
    <3>. TAKE v \in p .. n + 1
    <3>1. CASE v = p
      BY <2>1, <2>4, <3>1
    <3>2. CASE v # p
      <4>1. v \in p + 1 .. n + 1 /\ h[v] = f[v]
        BY <3>2
      <4>2. f[v] = IF v > n THEN <<>> ELSE FromNext(E, f[v + 1], v)
        BY <2>3, <4>1
      <4>. QED
        BY <2>4, <4>1, <4>2
    <3>. QED
      BY <3>1, <3>2
  <2>6. h = [v \in p .. n + 1 |-> IF v > n THEN <<>> ELSE FromNext(E, h[v + 1], v)]
    <3>1. h = [v \in p .. n + 1 |-> h[v]]
      OBVIOUS
    <3>. HIDE DEF h
    <3>. QED
      BY <2>5, <3>1
  <2>7. FromSweep(E, n, p, h)
    <3>. HIDE DEF h
    <3>. QED
      BY <2>6 DEF FromSweep
  <2>. QED
    BY <1>3, <2>7
<1>. QED
  BY <1>4, <1>5

\* What LongestFrom computes.
LEMMA LongestFromIs ==
  ASSUME NEW ls, NEW n \in Nat, Len(ls) = n, NEW E, ForwardEdges(E, n)
  PROVE  LongestDownTo(E, LongestFrom(E, ls), n, 1)
<1>. DEFINE f == CHOOSE f : FromSweep(E, n, 1, f)
<1>1. LongestFrom(E, ls) = f[1]
  BY DEF LongestFrom, FromSweep, FromNext
<1>2. f = [v \in 1 .. n + 1 |-> IF v > n THEN <<>> ELSE FromNext(E, f[v + 1], v)]
  <2>1. FromSweep(E, n, 1, f)
    BY FromSweepExists
  <2>. QED
    BY <2>1 DEF FromSweep
<1>. HIDE DEF f
<1>. DEFINE Bad == {v \in 0 .. n : ~LongestDownTo(E, f[n + 1 - v], n, n + 1 - v)}
<1>3. SUFFICES ASSUME Bad # {} PROVE FALSE
  <2>1. n \in 0 .. n /\ n + 1 - n = 1
    OBVIOUS
  <2>2. LongestDownTo(E, f[n + 1 - n], n, n + 1 - n)
    BY <2>1
  <2>. QED
    BY <1>1, <2>1, <2>2
<1>4. PICK v \in Bad : \A j \in Bad : v <= j
  <2>1. Bad \in SUBSET Nat
    OBVIOUS
  <2>. QED
    BY <1>3, <2>1, LeastElement
<1>5. PICK p : p \in 1 .. n + 1 /\ p = n + 1 - v
  BY <1>4
<1>6. CASE v = 0
  <2>1. p = n + 1
    BY <1>5, <1>6
  <2>2. f[p] = <<>>
    BY <1>2, <2>1
  <2>3. LongestDownTo(E, <<>>, n, n + 1)
    BY DEF LongestDownTo
  <2>. QED
    BY <1>4, <1>5, <2>1, <2>2, <2>3
<1>7. CASE v # 0
  <2>1. p \in 1 .. n /\ v - 1 \in 0 .. n /\ v - 1 \notin Bad /\ n + 1 - (v - 1) = p + 1
    BY <1>4, <1>5, <1>7
  <2>2. LongestDownTo(E, f[p + 1], n, p + 1)
    BY <2>1
  <2>3. f[p] = FromNext(E, f[p + 1], p)
    BY <1>2, <2>1
  <2>. QED
    BY <1>4, <1>5, <2>1, <2>2, <2>3, FromNextIs
<1>. QED
  BY <1>6, <1>7
\* The layers a chain of m layers ends at, of what the recursion knows of them.
EndsSweep(E, m, f) ==
  f = [k \in 1 .. m |-> IF k = 1 THEN DOMAIN layers
                        ELSE LET before == f[k - 1] IN {e[2] : e \in {g \in E : g[1] \in before}}]

\* They are those of a rank that counts the layers of the longest chain.
LEMMA ChainEndsAre ==
  ASSUME NEW E, NEW r,
         \A v \in DOMAIN layers : r[v] \in Nat /\ r[v] >= 1,
         \A e \in E : e[2] \in DOMAIN layers,
         \A k \in Nat : \A v \in DOMAIN layers :
           r[v] >= k + 2 <=> \E e \in E : e[2] = v /\ e[1] \in DOMAIN layers /\ r[e[1]] >= k + 1,
         NEW m \in Nat, m >= 1
  PROVE  ChainEnds(E, m) = {v \in DOMAIN layers : r[v] >= m}
<1>. DEFINE At(k) == {v \in DOMAIN layers : r[v] >= k}
            f == CHOOSE f : EndsSweep(E, m, f)
            h == [k \in 1 .. m |-> At(k)]
<1>1. ChainEnds(E, m) = f[m]
  BY DEF ChainEnds, EndsSweep
<1>2. ASSUME NEW k \in 1 .. m, k # 1
      PROVE  At(k) = {e[2] : e \in {g \in E : g[1] \in At(k - 1)}}
  <2>1. PICK j \in Nat : k = j + 2 /\ k - 1 = j + 1
    <3>1. k - 2 \in Nat /\ k = (k - 2) + 2 /\ k - 1 = (k - 2) + 1
      BY <1>2
    <3>. QED
      BY <3>1
  <2>2. \A v \in DOMAIN layers :
           r[v] >= k <=> \E e \in E : e[2] = v /\ e[1] \in DOMAIN layers /\ r[e[1]] >= k - 1
    BY <2>1
  <2>. QED
    BY <2>2
<1>3. At(1) = DOMAIN layers
  OBVIOUS
<1>. HIDE DEF At
<1>4. \A k \in 1 .. m : h[k] = IF k = 1 THEN DOMAIN layers ELSE {e[2] : e \in {g \in E : g[1] \in h[k - 1]}}
  <2>1. \A k \in 1 .. m : k # 1 => k - 1 \in 1 .. m
    OBVIOUS
  <2>2. \A k \in 1 .. m : h[k] = At(k)
    OBVIOUS
  <2>. HIDE DEF h
  <2>. TAKE k \in 1 .. m
  <2>3. CASE k = 1
    BY <1>3, <2>2, <2>3
  <2>4. CASE k # 1
    <3>1. At(k) = {e[2] : e \in {g \in E : g[1] \in At(k - 1)}}
      BY <1>2, <2>4
    <3>2. h[k] = At(k) /\ h[k - 1] = At(k - 1)
      BY <2>1, <2>2, <2>4
    <3>. QED
      BY <2>4, <3>1, <3>2
  <2>. QED
    BY <2>3, <2>4
<1>5. EndsSweep(E, m, h)
  <2>1. h = [k \in 1 .. m |-> h[k]]
    OBVIOUS
  <2>. HIDE DEF h
  <2>. QED
    BY <1>4, <2>1 DEF EndsSweep
<1>6. EndsSweep(E, m, f)
  <2>. HIDE DEF h
  <2>. QED
    BY <1>5
<1>7. f = [k \in 1 .. m |-> IF k = 1 THEN DOMAIN layers ELSE {e[2] : e \in {g \in E : g[1] \in f[k - 1]}}]
  <2>. HIDE DEF f, h
  <2>. QED
    BY <1>6 DEF EndsSweep
<1>. HIDE DEF f, h
<1>. DEFINE Bad == {k \in 1 .. m : f[k] # At(k)}
<1>8. SUFFICES ASSUME Bad # {} PROVE FALSE
  <2>1. m \in 1 .. m /\ f[m] = At(m)
    OBVIOUS
  <2>. QED
    BY <1>1, <2>1 DEF At
<1>9. PICK k \in Bad : \A j \in Bad : k <= j
  <2>1. Bad \in SUBSET Nat
    OBVIOUS
  <2>. QED
    BY <1>8, <2>1, LeastElement
<1>10. CASE k = 1
  BY <1>3, <1>7, <1>9, <1>10
<1>11. CASE k # 1
  <2>1. k - 1 \in 1 .. m /\ k - 1 \notin Bad
    BY <1>9, <1>11
  <2>2. f[k] = {e[2] : e \in {g \in E : g[1] \in f[k - 1]}}
    BY <1>7, <1>9, <1>11
  <2>3. f[k - 1] = At(k - 1)
    BY <2>1
  <2>4. k \in 1 .. m /\ f[k] # At(k)
    BY <1>9
  <2>5. At(k) = {e[2] : e \in {g \in E : g[1] \in At(k - 1)}}
    BY <1>2, <1>11, <2>4
  <2>. QED
    BY <2>2, <2>3, <2>4, <2>5
<1>. QED
  BY <1>10, <1>11
\* What the proof uses of the two: a rank that an edge raises, and by one on some edge.
ChainRank(E, r, D) ==
  /\ \A v \in D : r[v] \in Nat /\ r[v] >= 1
  /\ \A e \in E : e[1] \in D /\ e[2] \in D /\ r[e[2]] >= r[e[1]] + 1
  /\ \A v \in D : r[v] >= 2 => \E e \in E : e[2] = v /\ r[e[1]] = r[v] - 1

Backwards(E) == {<<e[2], e[1]>> : e \in E}

LEMMA ToIsRank ==
  ASSUME NEW n \in Nat, NEW E, ForwardEdges(E, n), NEW t, LongestUpTo(E, t, n)
  PROVE  ChainRank(E, t, 1 .. n)
<1>1. \A k \in 1 .. n : t[k] \in 1 .. k
  BY DEF LongestUpTo
<1>2. ASSUME NEW k \in 1 .. n
      PROVE  /\ \A e \in E : e[2] = k => t[k] >= t[e[1]] + 1
             /\ t[k] >= 2 => \E e \in E : e[2] = k /\ t[e[1]] = t[k] - 1
  <2>. DEFINE S == {t[e[1]] : e \in {g \in E : g[2] = k}}
  <2>1. t[k] = 1 + MaxOf(S)
    BY DEF LongestUpTo
  <2>2. \A e \in E : t[e[1]] \in 0 .. n
    <3>1. \A e \in E : e[1] \in 1 .. n
      BY DEF ForwardEdges
    <3>2. \A i \in 1 .. n : t[i] \in 0 .. n
      BY <1>1
    <3>. QED
      BY <3>1, <3>2
  <2>3. S \in SUBSET (0 .. n)
    BY <2>2
  <2>4. MaxOf(S) \in 0 .. n /\ (S # {} => MaxOf(S) \in S /\ \A j \in S : j <= MaxOf(S))
    BY <2>3, MaxOfIsGreatest
  <2>5. \A e \in E : e[2] = k => t[e[1]] \in S
    OBVIOUS
  <2>6. \A e \in E : e[2] = k => t[e[1]] <= MaxOf(S)
    BY <2>4, <2>5
  <2>7. S = {} => t[k] = 1
    BY <2>1 DEF MaxOf
  <2>8. t[k] >= 2 => MaxOf(S) \in S
    <3>1. t[k] >= 2 => S # {}
      <4>. HIDE DEF S
      <4>. QED
        BY <2>7
    <3>. HIDE DEF S
    <3>. QED
      BY <2>4, <3>1
  <2>9. t[k] >= 2 => \E e \in E : e[2] = k /\ t[e[1]] = MaxOf(S)
    BY <2>8
  <2>10. t[k] - 1 = MaxOf(S)
    BY <2>1, <2>4
  <2>. HIDE DEF S
  <2>. QED
    BY <2>1, <2>2, <2>4, <2>6, <2>9, <2>10
<1>. QED
  BY <1>1, <1>2 DEF ChainRank, ForwardEdges

LEMMA FromIsRank ==
  ASSUME NEW n \in Nat, NEW E, ForwardEdges(E, n), NEW t, LongestDownTo(E, t, n, 1)
  PROVE  ChainRank(Backwards(E), t, 1 .. n)
<1>1. \A k \in 1 .. n : t[k] \in 1 .. n
  <2>. TAKE k \in 1 .. n
  <2>1. k - 1 + 1 = k
    OBVIOUS
  <2>2. t[k - 1 + 1] \in 1 .. n + 1 - k
    BY DEF LongestDownTo
  <2>. QED
    BY <2>1, <2>2
<1>2. ASSUME NEW k \in 1 .. n
      PROVE  /\ \A e \in E : e[1] = k => t[k] >= t[e[2]] + 1
             /\ t[k] >= 2 => \E e \in E : e[1] = k /\ t[e[2]] = t[k] - 1
  <2>. DEFINE S == {t[e[2]] : e \in {g \in E : g[1] = k}}
  <2>1. t[k] = 1 + MaxOf(S)
    <3>1. t[k - 1 + 1] = 1 + MaxOf({t[e[2] - 1 + 1] : e \in {g \in E : g[1] = k}})
      BY DEF LongestDownTo
    <3>2. \A e \in E : e[2] - 1 + 1 = e[2]
      BY DEF ForwardEdges
    <3>3. {t[e[2] - 1 + 1] : e \in {g \in E : g[1] = k}} = S
      BY <3>2
    <3>4. k - 1 + 1 = k
      OBVIOUS
    <3>. QED
      BY <3>1, <3>3, <3>4
  <2>2. \A e \in E : t[e[2]] \in 0 .. n
    <3>1. \A e \in E : e[2] \in 1 .. n
      BY DEF ForwardEdges
    <3>2. \A i \in 1 .. n : t[i] \in 0 .. n
      BY <1>1
    <3>. QED
      BY <3>1, <3>2
  <2>3. S \in SUBSET (0 .. n)
    BY <2>2
  <2>4. MaxOf(S) \in 0 .. n /\ (S # {} => MaxOf(S) \in S /\ \A j \in S : j <= MaxOf(S))
    BY <2>3, MaxOfIsGreatest
  <2>5. \A e \in E : e[1] = k => t[e[2]] \in S
    OBVIOUS
  <2>6. \A e \in E : e[1] = k => t[e[2]] <= MaxOf(S)
    BY <2>4, <2>5
  <2>7. S = {} => t[k] = 1
    BY <2>1 DEF MaxOf
  <2>8. t[k] >= 2 => MaxOf(S) \in S
    <3>1. t[k] >= 2 => S # {}
      <4>. HIDE DEF S
      <4>. QED
        BY <2>7
    <3>. HIDE DEF S
    <3>. QED
      BY <2>4, <3>1
  <2>9. t[k] >= 2 => \E e \in E : e[1] = k /\ t[e[2]] = MaxOf(S)
    BY <2>8
  <2>10. t[k] - 1 = MaxOf(S)
    BY <2>1, <2>4
  <2>. HIDE DEF S
  <2>. QED
    BY <2>1, <2>2, <2>4, <2>6, <2>9, <2>10
<1>3. ASSUME NEW b \in Backwards(E)
      PROVE  b[1] \in 1 .. n /\ b[2] \in 1 .. n /\ t[b[2]] >= t[b[1]] + 1
  <2>1. PICK e \in E : b = <<e[2], e[1]>>
    BY DEF Backwards
  <2>2. b[1] = e[2] /\ b[2] = e[1] /\ e[1] \in 1 .. n /\ e[2] \in 1 .. n
    BY <2>1 DEF ForwardEdges
  <2>. QED
    BY <1>2, <2>2
<1>4. ASSUME NEW k \in 1 .. n, t[k] >= 2
      PROVE  \E b \in Backwards(E) : b[2] = k /\ t[b[1]] = t[k] - 1
  <2>1. PICK e \in E : e[1] = k /\ t[e[2]] = t[k] - 1
    BY <1>2, <1>4
  <2>2. PICK b : b = <<e[2], e[1]>> /\ b \in Backwards(E)
    BY DEF Backwards
  <2>. QED
    BY <2>1, <2>2
<1>. QED
  BY <1>1, <1>3, <1>4 DEF ChainRank

\* A rank is the number of layers of the longest chain.
LEMMA RankEnds ==
  ASSUME NEW E, NEW r, ChainRank(E, r, DOMAIN layers), NEW m \in Nat, m >= 1
  PROVE  ChainEnds(E, m) = {v \in DOMAIN layers : r[v] >= m}
<1>1. \A v \in DOMAIN layers : r[v] \in Nat /\ r[v] >= 1
  BY DEF ChainRank
<1>2. \A e \in E : e[1] \in DOMAIN layers /\ e[2] \in DOMAIN layers /\ r[e[2]] >= r[e[1]] + 1
  BY DEF ChainRank
<1>3. ASSUME NEW k \in Nat, NEW v \in DOMAIN layers
      PROVE  r[v] >= k + 2 <=> \E e \in E : e[2] = v /\ e[1] \in DOMAIN layers /\ r[e[1]] >= k + 1
  <2>1. ASSUME r[v] >= k + 2
        PROVE  \E e \in E : e[2] = v /\ e[1] \in DOMAIN layers /\ r[e[1]] >= k + 1
    <3>1. r[v] >= 2
      BY <1>1, <2>1
    <3>2. PICK e \in E : e[2] = v /\ r[e[1]] = r[v] - 1
      BY <3>1 DEF ChainRank
    <3>. QED
      BY <1>1, <1>2, <2>1, <3>2
  <2>2. ASSUME NEW e \in E, e[2] = v, e[1] \in DOMAIN layers, r[e[1]] >= k + 1
        PROVE  r[v] >= k + 2
    BY <1>1, <1>2, <2>2
  <2>. QED
    BY <2>1, <2>2
<1>. QED
  BY <1>1, <1>2, <1>3, ChainEndsAre

\* No layer has chains to it and from it that are longer together than the longest.
LEMMA ChainsAdd ==
  ASSUME NEW E, NEW D, NEW t, NEW r, ChainRank(E, t, D), ChainRank(Backwards(E), r, D), NEW v \in D
  PROVE  \E w \in D : t[w] >= t[v] + r[v] - 1
<1>. DEFINE Bad == {r[u] : u \in {x \in D : \A w \in D : ~(t[w] >= t[x] + r[x] - 1)}}
<1>1. \A x \in D : t[x] \in Nat /\ r[x] \in Nat /\ r[x] >= 1
  BY DEF ChainRank
<1>2. SUFFICES ASSUME Bad # {} PROVE FALSE
  OBVIOUS
<1>3. PICK k \in Bad : \A j \in Bad : k <= j
  <2>1. Bad \in SUBSET Nat
    BY <1>1
  <2>. QED
    BY <1>2, <2>1, LeastElement
<1>4. PICK x \in D : k = r[x] /\ \A w \in D : ~(t[w] >= t[x] + r[x] - 1)
  BY <1>3
<1>5. ~(t[x] >= t[x] + r[x] - 1)
  BY <1>4
<1>6. r[x] >= 2
  BY <1>1, <1>5
<1>7. PICK b \in Backwards(E) : b[2] = x /\ r[b[1]] = r[x] - 1
  BY <1>6 DEF ChainRank
<1>8. PICK e \in E : b = <<e[2], e[1]>>
  BY <1>7 DEF Backwards
<1>9. e[1] = x /\ r[e[2]] = r[x] - 1 /\ e[2] \in D /\ t[e[2]] >= t[x] + 1
  <2>1. e[1] = x /\ r[e[2]] = r[x] - 1
    BY <1>7, <1>8
  <2>2. e[2] \in D /\ t[e[2]] >= t[e[1]] + 1
    BY DEF ChainRank
  <2>. QED
    BY <2>1, <2>2
<1>10. r[e[2]] \notin Bad
  <2>1. r[e[2]] < k
    BY <1>1, <1>4, <1>9
  <2>2. k \in Nat /\ r[e[2]] \in Nat
    BY <1>1, <1>4, <1>9
  <2>. HIDE DEF Bad
  <2>. QED
    BY <1>3, <2>1, <2>2
<1>11. PICK w \in D : t[w] >= t[e[2]] + r[e[2]] - 1
  BY <1>9, <1>10
<1>12. t[w] >= t[x] + r[x] - 1
  BY <1>1, <1>9, <1>11
<1>. QED
  BY <1>4, <1>12
--------------------------------------------------------------------------------
(* The report is of the layers that are handed out.                            *)

ReportInv ==
  /\ stage \in {"asap", "merge", "done"} => 1 \in DOMAIN input
  /\ stage = "done" =>
       \E E : /\ E = VertexEdges(layers)
              /\ report = CriticalPath(LongestTo(E, layers), LongestFrom(E, layers))

\* Dependencies point to later layers of the output.
LEMMA EdgesForward ==
  ASSUME Baseline, Sound(layers), NEW n \in Nat, Len(layers) = n
  PROVE  ForwardEdges(VertexEdges(layers), n)
<1>1. DOMAIN layers = 1 .. n
  BY DEF Sound
<1>2. ASSUME NEW e \in VertexEdges(layers)
      PROVE  e[1] \in 1 .. n /\ e[2] \in 1 .. n /\ e[1] < e[2]
  <2>1. PICK d \in deps : e = <<VertexOf(layers, d.before), VertexOf(layers, d.after)>>
    BY DEF VertexEdges
  <2>2. PICK i, j : i = VertexOf(layers, d.before) /\ j = VertexOf(layers, d.after)
    OBVIOUS
  <2>3. d.before \in DOMAIN input /\ d.after \in DOMAIN input
    BY DEF Baseline
  <2>4. /\ i \in 1 .. n /\ j \in 1 .. n
        /\ CycleOf(layers, d.before) = i - 1 /\ CycleOf(layers, d.after) = j - 1
    BY <1>1, <2>2, <2>3, CycleIsPlace
  <2>5. CycleOf(layers, d.before) < CycleOf(layers, d.after)
    BY DEF Sound, OrderKept
  <2>6. e = <<i, j>>
    BY <2>1, <2>2
  <2>7. i < j
    BY <2>4, <2>5
  <2>. QED
    BY <2>4, <2>6, <2>7
<1>. QED
  BY <1>2 DEF ForwardEdges

\* The property follows.
LEMMA CriticalPathFollows ==
  ASSUME PlanInv, ReportInv
  PROVE  CriticalPathIsLongestChain
<1>. SUFFICES ASSUME stage = "done", Forward
              PROVE  LET E == VertexEdges(layers)
                         n == report.length
                     IN /\ ChainEnds(E, n) # {} /\ ChainEnds(E, n + 1) = {}
                        /\ report.critical =
                             UNION {UNION {layers[v].lineage : v \in ChainEnds(E, m) \cap ChainStarts(E, n + 1 - m)} :
                                      m \in 1 .. n}
                        /\ n <= Makespan(layers) /\ Makespan(layers) <= Len(input)
  BY DEF CriticalPathIsLongestChain
<1>1. Baseline /\ Sound(layers)
  BY DEF PlanInv, CompactionInv, Compacting
<1>2. PICK n \in Nat : n = Len(layers) /\ DOMAIN layers = 1 .. n
  BY <1>1 DEF Sound
<1>3. n >= 1
  <2>1. 1 \in DOMAIN input
    BY DEF ReportInv
  <2>2. PICK k \in DOMAIN layers : 1 \in layers[k].lineage
    BY <1>1, <2>1 DEF Sound, Covered
  <2>. QED
    BY <1>2, <2>2
<1>4. PICK E : E = VertexEdges(layers)
                /\ report = CriticalPath(LongestTo(E, layers), LongestFrom(E, layers))
  BY DEF ReportInv
<1>5. ForwardEdges(E, n)
  BY <1>1, <1>2, <1>4, EdgesForward
<1>6. PICK to, from : to = LongestTo(E, layers) /\ from = LongestFrom(E, layers)
  OBVIOUS
<1>7. LongestUpTo(E, to, n) /\ LongestDownTo(E, from, n, 1)
  BY <1>2, <1>5, <1>6, LongestToIs, LongestFromIs
<1>8. ChainRank(E, to, 1 .. n) /\ ChainRank(Backwards(E), from, 1 .. n)
  BY <1>5, <1>7, ToIsRank, FromIsRank
<1>9. \A v \in 1 .. n : to[v] \in 1 .. n /\ from[v] \in Nat /\ from[v] >= 1
  <2>1. \A v \in 1 .. n : to[v] \in 1 .. v
    BY <1>7 DEF LongestUpTo
  <2>2. \A v \in 1 .. n : from[v] \in Nat /\ from[v] >= 1
    BY <1>8 DEF ChainRank
  <2>. QED
    BY <2>1, <2>2
<1>10. PICK l : l = MaxOf(Range(to))
  OBVIOUS
<1>11. /\ l \in 1 .. n /\ \A v \in 1 .. n : to[v] <= l
       /\ \E v \in 1 .. n : to[v] = l
  <2>1. DOMAIN to = 1 .. n
    BY <1>7 DEF LongestUpTo
  <2>2. Range(to) = {to[v] : v \in 1 .. n}
    BY <2>1 DEF Range
  <2>3. Range(to) \in SUBSET (0 .. n) /\ Range(to) # {}
    BY <1>3, <1>9, <2>2
  <2>4. l \in Range(to) /\ \A j \in Range(to) : j <= l
    BY <1>10, <2>3, MaxOfIsGreatest
  <2>. QED
    BY <1>9, <2>2, <2>4
<1>12. /\ report.length = l
       /\ report.critical = UNION {layers[v].lineage : v \in {u \in 1 .. n : to[u] + from[u] - 1 = l}}
  BY <1>2, <1>4, <1>6, <1>10 DEF CriticalPath
<1>13. \A m \in Nat : m >= 1 =>
         /\ ChainEnds(E, m) = {v \in 1 .. n : to[v] >= m}
         /\ ChainStarts(E, m) = {v \in 1 .. n : from[v] >= m}
  <2>. TAKE m \in Nat
  <2>. HAVE m >= 1
  <2>1. ChainEnds(E, m) = {v \in 1 .. n : to[v] >= m}
    BY <1>2, <1>8, RankEnds
  <2>2. ChainEnds(Backwards(E), m) = {v \in 1 .. n : from[v] >= m}
    BY <1>2, <1>8, RankEnds
  <2>3. ChainStarts(E, m) = ChainEnds(Backwards(E), m)
    BY DEF ChainStarts, Backwards
  <2>. QED
    BY <2>1, <2>2, <2>3
<1>14. ChainEnds(E, l) # {} /\ ChainEnds(E, l + 1) = {}
  <2>1. ChainEnds(E, l) = {v \in 1 .. n : to[v] >= l}
    BY <1>11, <1>13
  <2>2. ChainEnds(E, l + 1) = {v \in 1 .. n : to[v] >= l + 1}
    BY <1>11, <1>13
  <2>. QED
    BY <1>9, <1>11, <2>1, <2>2
<1>15. \A v \in 1 .. n : to[v] + from[v] - 1 <= l
  <2>. TAKE v \in 1 .. n
  <2>1. PICK w \in 1 .. n : to[w] >= to[v] + from[v] - 1
    BY <1>8, ChainsAdd
  <2>. QED
    BY <1>9, <1>11, <2>1
<1>16. \A v : (v \in 1 .. n /\ to[v] + from[v] - 1 = l)
               <=> \E m \in 1 .. l : v \in ChainEnds(E, m) \cap ChainStarts(E, l + 1 - m)
  <2>. TAKE v
  <2>1. ASSUME v \in 1 .. n, to[v] + from[v] - 1 = l
        PROVE  \E m \in 1 .. l : v \in ChainEnds(E, m) \cap ChainStarts(E, l + 1 - m)
    <3>1. PICK m \in 1 .. l : m = to[v]
      BY <1>9, <1>11, <2>1
    <3>2. from[v] = l + 1 - m /\ l + 1 - m \in Nat /\ l + 1 - m >= 1 /\ m \in Nat /\ m >= 1
      BY <1>9, <1>11, <2>1, <3>1
    <3>3. v \in ChainEnds(E, m) /\ v \in ChainStarts(E, l + 1 - m)
      BY <1>9, <1>13, <2>1, <3>1, <3>2
    <3>. QED
      BY <3>3
  <2>2. ASSUME NEW m \in 1 .. l, v \in ChainEnds(E, m) \cap ChainStarts(E, l + 1 - m)
        PROVE  v \in 1 .. n /\ to[v] + from[v] - 1 = l
    <3>1. l + 1 - m \in Nat /\ l + 1 - m >= 1 /\ m \in Nat /\ m >= 1
      BY <1>11
    <3>2. v \in 1 .. n /\ to[v] >= m /\ from[v] >= l + 1 - m
      BY <1>13, <2>2, <3>1
    <3>3. to[v] + from[v] - 1 <= l /\ to[v] \in Nat /\ from[v] \in Nat /\ l \in Nat
      BY <1>9, <1>11, <1>15, <3>2
    <3>4. to[v] + from[v] - 1 = l
      BY <3>1, <3>2, <3>3
    <3>. QED
      BY <3>2, <3>4
  <2>. QED
    BY <2>1, <2>2
<1>17. report.critical =
         UNION {UNION {layers[v].lineage : v \in ChainEnds(E, m) \cap ChainStarts(E, l + 1 - m)} : m \in 1 .. l}
  <2>1. \A i : i \in report.critical <=> \E v \in 1 .. n : to[v] + from[v] - 1 = l /\ i \in layers[v].lineage
    BY <1>12
  <2>2. \A i : i \in UNION {UNION {layers[v].lineage : v \in ChainEnds(E, m) \cap ChainStarts(E, l + 1 - m)} : m \in 1 .. l}
                 <=> \E m \in 1 .. l : \E v \in ChainEnds(E, m) \cap ChainStarts(E, l + 1 - m) : i \in layers[v].lineage
    OBVIOUS
  <2>. QED
    BY <1>16, <2>1, <2>2
<1>18. Makespan(layers) = n
  <2>1. \A k \in 1 .. n : layers[k].cycle = k - 1
    BY <1>1, <1>2 DEF Sound, Dense
  <2>2. PICK C : C = {layers[k].cycle : k \in DOMAIN layers}
    OBVIOUS
  <2>3. C = 0 .. n - 1
    <3>1. \A c \in 0 .. n - 1 : c + 1 \in 1 .. n /\ c = (c + 1) - 1
      OBVIOUS
    <3>2. \A c \in 0 .. n - 1 : c = layers[c + 1].cycle
      BY <2>1, <3>1
    <3>3. \A k \in 1 .. n : layers[k].cycle \in 0 .. n - 1
      BY <2>1
    <3>. QED
      BY <1>2, <2>2, <3>1, <3>2, <3>3
  <2>4. \A c \in C : (\A k \in DOMAIN layers : layers[k].cycle <= c) <=> c = n - 1
    BY <1>2, <1>3, <2>1, <2>3
  <2>5. n - 1 \in C
    BY <1>3, <2>3
  <2>6. (CHOOSE c \in C : \A k \in DOMAIN layers : layers[k].cycle <= c) = n - 1
    BY <2>4, <2>5
  <2>7. layers # <<>>
    <3>1. Len(<<>>) = 0
      OBVIOUS
    <3>. QED
      BY <1>2, <1>3, <3>1
  <2>8. Makespan(layers) = 1 + (n - 1)
    BY <2>2, <2>6, <2>7 DEF Makespan
  <2>. QED
    BY <2>8
<1>19. n <= Len(input)
  BY <1>1, <1>2 DEF Sound
<1>. QED
  BY <1>4, <1>11, <1>12, <1>14, <1>17, <1>18, <1>19
\* What leaves the layers alone leaves the report true.
LEMMA StillReported ==
  ASSUME ReportInv, UNCHANGED <<input, deps, layers, report>>, stage' \in {stage, "refused"}
  PROVE  ReportInv'
<1>1. stage' \in {"asap", "merge", "done"} => 1 \in DOMAIN input'
  BY DEF ReportInv
<1>2. ASSUME stage' = "done"
      PROVE  (\E E : /\ E = VertexEdges(layers)
                     /\ report = CriticalPath(LongestTo(E, layers), LongestFrom(E, layers)))'
  <2>1. stage = "done"
    BY <1>2
  <2>2. PICK E : /\ E = VertexEdges(layers)
                 /\ report = CriticalPath(LongestTo(E, layers), LongestFrom(E, layers))
    BY <2>1 DEF ReportInv
  <2>3. VertexEdges(layers)' = E
    BY <2>2 DEF VertexEdges
  <2>4. PICK to, from : to = LongestTo(E, layers) /\ from = LongestFrom(E, layers)
    OBVIOUS
  <2>5. report' = CriticalPath(to, from)'
    BY <2>2, <2>4 DEF CriticalPath
  <2>6. LongestTo(E, layers') = to /\ LongestFrom(E, layers') = from
    BY <2>4
  <2>. QED
    BY <2>3, <2>5, <2>6
<1>. QED
  BY <1>1, <1>2 DEF ReportInv

\* The layers submitted are some.
LEMMA SomeSubmitted ==
  ASSUME NEW S, NEW ls \in Seq(S), NEW caller, Submit(ls, caller)
  PROVE  ReportInv'
<1>1. ls # <<>> => 1 \in DOMAIN ls
  OBVIOUS
<1>2. (stage' = "asap" /\ input' = ls /\ ls # <<>>) \/ stage' = "refused"
  BY DEF Submit
<1>. QED
  BY <1>1, <1>2 DEF ReportInv

\* Compaction ends with the report.
LEMMA CompactionReports ==
  ASSUME ReportInv, CompactionNext
  PROVE  ReportInv'
<1>1. stage \in {"asap", "merge"} /\ input' = input /\ 1 \in DOMAIN input
  BY DEF CompactionNext, AsapStep, SortByCycle, Merge, Finish, ReportInv
<1>2. CASE stage' # "done"
  BY <1>1, <1>2 DEF ReportInv
<1>3. CASE stage' = "done"
  <2>1. Finish
    BY <1>1, <1>3 DEF CompactionNext, AsapStep, SortByCycle, Merge
  <2>2. UNCHANGED <<input, deps, layers>>
    BY <2>1 DEF Finish
  <2>3. PICK E : /\ E = VertexEdges(layers)
                 /\ report' = CriticalPath(LongestTo(E, layers), LongestFrom(E, layers))
    BY <1>3, <2>1 DEF Finish
  <2>4. VertexEdges(layers)' = E
    BY <2>2, <2>3 DEF VertexEdges
  <2>5. PICK to, from : to = LongestTo(E, layers) /\ from = LongestFrom(E, layers)
    OBVIOUS
  <2>6. report' = CriticalPath(to, from)'
    BY <2>2, <2>3, <2>5 DEF CriticalPath
  <2>7. LongestTo(E, layers') = to /\ LongestFrom(E, layers') = from
    BY <2>2, <2>5
  <2>. QED
    BY <1>1, <1>3, <2>4, <2>6, <2>7 DEF ReportInv
<1>. QED
  BY <1>2, <1>3

LEMMA ReportKeeps ==
  ASSUME PlanInv, ReportInv, [Next]_vars
  PROVE  ReportInv'
<1>0. ASSUME Refuse PROVE ReportInv'
  BY <1>0, StillReported DEF Refuse
<1>1. ASSUME NEW gates, NEW rest, PlanGates(gates, rest) PROVE ReportInv'
  <2>1. UNCHANGED cvars \/ Refuse
    BY <1>1 DEF PlanGates, TooManyGates
  <2>. QED
    BY <1>0, <2>1, StillReported DEF cvars
<1>2. ASSUME NEW layer, PlanLocal(layer) PROVE ReportInv'
  BY <1>2, StillReported DEF PlanLocal, cvars
<1>3. ASSUME NEW acts, EndRound(acts) PROVE ReportInv'
  BY <1>3, StillReported DEF EndRound, cvars
<1>4. CASE Compact
  <2>1. PICK S : out \in Seq(S)
    BY DEF PlanInv, PipelineInv, OutIsSeq
  <2>. QED
    BY <1>4, <2>1, SomeSubmitted DEF Compact
<1>5. ASSUME NEW measured, TerminalMeasure(measured) PROVE ReportInv'
  BY <1>5, StillReported DEF TerminalMeasure, cvars
<1>6. ASSUME NEW ls \in Seq(SUBSET Action), NEW caller, CompactForeign(ls, caller) PROVE ReportInv'
  BY <1>6, SomeSubmitted DEF CompactForeign
<1>7. CASE PlanStep
  <2>1. UNCHANGED cvars \/ Refuse \/ CompactionNext
    BY <1>7 DEF PlanStep, ZonedRefusal, NoLegalPair, ReadoutFull
  <2>. QED
    BY <1>0, <2>1, StillReported, CompactionReports DEF cvars
<1>8. CASE UNCHANGED vars
  BY <1>8, StillReported DEF vars, cvars
<1>. QED
  BY <1>1, <1>2, <1>3, <1>4, <1>5, <1>6, <1>7, <1>8 DEF Next

LEMMA ReportInductive == Spec => []ReportInv
<1>1. Init => ReportInv
  BY DEF Init, CompactionInit, ReportInv
<1>2. PlanInv /\ ReportInv /\ [Next]_vars => ReportInv'
  BY ReportKeeps
<1>. QED
  BY <1>1, <1>2, Inductive, PTL DEF Spec


--------------------------------------------------------------------------------
(* The theorems.                                                               *)

\* exclusive_cycle_asap never moves a layer whose dependencies point forward.
THEOREM AsapCorrect == Spec => []AsapIsIdentity
<1>1. PlanInv => AsapIsIdentity
  BY DEF PlanInv, CompactionInv, Baseline
<1>. QED
  BY <1>1, Inductive, PTL

\* Merges keep every dependency strictly ordered, for layers they join and layers they
\* renumber (hard_dep_cycle_order_ok).
THEOREM DependenciesCorrect == Spec => []DependenciesHold
<1>1. PlanInv => DependenciesHold
  BY DEF PlanInv, CompactionInv, Sound, OrderKept, DependenciesHold
<1>. QED
  BY <1>1, Inductive, PTL

\* A merged layer is isolated, as its parts were, whatever merges come after it.
THEOREM IsolationCorrect == Spec => []IsolationKept
<1>1. PlanInv => IsolationKept
  BY DEF PlanInv, CompactionInv, Sound, Spread, IsolationKept
<1>. QED
  BY <1>1, Inductive, PTL

\* A round's wait stays between what was before it and what is behind it, though only
\* the next layer with work is cut from it (round_barrier_cuts, merge_dependencies).
THEOREM RoundsCorrect == Spec => []RoundsStayApart
<1>1. PlanInv => RoundsStayApart
  BY WaitsCut
<1>. QED
  BY <1>1, Inductive, PTL

\* The pipeline submits forward dependencies only, which the theorems above ask for.
THEOREM ForwardCorrect == Spec => []OwnDependenciesForward
<1>1. PlanInv => OwnDependenciesForward
  BY OwnForward
<1>. QED
  BY <1>1, Inductive, PTL

\* The uses of an atom keep their order.
THEOREM UsesCorrect == Spec => []UsesStayInOrder
<1>1. PlanInv => UsesStayInOrder
  BY HazardsSuffice
<1>. QED
  BY <1>1, Inductive, PTL

\* No layer of the input is lost or runs twice.
THEOREM LineageCorrect == Spec => []NothingLostOrDoubled
<1>1. PlanInv => NothingLostOrDoubled
  BY DEF PlanInv, CompactionInv, Sound, NothingLostOrDoubled
<1>. QED
  BY <1>1, Inductive, PTL

\* Every operation of a planned schedule finds its atoms where it needs them, through
\* deferred stages, readout, compaction and the terminal measurement.
THEOREM OperationsCorrect == Spec => []OperationsFindTheirAtoms
<1>1. PlanInv /\ ZonedInv => OperationsFindTheirAtoms
  BY OperationsFollow
<1>. QED
  BY <1>1, Inductive, ZonedInductive, PTL

\* The layout the planner carries from stage to stage is the replay's.
THEOREM LayoutCorrect == Spec => []LayoutIsTheReplay
<1>1. PlanInv /\ ZonedInv => LayoutIsTheReplay
  BY LayoutFollows
<1>. QED
  BY <1>1, Inductive, ZonedInductive, PTL

\* No layer is put off for ever: every step of it leaves less to do.
THEOREM DeferralCorrect == Spec => DeferralEnds
<1>1. PlanInv /\ ZonedInv /\ [Next]_vars
        => [step # "ready" /\ stage' # "refused" => Less(Work', Work)]_vars
  BY DeferralStep
<1>. QED
  BY <1>1, Inductive, ZonedInductive, PTL DEF Spec, DeferralEnds

\* Each atom undergoes the program's operations in the program's order, through stages
\* that are put off, merges, rounds and the terminal readout.
THEOREM ProgramOrderCorrect == Spec => []ProgramOrderKept
<1>1. PlanInv /\ ZonedInv /\ OrderInv => ProgramOrderKept
  BY OrderFollows
<1>. QED
  BY <1>1, Inductive, ZonedInductive, OrderInductive, PTL

\* The reported critical path is the longest chain of dependent layers handed out, its
\* layers are those of such chains, and no schedule of them is shorter.
THEOREM CriticalPathCorrect == Spec => []CriticalPathIsLongestChain
<1>1. PlanInv /\ ReportInv => CriticalPathIsLongestChain
  BY CriticalPathFollows
<1>. QED
  BY <1>1, Inductive, ReportInductive, PTL
================================================================================
