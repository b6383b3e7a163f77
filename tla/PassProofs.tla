------------------------------ MODULE PassProofs ------------------------------
(***************************************************************************)
(* Theorems about the pass pipeline, for every module that lowering may    *)
(* hand over and circuits of any length: no pass makes its module dearer,  *)
(* and none takes a run block that can be emitted to one that cannot.      *)
(***************************************************************************)
EXTENDS CircuitPipeline, FiniteSetTheorems, SequenceTheorems, WellFoundedInduction, TLAPS

(***************************************************************************)
(* Walks.                                                                  *)
(***************************************************************************)

\* A set of naturals has a least element.
LEMMA LeastElement ==
  ASSUME NEW S \in SUBSET Nat, S # {}
  PROVE  \E i \in S : \A j \in S : i <= j
<1>. DEFINE R == {ss \in Nat \X Nat : ss[1] < ss[2]}
<1>1. IsWellFoundedOn(R, Nat)
  BY NatLessThanWellFounded DEF OpToRel
<1>. HIDE DEF R
<1>2. PICK i \in S : \A j \in S : ~(<<j, i>> \in R)
  BY <1>1, WFMin
<1>3. ASSUME NEW j \in S PROVE i <= j
  <2>1. ~(<<j, i>> \in R) /\ i \in Nat /\ j \in Nat
    BY <1>2
  <2>. QED
    BY <2>1 DEF R
<1>. QED
  BY <1>3

\* What a walk starts with and every step of it keeps holds all along it.
LEMMA Steps ==
  ASSUME NEW n \in Nat, NEW f, NEW Q, f[0] \in Q[0],
         \A i \in 1 .. n : f[i - 1] \in Q[i - 1] => f[i] \in Q[i]
  PROVE  \A i \in 0 .. n : f[i] \in Q[i]
<1>. DEFINE Bad == {i \in 0 .. n : f[i] \notin Q[i]}
<1>1. SUFFICES ASSUME Bad # {} PROVE FALSE
  OBVIOUS
<1>2. PICK i \in Bad : \A j \in Bad : i <= j
  <2>1. Bad \in SUBSET Nat
    OBVIOUS
  <2>. QED
    BY <1>1, <2>1, LeastElement
<1>3. i \in 1 .. n
  BY <1>2
<1>4. i - 1 \in 0 .. n /\ i - 1 \notin Bad
  BY <1>2, <1>3
<1>. QED
  BY <1>2, <1>3, <1>4

\* The walk from a that takes the steps G.
Walk(n, a, G, f) ==
  /\ DOMAIN f = 0 .. n /\ f = [i \in 0 .. n |-> f[i]]
  /\ f[0] = a /\ \A i \in 1 .. n : f[i] = G[i][f[i - 1]]

\* There is one of every length.
LEMMA WalkExists ==
  ASSUME NEW n \in Nat, NEW a, NEW G
  PROVE  \E f : Walk(n, a, G, f)
<1>. DEFINE Bad == {m \in Nat : \A f : ~Walk(m, a, G, f)}
<1>1. SUFFICES ASSUME Bad # {} PROVE FALSE
  OBVIOUS
<1>2. PICK m \in Bad : \A j \in Bad : m <= j
  BY <1>1, LeastElement
<1>3. CASE m = 0
  <2>1. Walk(m, a, G, [i \in 0 .. m |-> a])
    BY <1>3 DEF Walk
  <2>. QED
    BY <2>1
<1>4. CASE m # 0
  <2>1. m - 1 \in Nat /\ m - 1 \notin Bad
    BY <1>2, <1>4
  <2>2. PICK f : Walk(m - 1, a, G, f)
    BY <2>1
  <2>. DEFINE h == [i \in 0 .. m |-> IF i = m THEN G[m][f[m - 1]] ELSE f[i]]
  <2>3. \A i \in 1 .. m : h[i - 1] = f[i - 1]
    BY <2>1
  <2>4. \A i \in 1 .. m : h[i] = G[i][h[i - 1]]
    <3>. TAKE i \in 1 .. m
    <3>1. CASE i = m
      BY <2>3, <3>1
    <3>2. CASE i # m
      <4>1. i \in 1 .. m - 1 /\ h[i] = f[i]
        BY <3>2
      <4>. QED
        BY <2>2, <2>3, <4>1 DEF Walk
    <3>. QED
      BY <3>1, <3>2
  <2>5. h[0] = a /\ DOMAIN h = 0 .. m /\ h = [i \in 0 .. m |-> h[i]]
    BY <1>4, <2>1, <2>2 DEF Walk
  <2>6. Walk(m, a, G, h)
    <3>. HIDE DEF h
    <3>. QED
      BY <2>4, <2>5 DEF Walk
  <2>. QED
    BY <2>6
<1>. QED
  BY <1>3, <1>4

\* If the steps go from each set of Q to the next, it stays in them.
Stays(n, Q, f) == \A i \in 0 .. n : f[i] \in Q[i]

LEMMA WalkIn ==
  ASSUME NEW n \in Nat, NEW a, NEW G, NEW Q, a \in Q[0],
         \A i \in 1 .. n : \A t \in Q[i - 1] : G[i][t] \in Q[i]
  PROVE  \E f : Walk(n, a, G, f) /\ Stays(n, Q, f)
<1>1. PICK f : Walk(n, a, G, f)
  BY WalkExists
<1>2. f[0] \in Q[0]
  BY <1>1 DEF Walk
<1>3. \A i \in 1 .. n : f[i - 1] \in Q[i - 1] => f[i] \in Q[i]
  BY <1>1 DEF Walk
<1>4. Stays(n, Q, f)
  BY <1>2, <1>3, Steps DEF Stays
<1>. QED
  BY <1>1, <1>4

\* The equation of a recursive function from its steps.
Reaches(n, Q, G, f, H) == \A i \in 1 .. n : f[i - 1] \in Q[i - 1] => G[i][f[i - 1]] = H[i]
Solves(n, a, f, H) == f = [i \in 0 .. n |-> IF i = 0 THEN a ELSE H[i]]

LEMMA WalkIs ==
  ASSUME NEW n \in Nat, NEW a, NEW G, NEW f, Walk(n, a, G, f), NEW Q, Stays(n, Q, f),
         NEW H, Reaches(n, Q, G, f, H)
  PROVE  Solves(n, a, f, H)
<1>1. \A i \in 1 .. n : i - 1 \in 0 .. n
  OBVIOUS
<1>2. \A i \in 1 .. n : f[i] = H[i]
  BY <1>1 DEF Walk, Stays, Reaches
<1>3. \A i \in 0 .. n : f[i] = IF i = 0 THEN a ELSE H[i]
  <2>1. f[0] = a /\ \A i \in 0 .. n : i # 0 => i \in 1 .. n
    BY DEF Walk
  <2>. QED
    BY <1>2, <2>1
<1>4. f = [i \in 0 .. n |-> f[i]]
  BY DEF Walk
<1>. QED
  BY <1>3, <1>4 DEF Solves

(***************************************************************************)
(* Sequences.                                                              *)
(***************************************************************************)

\* What is at the places of a shorter sequence.
LEMMA RemoveAtIs ==
  ASSUME NEW S, NEW s \in Seq(S), NEW i \in 1 .. Len(s)
  PROVE  /\ RemoveAt(s, i) \in Seq(S) /\ Len(RemoveAt(s, i)) = Len(s) - 1
         /\ \A k \in 1 .. Len(s) - 1 : RemoveAt(s, i)[k] = IF k < i THEN s[k] ELSE s[k + 1]
<1>. DEFINE l == SubSeq(s, 1, i - 1)
            r == SubSeq(s, i + 1, Len(s))
<1>0. Len(s) \in Nat /\ DOMAIN s = 1 .. Len(s) /\ \A k \in 1 .. Len(s) : s[k] \in S
  OBVIOUS
<1>1. l \in Seq(S) /\ Len(l) = i - 1 /\ \A k \in 1 .. i - 1 : l[k] = s[k]
  BY <1>0, SubSeqProperties
<1>2. r \in Seq(S) /\ Len(r) = Len(s) - i /\ \A k \in 1 .. Len(s) - i : r[k] = s[k + i]
  <2>1. /\ r \in Seq(S) /\ Len(r) = IF i + 1 <= Len(s) THEN Len(s) - (i + 1) + 1 ELSE 0
        /\ \A k \in 1 .. Len(s) - (i + 1) + 1 : r[k] = s[(i + 1) + k - 1]
    BY <1>0, SubSeqProperties
  <2>. HIDE DEF r
  <2>2. ASSUME NEW k \in 1 .. Len(s) - i PROVE r[k] = s[k + i]
    <3>1. (i + 1) + k - 1 = k + i /\ k \in 1 .. Len(s) - (i + 1) + 1
      BY <1>0
    <3>. QED
      BY <2>1, <3>1
  <2>3. Len(r) = Len(s) - i
    <3>1. PICK n \in Nat : n = Len(s)
      BY <1>0
    <3>2. i \in 1 .. n /\ Len(r) = IF i + 1 <= n THEN n - (i + 1) + 1 ELSE 0
      BY <2>1, <3>1
    <3>3. Len(r) = n - i
      BY <3>2
    <3>. QED
      BY <3>1, <3>3
  <2>. QED
    BY <2>1, <2>2, <2>3
<1>3. RemoveAt(s, i) = l \o r
  BY DEF RemoveAt
<1>. HIDE DEF l, r
<1>4. /\ l \o r \in Seq(S) /\ Len(l \o r) = Len(s) - 1
      /\ \A k \in 1 .. Len(s) - 1 : (l \o r)[k] = IF k <= Len(l) THEN l[k] ELSE r[k - Len(l)]
  <2>1. Len(l) + Len(r) = Len(s) - 1
    BY <1>0, <1>1, <1>2
  <2>2. /\ l \o r \in Seq(S) /\ Len(l \o r) = Len(l) + Len(r)
        /\ \A k \in 1 .. Len(l) + Len(r) : (l \o r)[k] = IF k <= Len(l) THEN l[k] ELSE r[k - Len(l)]
    BY <1>1, <1>2, ConcatProperties
  <2>. QED
    BY <2>1, <2>2
<1>5. ASSUME NEW k \in 1 .. Len(s) - 1 PROVE (l \o r)[k] = IF k < i THEN s[k] ELSE s[k + 1]
  <2>1. CASE k < i
    BY <1>0, <1>1, <1>4, <2>1
  <2>2. CASE ~(k < i)
    <3>1. k - (i - 1) \in 1 .. Len(s) - i /\ (k - (i - 1)) + i = k + 1
      BY <1>0, <2>2
    <3>. QED
      BY <1>0, <1>1, <1>2, <1>4, <2>2, <3>1
  <2>. QED
    BY <2>1, <2>2
<1>. QED
  BY <1>3, <1>4, <1>5

LEMMA InsertAtIs ==
  ASSUME NEW S, NEW s \in Seq(S), NEW i \in 1 .. Len(s) + 1, NEW e \in S
  PROVE  /\ InsertAt(s, i, e) \in Seq(S) /\ Len(InsertAt(s, i, e)) = Len(s) + 1
         /\ \A k \in 1 .. Len(s) + 1 : InsertAt(s, i, e)[k] =
              IF k < i THEN s[k] ELSE IF k = i THEN e ELSE s[k - 1]
<1>. DEFINE l == SubSeq(s, 1, i - 1)
            m == l \o <<e>>
            r == SubSeq(s, i, Len(s))
<1>0. Len(s) \in Nat /\ DOMAIN s = 1 .. Len(s) /\ \A k \in 1 .. Len(s) : s[k] \in S
  OBVIOUS
<1>1. l \in Seq(S) /\ Len(l) = i - 1 /\ \A k \in 1 .. i - 1 : l[k] = s[k]
  BY <1>0, SubSeqProperties
<1>2. r \in Seq(S) /\ Len(r) = Len(s) + 1 - i /\ \A k \in 1 .. Len(s) + 1 - i : r[k] = s[k + i - 1]
  BY <1>0, SubSeqProperties
<1>3. InsertAt(s, i, e) = m \o r
  BY DEF InsertAt
<1>. HIDE DEF l, r
<1>4. /\ m \in Seq(S) /\ Len(m) = i
      /\ \A k \in 1 .. i : m[k] = IF k < i THEN s[k] ELSE e
  BY <1>0, <1>1
<1>. HIDE DEF m
<1>5. /\ m \o r \in Seq(S) /\ Len(m \o r) = Len(s) + 1
      /\ \A k \in 1 .. Len(s) + 1 : (m \o r)[k] = IF k <= i THEN m[k] ELSE r[k - i]
  <2>1. Len(m) + Len(r) = Len(s) + 1
    BY <1>0, <1>2, <1>4
  <2>2. /\ m \o r \in Seq(S) /\ Len(m \o r) = Len(m) + Len(r)
        /\ \A k \in 1 .. Len(m) + Len(r) : (m \o r)[k] = IF k <= Len(m) THEN m[k] ELSE r[k - Len(m)]
    BY <1>2, <1>4, ConcatProperties
  <2>. QED
    BY <1>4, <2>1, <2>2
<1>6. ASSUME NEW k \in 1 .. Len(s) + 1
      PROVE  (m \o r)[k] = IF k < i THEN s[k] ELSE IF k = i THEN e ELSE s[k - 1]
  <2>1. CASE k <= i
    BY <1>0, <1>4, <1>5, <2>1
  <2>2. CASE ~(k <= i)
    <3>1. k - i \in 1 .. Len(s) + 1 - i /\ (k - i) + i - 1 = k - 1
      BY <1>0, <2>2
    <3>. QED
      BY <1>0, <1>2, <1>5, <2>2, <3>1
  <2>. QED
    BY <2>1, <2>2
<1>. QED
  BY <1>3, <1>5, <1>6

\* A function on 1 .. n is a sequence of that length.
LEMMA FunctionIsSeq ==
  ASSUME NEW S, NEW n \in Nat, NEW f \in [1 .. n -> S]
  PROVE  f \in Seq(S) /\ Len(f) = n /\ DOMAIN f = 1 .. n
<1>1. f \in Seq(S)
  BY SeqDef
<1>2. DOMAIN f = 1 .. Len(f) /\ Len(f) \in Nat
  BY <1>1, LenProperties
<1>3. DOMAIN f = 1 .. n
  OBVIOUS
<1>4. Len(f) = n
  BY <1>2, <1>3
<1>. QED
  BY <1>1, <1>3, <1>4

\* A set with an injection into a finite one, which f undoes, is no larger.
LEMMA NoLarger ==
  ASSUME NEW S, NEW T, IsFiniteSet(S), NEW f, \A t \in T : f[t] \in S,
         \A t, u \in T : f[t] = f[u] => t = u
  PROVE  IsFiniteSet(T) /\ Cardinality(T) <= Cardinality(S)
<1>. DEFINE h == [t \in T |-> f[t]]
<1>1. h \in Injection(T, S)
  BY DEF Injection, IsInjective
<1>. QED
  BY <1>1, FS_Injection

(***************************************************************************)
(* Passes that keep some of the gates they are given.                      *)
(***************************************************************************)

\* A set of naturals that has a bound has a greatest element.
LEMMA GreatestElement ==
  ASSUME NEW n \in Nat, NEW S \in SUBSET (0 .. n), S # {}
  PROVE  \E i \in S : \A j \in S : i >= j
<1>. DEFINE T == {n - j : j \in S}
<1>1. T \in SUBSET Nat /\ T # {}
  <2>1. \A j \in S : n - j \in Nat
    OBVIOUS
  <2>2. PICK j \in S : TRUE
    OBVIOUS
  <2>3. n - j \in T
    OBVIOUS
  <2>. QED
    BY <2>1, <2>3
<1>2. PICK t \in T : \A u \in T : t <= u
  <2>. HIDE DEF T
  <2>. QED
    BY <1>1, LeastElement
<1>3. PICK i \in S : t = n - i
  BY <1>2
<1>4. ASSUME NEW j \in S PROVE i >= j
  <2>1. n - i <= n - j
    BY <1>2, <1>3
  <2>. QED
    BY <2>1
<1>. QED
  BY <1>4

LEMMA PredecessorIn ==
  ASSUME NEW S, NEW kept \in Seq(S), NEW gate
  PROVE  Predecessor(kept, gate) \in 0 .. Len(kept)
<1>1. ASSUME NEW w PROVE Producer(kept, w) \in 0 .. Len(kept)
  <2>. DEFINE T == {0} \cup {i \in DOMAIN kept : w \in Wires(kept[i])}
  <2>1. T \in SUBSET (0 .. Len(kept)) /\ T # {} /\ Len(kept) \in Nat
    OBVIOUS
  <2>2. Producer(kept, w) = Max(T)
    BY DEF Producer
  <2>. HIDE DEF T
  <2>3. \E i \in T : \A j \in T : i >= j
    BY <2>1, GreatestElement
  <2>. QED
    BY <2>1, <2>2, <2>3 DEF Max
<1>. QED
  BY <1>1 DEF Predecessor

\* The gates kept come, in their order, from the first n gates, up to angles and wires.
Kept(kept, gates, n, src) ==
  /\ \A k \in DOMAIN kept : src[k] \in 1 .. n /\ kept[k].name = gates[src[k]].name
  /\ \A k, m \in DOMAIN kept : k < m => src[k] < src[m]

\* What a pass may make of gates: gates on the same wires, no dearer, and in a run block
\* with a keyword if those had one.
Cheaper(new, old, ws) == new \in Seq(GatesOn(ws)) /\ NoDearer(new, old)
Better(new, old, ws) == Cheaper(new, old, ws) /\ (EmitsGates(old) => EmitsGates(new))

LEMMA CountTo ==
  ASSUME NEW n \in Nat
  PROVE  IsFiniteSet(1 .. n) /\ Cardinality(1 .. n) = n
BY FS_Interval

\* The number of T gates.
LEMMA TCountIs ==
  ASSUME NEW ws, NEW gates \in Seq(GatesOn(ws))
  PROVE  /\ TCount(gates) = Cardinality({i \in 1 .. Len(gates) : gates[i].name \in TGates})
         /\ IsFiniteSet({i \in 1 .. Len(gates) : gates[i].name \in TGates})
         /\ TCount(gates) \in Nat /\ Len(gates) \in Nat
<1>1. DOMAIN gates = 1 .. Len(gates) /\ Len(gates) \in Nat
  OBVIOUS
<1>2. \A i \in 1 .. Len(gates) : gates[i].op = "gate"
  BY <1>1 DEF GatesOn
<1>3. {i \in DOMAIN gates : gates[i].op = "gate" /\ gates[i].name \in TGates}
      = {i \in 1 .. Len(gates) : gates[i].name \in TGates}
  BY <1>1, <1>2
<1>4. IsFiniteSet({i \in 1 .. Len(gates) : gates[i].name \in TGates})
  <2>1. IsFiniteSet(1 .. Len(gates))
    BY <1>1, FS_Interval
  <2>. QED
    BY <2>1, FS_Subset
<1>. QED
  BY <1>1, <1>3, <1>4, FS_CardinalityType DEF TCount

LEMMA KeptIsBetter ==
  ASSUME NEW ws, NEW gates \in Seq(GatesOn(ws)), NEW kept \in Seq(GatesOn(ws)),
         NEW src, Kept(kept, gates, Len(gates), src)
  PROVE  Better(kept, gates, ws)
<1>1. /\ DOMAIN gates = 1 .. Len(gates) /\ Len(gates) \in Nat
      /\ DOMAIN kept = 1 .. Len(kept) /\ Len(kept) \in Nat
  OBVIOUS
<1>2. \A k \in 1 .. Len(kept) : src[k] \in 1 .. Len(gates) /\ kept[k].name = gates[src[k]].name
  BY <1>1 DEF Kept
<1>3. \A k, m \in 1 .. Len(kept) : src[k] = src[m] => k = m
  <2>. SUFFICES ASSUME NEW k \in 1 .. Len(kept), NEW m \in 1 .. Len(kept), k # m
                PROVE  src[k] # src[m]
    OBVIOUS
  <2>0. src[k] \in Nat /\ src[m] \in Nat
    BY <1>1, <1>2
  <2>1. CASE k < m
    <3>1. src[k] < src[m]
      BY <1>1, <2>1 DEF Kept
    <3>. QED
      BY <2>0, <3>1
  <2>2. CASE m < k
    <3>1. src[m] < src[k]
      BY <1>1, <2>2 DEF Kept
    <3>. QED
      BY <2>0, <3>1
  <2>. QED
    BY <1>1, <2>1, <2>2
<1>4. Len(kept) <= Len(gates)
  <2>1. IsFiniteSet(1 .. Len(gates)) /\ Cardinality(1 .. Len(gates)) = Len(gates)
    BY <1>1, CountTo
  <2>2. Cardinality(1 .. Len(kept)) = Len(kept)
    BY <1>1, CountTo
  <2>3. Cardinality(1 .. Len(kept)) <= Cardinality(1 .. Len(gates))
    BY <1>2, <1>3, <2>1, NoLarger
  <2>. QED
    BY <2>1, <2>2, <2>3
<1>5. TCount(kept) <= TCount(gates)
  <2>. DEFINE S == {i \in 1 .. Len(gates) : gates[i].name \in TGates}
              T == {k \in 1 .. Len(kept) : kept[k].name \in TGates}
  <2>1. TCount(gates) = Cardinality(S) /\ IsFiniteSet(S) /\ TCount(kept) = Cardinality(T)
    BY TCountIs
  <2>2. (\A t \in T : src[t] \in S) /\ \A t, u \in T : src[t] = src[u] => t = u
    BY <1>2, <1>3
  <2>. HIDE DEF S, T
  <2>. QED
    BY <2>1, <2>2, NoLarger
<1>6. EmitsGates(gates) => EmitsGates(kept)
  <2>1. \A k \in 1 .. Len(kept) : kept[k].op = "gate"
    BY <1>1 DEF GatesOn
  <2>. QED
    BY <1>1, <1>2, <2>1 DEF EmitsGates
<1>. QED
  BY <1>4, <1>5, <1>6 DEF Better, Cheaper, NoDearer

\* The gates that have been kept of the first n.
KeptOf(ws, gates, n) == {kept \in Seq(GatesOn(ws)) : \E src : Kept(kept, gates, n, src)}

LEMMA KeptAppend ==
  ASSUME NEW ws, NEW gates \in Seq(GatesOn(ws)), NEW n \in 1 .. Len(gates),
         NEW kept \in KeptOf(ws, gates, n - 1), NEW gate \in GatesOn(ws), gate.name = gates[n].name
  PROVE  Append(kept, gate) \in KeptOf(ws, gates, n)
<1>1. PICK src : Kept(kept, gates, n - 1, src)
  BY DEF KeptOf
<1>2. kept \in Seq(GatesOn(ws)) /\ DOMAIN kept = 1 .. Len(kept) /\ Len(kept) \in Nat
  BY DEF KeptOf
<1>. DEFINE new == Append(kept, gate)
            from == [k \in 1 .. Len(kept) + 1 |-> IF k = Len(kept) + 1 THEN n ELSE src[k]]
<1>3. /\ new \in Seq(GatesOn(ws)) /\ DOMAIN new = 1 .. Len(kept) + 1
      /\ \A k \in 1 .. Len(kept) + 1 : new[k] = IF k = Len(kept) + 1 THEN gate ELSE kept[k]
  BY <1>2, AppendProperties
<1>4. Kept(new, gates, n, from)
  <2>. HIDE DEF new
  <2>. QED
    BY <1>1, <1>2, <1>3 DEF Kept
<1>. QED
  BY <1>3, <1>4 DEF KeptOf

LEMMA KeptRemove ==
  ASSUME NEW ws, NEW gates \in Seq(GatesOn(ws)), NEW n \in 1 .. Len(gates),
         NEW kept \in KeptOf(ws, gates, n - 1), NEW i \in 1 .. Len(kept)
  PROVE  RemoveAt(kept, i) \in KeptOf(ws, gates, n - 1)
<1>1. PICK src : Kept(kept, gates, n - 1, src)
  BY DEF KeptOf
<1>2. kept \in Seq(GatesOn(ws)) /\ DOMAIN kept = 1 .. Len(kept) /\ Len(kept) \in Nat
  BY DEF KeptOf
<1>. DEFINE new == RemoveAt(kept, i)
            from == [k \in 1 .. Len(kept) - 1 |-> IF k < i THEN src[k] ELSE src[k + 1]]
<1>3. /\ new \in Seq(GatesOn(ws)) /\ DOMAIN new = 1 .. Len(kept) - 1
      /\ \A k \in 1 .. Len(kept) - 1 : new[k] = IF k < i THEN kept[k] ELSE kept[k + 1]
  BY <1>2, RemoveAtIs, LenProperties
<1>4. Kept(new, gates, n - 1, from)
  <2>. HIDE DEF new
  <2>1. ASSUME NEW k \in DOMAIN new
        PROVE  from[k] \in 1 .. n - 1 /\ new[k].name = gates[from[k]].name
    <3>1. k \in DOMAIN kept /\ k + 1 \in DOMAIN kept
      BY <1>2, <1>3
    <3>. QED
      BY <1>1, <1>3, <3>1 DEF Kept
  <2>2. ASSUME NEW k \in DOMAIN new, NEW m \in DOMAIN new, k < m PROVE from[k] < from[m]
    <3>1. {k, k + 1, m, m + 1} \subseteq DOMAIN kept /\ k + 1 < m + 1 /\ k < m + 1
      BY <1>2, <1>3, <2>2
    <3>. QED
      BY <1>1, <1>3, <2>2, <3>1 DEF Kept
  <2>. QED
    BY <2>1, <2>2 DEF Kept
<1>. QED
  BY <1>3, <1>4 DEF KeptOf

LEMMA KeptMore ==
  ASSUME NEW ws, NEW gates, NEW n \in Nat, NEW kept \in KeptOf(ws, gates, n - 1)
  PROVE  kept \in KeptOf(ws, gates, n)
BY DEF KeptOf, Kept

LEMMA KeptNone ==
  ASSUME NEW ws, NEW gates
  PROVE  <<>> \in KeptOf(ws, gates, 0)
<1>1. Kept(<<>>, gates, 0, <<>>)
  BY DEF Kept
<1>. QED
  BY <1>1 DEF KeptOf

LEMMA CancelIntoKeeps ==
  ASSUME NEW ws, NEW gates \in Seq(GatesOn(ws)), NEW n \in 1 .. Len(gates),
         NEW kept \in KeptOf(ws, gates, n - 1)
  PROVE  CancelInto(kept, gates[n]) \in KeptOf(ws, gates, n)
<1>. DEFINE i == Predecessor(kept, gates[n])
<1>0. gates[n] \in GatesOn(ws) /\ n \in Nat /\ kept \in Seq(GatesOn(ws)) /\ Len(kept) \in Nat
  BY DEF KeptOf
<1>1. i \in 0 .. Len(kept)
  BY <1>0, PredecessorIn
<1>2. Append(kept, gates[n]) \in KeptOf(ws, gates, n)
  BY <1>0, KeptAppend
<1>3. i # 0 => RemoveAt(kept, i) \in KeptOf(ws, gates, n)
  <2>. HIDE DEF i
  <2>1. i # 0 => i \in 1 .. Len(kept)
    BY <1>0, <1>1
  <2>. QED
    BY <1>0, <2>1, KeptRemove, KeptMore
<1>. HIDE DEF i
<1>4. CancelInto(kept, gates[n]) \in {Append(kept, gates[n]), IF i # 0 THEN RemoveAt(kept, i) ELSE Append(kept, gates[n])}
  BY DEF CancelInto, i
<1>. QED
  BY <1>2, <1>3, <1>4

CancelWalk(gates, f) ==
  f = [i \in 0 .. Len(gates) |-> IF i = 0 THEN <<>> ELSE CancelInto(f[i - 1], gates[i])]

LEMMA CancelWalkExists ==
  ASSUME NEW ws, NEW gates \in Seq(GatesOn(ws))
  PROVE  \E f : CancelWalk(gates, f)
<1>. DEFINE n == Len(gates)
            Q == [i \in 0 .. n |-> KeptOf(ws, gates, i)]
            G == [i \in 1 .. n |-> [t \in Q[i - 1] |-> CancelInto(t, gates[i])]]
<1>0. n \in Nat
  OBVIOUS
<1>1. <<>> \in Q[0] /\ \A i \in 1 .. n : \A t \in Q[i - 1] : G[i][t] \in Q[i]
  BY <1>0, KeptNone, CancelIntoKeeps
<1>2. PICK f : Walk(n, <<>>, G, f) /\ Stays(n, Q, f)
  <2>. HIDE DEF n, Q, G
  <2>. QED
    BY <1>0, <1>1, WalkIn
<1>. DEFINE H == [i \in 1 .. n |-> CancelInto(f[i - 1], gates[i])]
<1>3. \A i \in 1 .. n : f[i - 1] \in Q[i - 1] => G[i][f[i - 1]] = H[i]
  BY <1>0
<1>4. f = [i \in 0 .. n |-> IF i = 0 THEN <<>> ELSE H[i]]
  <2>1. Walk(n, <<>>, G, f) /\ Stays(n, Q, f)
    BY <1>2
  <2>. HIDE DEF n, Q, G, H
  <2>2. Reaches(n, Q, G, f, H)
    BY <1>3 DEF Reaches
  <2>3. Solves(n, <<>>, f, H)
    BY <1>0, <2>1, <2>2, WalkIs
  <2>. QED
    BY <2>3 DEF Solves
<1>5. CancelWalk(gates, f)
  <2>1. \A i \in 0 .. n : i # 0 => H[i] = CancelInto(f[i - 1], gates[i])
    BY <1>0
  <2>. HIDE DEF H
  <2>. QED
    BY <1>4, <2>1 DEF CancelWalk
<1>. QED
  BY <1>5

\* gate_cancellation.
LEMMA CancellationIsBetter ==
  ASSUME NEW ws, NEW gates \in Seq(GatesOn(ws))
  PROVE  Better(GateCancellation(gates), gates, ws)
<1>. DEFINE f == CHOOSE f : CancelWalk(gates, f)
            n == Len(gates)
            Q == [i \in 0 .. n |-> KeptOf(ws, gates, i)]
<1>0. n \in Nat
  OBVIOUS
<1>1. GateCancellation(gates) = f[n]
  BY DEF GateCancellation, CancelWalk
<1>2. CancelWalk(gates, f)
  BY CancelWalkExists
<1>. HIDE DEF f
<1>3. f[0] = <<>> /\ \A i \in 1 .. n : f[i] = CancelInto(f[i - 1], gates[i])
  BY <1>2 DEF CancelWalk
<1>4. \A i \in 0 .. n : f[i] \in Q[i]
  <2>1. f[0] \in Q[0]
    BY <1>0, <1>3, KeptNone
  <2>2. \A i \in 1 .. n : f[i - 1] \in Q[i - 1] => f[i] \in Q[i]
    BY <1>0, <1>3, CancelIntoKeeps
  <2>. HIDE DEF n, Q
  <2>. QED
    BY <1>0, <2>1, <2>2, Steps
<1>5. f[n] \in KeptOf(ws, gates, n)
  BY <1>0, <1>4
<1>. QED
  BY <1>1, <1>5, KeptIsBetter DEF KeptOf

LEMMA MergeIntoKeeps ==
  ASSUME NEW ws, NEW gates \in Seq(GatesOn(ws)), NEW n \in 1 .. Len(gates),
         NEW kept \in KeptOf(ws, gates, n - 1)
  PROVE  MergeInto(kept, gates[n]) \in KeptOf(ws, gates, n)
<1>. DEFINE gate == gates[n]
            i == Predecessor(kept, gate)
            merges == i # 0 /\ IsRotation(gate) /\ IsRotation(kept[i]) /\ kept[i].name = gate.name
            total == kept[i].angle + gate.angle
<1>0. gate \in GatesOn(ws) /\ n \in Nat /\ kept \in Seq(GatesOn(ws)) /\ Len(kept) \in Nat
  BY DEF KeptOf
<1>1. i \in 0 .. Len(kept)
  BY <1>0, PredecessorIn
<1>2. MergeInto(kept, gate) =
        IF ~merges THEN Append(kept, gate)
        ELSE IF total % 8 = 0 THEN RemoveAt(kept, i)
        ELSE Append(RemoveAt(kept, i), [gate EXCEPT !.angle = total])
  BY DEF MergeInto
<1>. HIDE DEF i
<1>3. CASE ~merges
  BY <1>0, <1>2, <1>3, KeptAppend
<1>4. CASE merges
  <2>1. i \in 1 .. Len(kept) /\ kept[i] \in GatesOn(ws)
    BY <1>0, <1>1, <1>4
  <2>2. RemoveAt(kept, i) \in KeptOf(ws, gates, n - 1)
    BY <2>1, KeptRemove
  <2>3. total \in Int
    <3>1. kept[i].angle \in Int /\ gate.angle \in Int
      BY <1>0, <1>4, <2>1 DEF GatesOn, IsRotation
    <3>. QED
      BY <3>1
  <2>. HIDE DEF total
  <2>4. [gate EXCEPT !.angle = total] \in GatesOn(ws) /\ [gate EXCEPT !.angle = total].name = gate.name
    BY <1>0, <2>3 DEF GatesOn
  <2>5. Append(RemoveAt(kept, i), [gate EXCEPT !.angle = total]) \in KeptOf(ws, gates, n)
    BY <2>2, <2>4, KeptAppend
  <2>6. RemoveAt(kept, i) \in KeptOf(ws, gates, n)
    BY <1>0, <2>2, KeptMore
  <2>. QED
    BY <1>2, <1>4, <2>5, <2>6
<1>. QED
  BY <1>3, <1>4

MergeWalk(gates, f) ==
  f = [i \in 0 .. Len(gates) |-> IF i = 0 THEN <<>> ELSE MergeInto(f[i - 1], gates[i])]

LEMMA MergeWalkExists ==
  ASSUME NEW ws, NEW gates \in Seq(GatesOn(ws))
  PROVE  \E f : MergeWalk(gates, f)
<1>. DEFINE n == Len(gates)
            Q == [i \in 0 .. n |-> KeptOf(ws, gates, i)]
            G == [i \in 1 .. n |-> [t \in Q[i - 1] |-> MergeInto(t, gates[i])]]
<1>0. n \in Nat
  OBVIOUS
<1>1. <<>> \in Q[0] /\ \A i \in 1 .. n : \A t \in Q[i - 1] : G[i][t] \in Q[i]
  BY <1>0, KeptNone, MergeIntoKeeps
<1>2. PICK f : Walk(n, <<>>, G, f) /\ Stays(n, Q, f)
  <2>. HIDE DEF n, Q, G
  <2>. QED
    BY <1>0, <1>1, WalkIn
<1>. DEFINE H == [i \in 1 .. n |-> MergeInto(f[i - 1], gates[i])]
<1>3. \A i \in 1 .. n : f[i - 1] \in Q[i - 1] => G[i][f[i - 1]] = H[i]
  BY <1>0
<1>4. f = [i \in 0 .. n |-> IF i = 0 THEN <<>> ELSE H[i]]
  <2>1. Walk(n, <<>>, G, f) /\ Stays(n, Q, f)
    BY <1>2
  <2>. HIDE DEF n, Q, G, H
  <2>2. Reaches(n, Q, G, f, H)
    BY <1>3 DEF Reaches
  <2>3. Solves(n, <<>>, f, H)
    BY <1>0, <2>1, <2>2, WalkIs
  <2>. QED
    BY <2>3 DEF Solves
<1>5. MergeWalk(gates, f)
  <2>1. \A i \in 0 .. n : i # 0 => H[i] = MergeInto(f[i - 1], gates[i])
    BY <1>0
  <2>. HIDE DEF H
  <2>. QED
    BY <1>4, <2>1 DEF MergeWalk
<1>. QED
  BY <1>5

\* rotation_merging.
LEMMA MergingIsBetter ==
  ASSUME NEW ws, NEW gates \in Seq(GatesOn(ws))
  PROVE  Better(RotationMerging(gates), gates, ws)
<1>. DEFINE f == CHOOSE f : MergeWalk(gates, f)
            n == Len(gates)
            Q == [i \in 0 .. n |-> KeptOf(ws, gates, i)]
<1>0. n \in Nat
  OBVIOUS
<1>1. RotationMerging(gates) = f[n]
  BY DEF RotationMerging, MergeWalk
<1>2. MergeWalk(gates, f)
  BY MergeWalkExists
<1>. HIDE DEF f
<1>3. f[0] = <<>> /\ \A i \in 1 .. n : f[i] = MergeInto(f[i - 1], gates[i])
  BY <1>2 DEF MergeWalk
<1>4. \A i \in 0 .. n : f[i] \in Q[i]
  <2>1. f[0] \in Q[0]
    BY <1>0, <1>3, KeptNone
  <2>2. \A i \in 1 .. n : f[i - 1] \in Q[i - 1] => f[i] \in Q[i]
    BY <1>0, <1>3, MergeIntoKeeps
  <2>. HIDE DEF n, Q
  <2>. QED
    BY <1>0, <2>1, <2>2, Steps
<1>5. f[n] \in KeptOf(ws, gates, n)
  BY <1>0, <1>4
<1>. QED
  BY <1>1, <1>5, KeptIsBetter DEF KeptOf

(***************************************************************************)
(* zx_simplification.                                                      *)
(***************************************************************************)

LEMMA GateNames ==
  /\ {"X", "Y", "Z", "S", "S_dag", "T", "T_dag", "CNOT", "CZ", "Rx", "Rz"} \subseteq DOMAIN InverseOf
  /\ \A name \in {"X", "Y", "Z", "S", "S_dag", "T", "T_dag", "Rx", "Rz"} : Arity(name) = 1
  /\ Arity("CNOT") = 2 /\ Arity("CZ") = 2
BY DEF InverseOf, Arity

LEMMA GateIs ==
  ASSUME NEW ws, NEW name \in DOMAIN InverseOf, NEW on \in Seq(ws), Len(on) = Arity(name),
         NEW angle \in Int \cup {None}
  PROVE  [op |-> "gate", name |-> name, on |-> on, angle |-> angle] \in GatesOn(ws)
<1>1. [op |-> "gate", name |-> name, on |-> on, angle |-> angle]
        \in [op : {"gate"}, name : DOMAIN InverseOf, on : Seq(ws), angle : Int \cup {None}]
  OBVIOUS
<1>. QED
  BY <1>1 DEF GatesOn

Spiders == [colour : {"Z", "X"}, phase : Int]

LEMMA TrimmedIs ==
  ASSUME NEW chain \in Seq(Spiders)
  PROVE  Trimmed(chain) \in Seq(Spiders)
<1>1. Len(chain) \in Nat /\ \A i \in 1 .. Len(chain) - 1 : chain[i] \in Spiders
  OBVIOUS
<1>2. Front(chain) \in Seq(Spiders)
  BY <1>1, SubSeqProperties DEF Front
<1>. QED
  BY <1>2 DEF Trimmed

LEMMA FuseIntoIs ==
  ASSUME NEW chain \in Seq(Spiders), NEW spider \in Spiders
  PROVE  FuseInto(chain, spider) \in Seq(Spiders)
<1>. DEFINE below == IF chain # <<>> /\ Last(chain).colour = spider.colour THEN chain ELSE Trimmed(chain)
            fused == [spider EXCEPT !.phase = (@ + Last(below).phase) % 8]
<1>1. below \in Seq(Spiders)
  BY TrimmedIs
<1>2. FuseInto(chain, spider) = IF below # <<>> /\ Last(below).colour = spider.colour
                                THEN Append(Front(below), fused) ELSE Append(below, spider)
  BY DEF FuseInto
<1>. HIDE DEF below
<1>3. CASE below # <<>>
  <2>1. Len(below) \in Nat /\ Len(below) # 0 /\ \A i \in 1 .. Len(below) : below[i] \in Spiders
    BY <1>1, <1>3
  <2>2. Last(below) \in Spiders
    BY <2>1 DEF Last
  <2>3. fused \in Spiders
    <3>1. PICK p : p = (spider.phase + Last(below).phase) % 8
      OBVIOUS
    <3>2. p \in Int
      BY <2>2, <3>1 DEF Spiders
    <3>3. fused = [spider EXCEPT !.phase = p]
      BY <3>1
    <3>. QED
      BY <3>2, <3>3 DEF Spiders
  <2>4. Front(below) \in Seq(Spiders)
    BY <2>1, SubSeqProperties DEF Front
  <2>. HIDE DEF fused
  <2>. QED
    BY <1>1, <1>2, <2>3, <2>4
<1>4. CASE below = <<>>
  BY <1>1, <1>2, <1>4
<1>. QED
  BY <1>3, <1>4

ZxWalk(gates, f) ==
  f = [i \in 0 .. Len(gates) |-> IF i = 0 THEN <<>> ELSE FuseInto(f[i - 1], Spider(gates[i]))]

LEMMA SpiderIs ==
  ASSUME NEW ws, NEW gate \in GatesOn(ws)
  PROVE  Spider(gate) \in Spiders
<1>1. AngleOf(gate) \in Int
  BY DEF AngleOf, GatesOn
<1>. QED
  BY <1>1 DEF Spider, Spiders

LEMMA ZxWalkExists ==
  ASSUME NEW ws, NEW gates \in Seq(GatesOn(ws))
  PROVE  \E f : ZxWalk(gates, f)
<1>. DEFINE n == Len(gates)
            Q == [i \in 0 .. n |-> Seq(Spiders)]
            G == [i \in 1 .. n |-> [t \in Q[i - 1] |-> FuseInto(t, Spider(gates[i]))]]
<1>0. n \in Nat /\ \A i \in 1 .. n : Spider(gates[i]) \in Spiders
  BY SpiderIs
<1>1. <<>> \in Q[0] /\ \A i \in 1 .. n : \A t \in Q[i - 1] : G[i][t] \in Q[i]
  BY <1>0, FuseIntoIs
<1>2. PICK f : Walk(n, <<>>, G, f) /\ Stays(n, Q, f)
  <2>. HIDE DEF n, Q, G
  <2>. QED
    BY <1>0, <1>1, WalkIn
<1>. DEFINE H == [i \in 1 .. n |-> FuseInto(f[i - 1], Spider(gates[i]))]
<1>3. \A i \in 1 .. n : f[i - 1] \in Q[i - 1] => G[i][f[i - 1]] = H[i]
  BY <1>0
<1>4. f = [i \in 0 .. n |-> IF i = 0 THEN <<>> ELSE H[i]]
  <2>1. Walk(n, <<>>, G, f) /\ Stays(n, Q, f)
    BY <1>2
  <2>. HIDE DEF n, Q, G, H
  <2>2. Reaches(n, Q, G, f, H)
    BY <1>3 DEF Reaches
  <2>3. Solves(n, <<>>, f, H)
    BY <1>0, <2>1, <2>2, WalkIs
  <2>. QED
    BY <2>3 DEF Solves
<1>5. ZxWalk(gates, f)
  <2>1. \A i \in 0 .. n : i # 0 => H[i] = FuseInto(f[i - 1], Spider(gates[i]))
    BY <1>0
  <2>. HIDE DEF H
  <2>. QED
    BY <1>4, <2>1 DEF ZxWalk
<1>. QED
  BY <1>5

\* What is read off a diagram is rotations of the one wire.
LEMMA SimplifiedIs ==
  ASSUME NEW ws, NEW gates \in Seq(GatesOn(ws))
  PROVE  /\ Simplified(gates) \in Seq(GatesOn(1 .. 1))
         /\ \A k \in 1 .. Len(Simplified(gates)) : Simplified(gates)[k].name \in {"Rx", "Rz"}
<1>. DEFINE f == CHOOSE f : ZxWalk(gates, f)
            n == Len(gates)
            chain == Trimmed(f[n])
            new == [i \in DOMAIN chain |->
                      Rotation(IF chain[i].colour = "Z" THEN "Rz" ELSE "Rx", 1, chain[i].phase)]
<1>0. n \in Nat
  OBVIOUS
<1>1. Simplified(gates) = new
  BY DEF Simplified, ZxWalk
<1>2. ZxWalk(gates, f)
  BY ZxWalkExists
<1>. HIDE DEF f
<1>3. f[0] = <<>> /\ \A i \in 1 .. n : f[i] = FuseInto(f[i - 1], Spider(gates[i]))
  BY <1>2 DEF ZxWalk
<1>4. \A i \in 0 .. n : f[i] \in Seq(Spiders)
  <2>. DEFINE Q == [i \in 0 .. n |-> Seq(Spiders)]
  <2>1. f[0] \in Q[0]
    BY <1>0, <1>3
  <2>2. \A i \in 1 .. n : f[i - 1] \in Q[i - 1] => f[i] \in Q[i]
    <3>. TAKE i \in 1 .. n
    <3>. HAVE f[i - 1] \in Q[i - 1]
    <3>1. Spider(gates[i]) \in Spiders /\ f[i - 1] \in Seq(Spiders)
      BY <1>0, SpiderIs
    <3>2. FuseInto(f[i - 1], Spider(gates[i])) \in Seq(Spiders)
      BY <3>1, FuseIntoIs
    <3>. QED
      BY <1>0, <1>3, <3>2
  <2>3. \A i \in 0 .. n : f[i] \in Q[i]
    <3>. HIDE DEF n, Q
    <3>. QED
      BY <1>0, <2>1, <2>2, Steps
  <2>. QED
    BY <2>3
<1>5. chain \in Seq(Spiders)
  BY <1>0, <1>4, TrimmedIs
<1>. HIDE DEF chain
<1>6. Len(chain) \in Nat /\ DOMAIN chain = 1 .. Len(chain) /\ \A k \in 1 .. Len(chain) : chain[k].phase \in Int
  <2>1. Len(chain) \in Nat /\ DOMAIN chain = 1 .. Len(chain)
    BY <1>5
  <2>2. \A k \in 1 .. Len(chain) : chain[k] \in Spiders
    BY <1>5
  <2>. QED
    BY <2>1, <2>2 DEF Spiders
<1>7. ASSUME NEW k \in 1 .. Len(chain)
      PROVE  new[k] \in GatesOn(1 .. 1) /\ new[k].name \in {"Rx", "Rz"}
  <2>1. PICK name \in {"Rx", "Rz"} : name = IF chain[k].colour = "Z" THEN "Rz" ELSE "Rx"
    OBVIOUS
  <2>2. new[k] = [op |-> "gate", name |-> name, on |-> <<1>>, angle |-> chain[k].phase]
    BY <1>6, <2>1 DEF Rotation, Gate
  <2>3. name \in DOMAIN InverseOf /\ Arity(name) = 1
    BY GateNames
  <2>4. <<1>> \in Seq(1 .. 1) /\ Len(<<1>>) = 1
    OBVIOUS
  <2>5. new[k] \in GatesOn(1 .. 1)
    <3>. HIDE DEF new
    <3>. QED
      BY <1>6, <2>2, <2>3, <2>4, GateIs
  <2>6. new[k].name = name
    BY <2>2
  <2>. QED
    BY <2>1, <2>5, <2>6
<1>8. new \in Seq(GatesOn(1 .. 1)) /\ Len(new) = Len(chain)
  <2>1. new \in [1 .. Len(chain) -> GatesOn(1 .. 1)]
    BY <1>6, <1>7
  <2>. HIDE DEF new
  <2>. QED
    BY <1>6, <2>1, FunctionIsSeq
<1>. QED
  BY <1>1, <1>7, <1>8

\* A circuit without T gates.
LEMMA NoT ==
  ASSUME NEW ws, NEW gates \in Seq(GatesOn(ws)),
         \A k \in 1 .. Len(gates) : gates[k].name \notin TGates
  PROVE  TCount(gates) = 0
<1>1. {i \in 1 .. Len(gates) : gates[i].name \in TGates} = {}
  OBVIOUS
<1>. QED
  BY <1>1, TCountIs, FS_EmptySet

LEMMA Itself ==
  ASSUME NEW ws, NEW gates \in Seq(GatesOn(ws))
  PROVE  Better(gates, gates, ws)
<1>1. TCount(gates) \in Nat /\ Len(gates) \in Nat
  BY TCountIs
<1>. QED
  BY <1>1 DEF Better, Cheaper, NoDearer

LEMMA ZxIsBetter ==
  ASSUME NEW n \in Nat, NEW gates \in Seq(GatesOn(1 .. n))
  PROVE  Better(ZxSimplification(gates, n), gates, 1 .. n)
<1>. DEFINE new == Simplified(gates)
<1>1. ZxSimplification(gates, n) = gates \/ (n = 1 /\ Len(new) < Len(gates) /\ ZxSimplification(gates, n) = new)
  BY DEF ZxSimplification
<1>2. CASE ZxSimplification(gates, n) = gates
  BY <1>2, Itself
<1>3. CASE n = 1 /\ Len(new) < Len(gates) /\ ZxSimplification(gates, n) = new
  <2>1. new \in Seq(GatesOn(1 .. n)) /\ \A k \in 1 .. Len(new) : new[k].name \in {"Rx", "Rz"}
    BY <1>3, SimplifiedIs
  <2>. HIDE DEF new
  <2>2. TCount(new) = 0 /\ TCount(gates) \in Nat
    BY <2>1, NoT, TCountIs DEF TGates
  <2>3. EmitsGates(new)
    <3>1. \A k \in DOMAIN new : new[k].op = "gate" /\ k \in 1 .. Len(new)
      BY <2>1 DEF GatesOn
    <3>. QED
      BY <2>1, <3>1 DEF EmitsGates, NoKeyword
  <2>. QED
    BY <1>3, <2>1, <2>2, <2>3 DEF Better, Cheaper, NoDearer
<1>. QED
  BY <1>1, <1>2, <1>3

(***************************************************************************)
(* clifford_t_opt.                                                         *)
(***************************************************************************)

\* The func rebuilt has the names and wires of the new gates.
LEMMA RebuiltIsCheaper ==
  ASSUME NEW ws, NEW gates \in Seq(GatesOn(ws)), NEW new, Cheaper(new, gates, ws)
  PROVE  Cheaper(Rebuilt(gates, new), gates, ws)
<1>. DEFINE made == [i \in DOMAIN new |-> Gate(new[i].name, new[i].on)]
<1>1. CASE Rebuilt(gates, new) = gates
  BY <1>1, Itself DEF Better
<1>2. CASE Rebuilt(gates, new) = made
  <2>1. new \in Seq(GatesOn(ws)) /\ Len(new) \in Nat /\ DOMAIN new = 1 .. Len(new)
    <3>1. new \in Seq(GatesOn(ws))
      BY DEF Cheaper
    <3>. QED
      BY <3>1
  <2>2. ASSUME NEW k \in 1 .. Len(new)
        PROVE  made[k] \in GatesOn(ws) /\ made[k].name = new[k].name /\ made[k].op = "gate"
    <3>1. new[k] \in GatesOn(ws)
      BY <2>1
    <3>2. made[k] = [op |-> "gate", name |-> new[k].name, on |-> new[k].on, angle |-> None]
      BY <2>1 DEF Gate
    <3>3. /\ new[k].name \in DOMAIN InverseOf /\ new[k].on \in Seq(ws)
          /\ Len(new[k].on) = Arity(new[k].name)
      BY <3>1 DEF GatesOn
    <3>4. made[k] \in GatesOn(ws)
      <4>. HIDE DEF made
      <4>. QED
        BY <3>2, <3>3, GateIs
    <3>. QED
      BY <3>2, <3>4
  <2>3. made \in Seq(GatesOn(ws)) /\ Len(made) = Len(new) /\ DOMAIN made = 1 .. Len(new)
    <3>1. made \in [1 .. Len(new) -> GatesOn(ws)]
      BY <2>1, <2>2
    <3>. HIDE DEF made
    <3>. QED
      BY <2>1, <3>1, FunctionIsSeq
  <2>. HIDE DEF made
  <2>4. TCount(made) = TCount(new)
    <3>1. {i \in 1 .. Len(made) : made[i].name \in TGates} = {i \in 1 .. Len(new) : new[i].name \in TGates}
      BY <2>2, <2>3
    <3>2. TCount(made) = Cardinality({i \in 1 .. Len(made) : made[i].name \in TGates})
      BY <2>3, TCountIs
    <3>3. TCount(new) = Cardinality({i \in 1 .. Len(new) : new[i].name \in TGates})
      BY <2>1, TCountIs
    <3>. QED
      BY <3>1, <3>2, <3>3
  <2>. QED
    BY <1>2, <2>3, <2>4 DEF Cheaper, NoDearer
<1>. QED
  BY <1>1, <1>2 DEF Rebuilt

\* Gates of a tableau that only has signs.
Paulis(n) == {g \in Seq(GatesOn(1 .. n)) : \A k \in 1 .. Len(g) : g[k].name \in {"X", "Y", "Z"}}

PauliOf(tableau, w) ==
  LET rx == tableau["X", w].negative   rz == tableau["Z", w].negative
  IN CASE rx /\ rz -> <<Gate("Y", <<w>>)>>
       [] rx /\ ~rz -> <<Gate("Z", <<w>>)>>
       [] ~rx /\ rz -> <<Gate("X", <<w>>)>>
       [] OTHER -> <<>>

PauliWalk(tableau, n, f) ==
  f = [w \in 0 .. n |-> IF w = 0 THEN <<>> ELSE f[w - 1] \o PauliOf(tableau, w)]

LEMMA PauliOfIs ==
  ASSUME NEW n \in Nat, NEW tableau, NEW w \in 1 .. n
  PROVE  PauliOf(tableau, w) \in Paulis(n)
<1>1. ASSUME NEW name \in {"X", "Y", "Z"} PROVE <<Gate(name, <<w>>)>> \in Paulis(n)
  <2>1. name \in DOMAIN InverseOf /\ Arity(name) = 1
    BY GateNames
  <2>2. Gate(name, <<w>>) = [op |-> "gate", name |-> name, on |-> <<w>>, angle |-> None]
    BY DEF Gate
  <2>3. <<w>> \in Seq(1 .. n) /\ Len(<<w>>) = 1
    OBVIOUS
  <2>4. Gate(name, <<w>>) \in GatesOn(1 .. n)
    BY <2>1, <2>2, <2>3, GateIs
  <2>5. Gate(name, <<w>>).name = name
    BY <2>2
  <2>. QED
    BY <2>4, <2>5 DEF Paulis
<1>2. <<>> \in Paulis(n)
  BY DEF Paulis
<1>3. PauliOf(tableau, w) \in {<<Gate("Y", <<w>>)>>, <<Gate("Z", <<w>>)>>, <<Gate("X", <<w>>)>>, <<>>}
  BY DEF PauliOf
<1>. QED
  BY <1>1, <1>2, <1>3

LEMMA PaulisConcat ==
  ASSUME NEW n \in Nat, NEW g \in Paulis(n), NEW h \in Paulis(n)
  PROVE  g \o h \in Paulis(n)
<1>1. /\ g \in Seq(GatesOn(1 .. n)) /\ h \in Seq(GatesOn(1 .. n))
      /\ \A k \in 1 .. Len(g) : g[k].name \in {"X", "Y", "Z"}
      /\ \A k \in 1 .. Len(h) : h[k].name \in {"X", "Y", "Z"}
  BY DEF Paulis
<1>2. /\ g \o h \in Seq(GatesOn(1 .. n)) /\ Len(g \o h) = Len(g) + Len(h)
      /\ Len(g) \in Nat /\ Len(h) \in Nat
      /\ \A k \in 1 .. Len(g) + Len(h) : (g \o h)[k] = IF k <= Len(g) THEN g[k] ELSE h[k - Len(g)]
  BY <1>1, ConcatProperties
<1>3. ASSUME NEW k \in 1 .. Len(g \o h) PROVE (g \o h)[k].name \in {"X", "Y", "Z"}
  <2>1. k \in 1 .. Len(g) \/ k - Len(g) \in 1 .. Len(h)
    BY <1>2
  <2>. QED
    BY <1>1, <1>2, <2>1
<1>. QED
  BY <1>2, <1>3 DEF Paulis

LEMMA PauliWalkExists ==
  ASSUME NEW n \in Nat, NEW tableau
  PROVE  \E f : PauliWalk(tableau, n, f)
<1>. DEFINE Q == [i \in 0 .. n |-> Paulis(n)]
            G == [i \in 1 .. n |-> [t \in Q[i - 1] |-> t \o PauliOf(tableau, i)]]
<1>0. \A i \in 1 .. n : PauliOf(tableau, i) \in Paulis(n)
  BY PauliOfIs
<1>1. <<>> \in Q[0] /\ \A i \in 1 .. n : \A t \in Q[i - 1] : G[i][t] \in Q[i]
  <2>1. <<>> \in Paulis(n)
    BY DEF Paulis
  <2>. QED
    BY <1>0, <2>1, PaulisConcat
<1>2. PICK f : Walk(n, <<>>, G, f) /\ Stays(n, Q, f)
  <2>. HIDE DEF Q, G
  <2>. QED
    BY <1>1, WalkIn
<1>. DEFINE H == [i \in 1 .. n |-> f[i - 1] \o PauliOf(tableau, i)]
<1>3. \A i \in 1 .. n : f[i - 1] \in Q[i - 1] => G[i][f[i - 1]] = H[i]
  OBVIOUS
<1>4. f = [i \in 0 .. n |-> IF i = 0 THEN <<>> ELSE H[i]]
  <2>1. Walk(n, <<>>, G, f) /\ Stays(n, Q, f)
    BY <1>2
  <2>. HIDE DEF Q, G, H
  <2>2. Reaches(n, Q, G, f, H)
    BY <1>3 DEF Reaches
  <2>3. Solves(n, <<>>, f, H)
    BY <2>1, <2>2, WalkIs
  <2>. QED
    BY <2>3 DEF Solves
<1>5. PauliWalk(tableau, n, f)
  <2>1. \A i \in 0 .. n : i # 0 => H[i] = f[i - 1] \o PauliOf(tableau, i)
    OBVIOUS
  <2>. HIDE DEF H
  <2>. QED
    BY <1>4, <2>1 DEF PauliWalk
<1>. QED
  BY <1>5

LEMMA PauliGatesIs ==
  ASSUME NEW n \in Nat, NEW tableau
  PROVE  PauliGates(tableau, n) \in Paulis(n)
<1>. DEFINE f == CHOOSE f : PauliWalk(tableau, n, f)
            Q == [i \in 0 .. n |-> Paulis(n)]
<1>1. PauliGates(tableau, n) = f[n]
  BY DEF PauliGates, PauliWalk, PauliOf
<1>2. PauliWalk(tableau, n, f)
  BY PauliWalkExists
<1>. HIDE DEF f
<1>3. f[0] = <<>> /\ \A i \in 1 .. n : f[i] = f[i - 1] \o PauliOf(tableau, i)
  <2>1. f = [w \in 0 .. n |-> IF w = 0 THEN <<>> ELSE f[w - 1] \o PauliOf(tableau, w)]
    BY <1>2 DEF PauliWalk
  <2>2. \A w \in 0 .. n : f[w] = IF w = 0 THEN <<>> ELSE f[w - 1] \o PauliOf(tableau, w)
    BY <2>1, Zenon
  <2>3. 0 \in 0 .. n /\ \A i \in 1 .. n : i \in 0 .. n /\ i # 0
    OBVIOUS
  <2>. QED
    BY <2>2, <2>3, Zenon
<1>4. \A i \in 0 .. n : f[i] \in Q[i]
  <2>1. f[0] \in Q[0]
    BY <1>3 DEF Paulis
  <2>2. \A i \in 1 .. n : f[i - 1] \in Q[i - 1] => f[i] \in Q[i]
    <3>. TAKE i \in 1 .. n
    <3>. HAVE f[i - 1] \in Q[i - 1]
    <3>1. f[i - 1] \in Paulis(n)
      OBVIOUS
    <3>2. f[i - 1] \o PauliOf(tableau, i) \in Paulis(n)
      BY <3>1, PauliOfIs, PaulisConcat
    <3>3. f[i] \in Paulis(n)
      BY <1>3, <3>2, Zenon
    <3>. QED
      BY <3>3
  <2>. HIDE DEF Q
  <2>. QED
    BY <2>1, <2>2, Steps
<1>. QED
  BY <1>1, <1>4

LEMMA CliffordIsCheaper ==
  ASSUME NEW n \in Nat, NEW gates \in Seq(GatesOn(1 .. n))
  PROVE  Cheaper(OptimizeClifford(gates, n), gates, 1 .. n)
<1>. DEFINE pauli == PauliGates(Tableau(gates, n), n)
<1>1. \/ OptimizeClifford(gates, n) = gates
      \/ OptimizeClifford(gates, n) = pauli /\ (pauli = <<>> \/ Len(pauli) < Len(gates))
  BY DEF OptimizeClifford
<1>2. CASE OptimizeClifford(gates, n) = gates
  BY <1>2, Itself DEF Better
<1>3. CASE OptimizeClifford(gates, n) = pauli /\ (pauli = <<>> \/ Len(pauli) < Len(gates))
  <2>1. /\ pauli \in Seq(GatesOn(1 .. n))
        /\ \A k \in 1 .. Len(pauli) : pauli[k].name \in {"X", "Y", "Z"}
    BY PauliGatesIs DEF Paulis
  <2>. HIDE DEF pauli
  <2>2. TCount(pauli) = 0 /\ TCount(gates) \in Nat /\ Len(gates) \in Nat
    BY <2>1, NoT, TCountIs DEF TGates
  <2>3. Len(pauli) <= Len(gates)
    BY <1>3, <2>1, <2>2
  <2>. QED
    BY <1>3, <2>1, <2>2, <2>3 DEF Cheaper, NoDearer
<1>. QED
  BY <1>1, <1>2, <1>3

\* T gates of a circuit with another behind it.
LEMMA TCountConcat ==
  ASSUME NEW ws, NEW g \in Seq(GatesOn(ws)), NEW h \in Seq(GatesOn(ws))
  PROVE  g \o h \in Seq(GatesOn(ws)) /\ TCount(g \o h) = TCount(g) + TCount(h)
<1>. DEFINE S == {i \in 1 .. Len(g) : g[i].name \in TGates}
            T == {i \in 1 .. Len(h) : h[i].name \in TGates}
            U == {i + Len(g) : i \in T}
<1>1. Len(g) \in Nat /\ Len(h) \in Nat
  OBVIOUS
<1>2. /\ g \o h \in Seq(GatesOn(ws)) /\ Len(g \o h) = Len(g) + Len(h)
      /\ \A k \in 1 .. Len(g) + Len(h) : (g \o h)[k] = IF k <= Len(g) THEN g[k] ELSE h[k - Len(g)]
  BY ConcatProperties
<1>3. {i \in 1 .. Len(g \o h) : (g \o h)[i].name \in TGates} = S \cup U
  <2>1. ASSUME NEW k \in 1 .. Len(g) + Len(h)
        PROVE  (g \o h)[k].name \in TGates <=> k \in S \cup U
    <3>1. CASE k <= Len(g)
      <4>1. k \in 1 .. Len(g) /\ (g \o h)[k] = g[k]
        BY <1>1, <1>2, <3>1
      <4>2. k \notin U
        BY <1>1, <3>1
      <4>. QED
        BY <4>1, <4>2
    <3>2. CASE ~(k <= Len(g))
      <4>1. k - Len(g) \in 1 .. Len(h) /\ (g \o h)[k] = h[k - Len(g)] /\ (k - Len(g)) + Len(g) = k
        BY <1>1, <1>2, <3>2
      <4>2. k \in U <=> k - Len(g) \in T
        BY <1>1, <4>1
      <4>. QED
        BY <1>1, <3>2, <4>1, <4>2
    <3>. QED
      BY <3>1, <3>2
  <2>2. \A k \in S \cup U : k \in 1 .. Len(g) + Len(h)
    BY <1>1
  <2>. HIDE DEF S, U
  <2>. QED
    BY <1>2, <2>1, <2>2
<1>4. IsFiniteSet(S) /\ IsFiniteSet(T) /\ TCount(g) = Cardinality(S) /\ TCount(h) = Cardinality(T)
  BY TCountIs
<1>5. IsFiniteSet(U) /\ Cardinality(U) = Cardinality(T)
  <2>. DEFINE up == [i \in T |-> i + Len(g)]
              down == [k \in U |-> k - Len(g)]
  <2>1. (\A k \in U : down[k] \in T) /\ \A k, m \in U : down[k] = down[m] => k = m
    <3>1. \A k \in U : k \in Int /\ down[k] \in T
      BY <1>1
    <3>2. \A k, m \in U : k - Len(g) = m - Len(g) => k = m
      BY <1>1
    <3>. QED
      BY <3>1, <3>2
  <2>2. (\A i \in T : up[i] \in U) /\ \A i, j \in T : up[i] = up[j] => i = j
    BY <1>1
  <2>. HIDE DEF S, T, U, up, down
  <2>3. IsFiniteSet(U) /\ Cardinality(U) <= Cardinality(T)
    BY <1>4, <2>1, NoLarger
  <2>4. Cardinality(T) <= Cardinality(U)
    BY <2>2, <2>3, NoLarger
  <2>. QED
    BY <1>4, <2>3, <2>4, FS_CardinalityType
<1>6. S \cap U = {}
  BY <1>1
<1>7. TCount(g \o h) = Cardinality(S \cup U)
  <2>. HIDE DEF S, U
  <2>. QED
    BY <1>2, <1>3, TCountIs
<1>. HIDE DEF S, T, U
<1>8. Cardinality(S \cup U) = Cardinality(S) + Cardinality(U)
  <2>1. Cardinality(S \cup U) = Cardinality(S) + Cardinality(U) - Cardinality(S \cap U)
    BY <1>4, <1>5, FS_Union
  <2>2. Cardinality(S \cap U) = 0
    BY <1>6, FS_EmptySet
  <2>3. Cardinality(S) \in Nat /\ Cardinality(U) \in Nat
    BY <1>4, <1>5, FS_CardinalityType
  <2>. QED
    BY <2>1, <2>2, <2>3
<1>. QED
  BY <1>2, <1>4, <1>5, <1>7, <1>8

LEMMA TCountAppend ==
  ASSUME NEW ws, NEW g \in Seq(GatesOn(ws)), NEW gate \in GatesOn(ws)
  PROVE  /\ Append(g, gate) \in Seq(GatesOn(ws)) /\ Len(Append(g, gate)) = Len(g) + 1
         /\ TCount(Append(g, gate)) = TCount(g) + IF gate.name \in TGates THEN 1 ELSE 0
<1>1. <<gate>> \in Seq(GatesOn(ws)) /\ Len(<<gate>>) = 1 /\ <<gate>>[1] = gate
  OBVIOUS
<1>2. TCount(<<gate>>) = IF gate.name \in TGates THEN 1 ELSE 0
  <2>1. TCount(<<gate>>) = Cardinality({i \in 1 .. 1 : <<gate>>[i].name \in TGates})
    BY <1>1, TCountIs
  <2>2. {i \in 1 .. 1 : <<gate>>[i].name \in TGates} = IF gate.name \in TGates THEN {1} ELSE {}
    BY <1>1
  <2>3. Cardinality({1}) = 1 /\ Cardinality({}) = 0
    BY FS_Singleton, FS_EmptySet
  <2>. QED
    BY <2>1, <2>2, <2>3
<1>3. Append(g, gate) = g \o <<gate>>
  BY <1>1, AppendIsConcat
<1>4. TCount(g \o <<gate>>) = TCount(g) + TCount(<<gate>>)
  BY <1>1, TCountConcat
<1>5. Append(g, gate) \in Seq(GatesOn(ws)) /\ Len(Append(g, gate)) = Len(g) + 1
  BY AppendProperties
<1>. QED
  BY <1>2, <1>3, <1>4, <1>5

LEMMA NoGates ==
  ASSUME NEW ws
  PROVE  <<>> \in Seq(GatesOn(ws)) /\ Len(<<>>) = 0 /\ TCount(<<>>) = 0
<1>1. <<>> \in Seq(GatesOn(ws)) /\ Len(<<>>) = 0
  OBVIOUS
<1>2. \A k \in 1 .. Len(<<>>) : <<>>[k].name \notin TGates
  BY <1>1
<1>. QED
  BY <1>1, <1>2, NoT

LEMMA OneGate ==
  ASSUME NEW ws, NEW a \in GatesOn(ws)
  PROVE  /\ <<a>> \in Seq(GatesOn(ws)) /\ Len(<<a>>) = 1
         /\ TCount(<<a>>) = IF a.name \in TGates THEN 1 ELSE 0
<1>1. Append(<<>>, a) = <<a>> /\ Len(<<a>>) = 1
  OBVIOUS
<1>2. <<>> \in Seq(GatesOn(ws)) /\ TCount(<<>>) = 0
  BY NoGates
<1>3. /\ Append(<<>>, a) \in Seq(GatesOn(ws))
      /\ TCount(Append(<<>>, a)) = TCount(<<>>) + IF a.name \in TGates THEN 1 ELSE 0
  BY <1>2, TCountAppend
<1>. QED
  BY <1>1, <1>2, <1>3

LEMMA TwoGates ==
  ASSUME NEW ws, NEW a \in GatesOn(ws), NEW b \in GatesOn(ws)
  PROVE  /\ <<a, b>> \in Seq(GatesOn(ws)) /\ Len(<<a, b>>) = 2
         /\ TCount(<<a, b>>) = TCount(<<a>>) + IF b.name \in TGates THEN 1 ELSE 0
<1>1. Append(<<a>>, b) = <<a, b>> /\ Len(<<a, b>>) = 2
  <2>. DEFINE s == Append(<<a>>, b)
  <2>1. <<a>> \in Seq(GatesOn(ws)) /\ Len(<<a>>) = 1 /\ <<a>>[1] = a
    OBVIOUS
  <2>2. s \in Seq(GatesOn(ws)) /\ Len(s) = 2 /\ s[1] = a /\ s[2] = b
    BY <2>1, AppendProperties
  <2>3. <<a, b>> \in Seq(GatesOn(ws)) /\ Len(<<a, b>>) = 2 /\ <<a, b>>[1] = a /\ <<a, b>>[2] = b
    OBVIOUS
  <2>. HIDE DEF s
  <2>4. \A i \in 1 .. Len(s) : s[i] = <<a, b>>[i]
    BY <2>2, <2>3
  <2>5. s = <<a, b>>
    BY <2>2, <2>3, <2>4, SeqEqual
  <2>. QED
    BY <2>3, <2>5 DEF s
<1>2. <<a>> \in Seq(GatesOn(ws))
  BY OneGate
<1>3. /\ Append(<<a>>, b) \in Seq(GatesOn(ws))
      /\ TCount(Append(<<a>>, b)) = TCount(<<a>>) + IF b.name \in TGates THEN 1 ELSE 0
  BY <1>2, TCountAppend
<1>. QED
  BY <1>1, <1>3

Piece(c, on) == [k \in DOMAIN CoeffGates[c] |-> Gate(CoeffGates[c][k], on)]

\* The gates of a coefficient: one T gate if it is odd.
LEMMA PieceIs ==
  ASSUME NEW ws, NEW on \in Seq(ws), Len(on) = 1, NEW c \in 0 .. 7
  PROVE  /\ Piece(c, on) \in Seq(GatesOn(ws)) /\ Len(Piece(c, on)) = Len(CoeffGates[c]) /\ Len(Piece(c, on)) \in 0 .. 2
         /\ TCount(Piece(c, on)) = c % 2 /\ (c \in {1, 7} => Len(Piece(c, on)) = 1)
<1>. DEFINE piece == Piece(c, on)
<1>0. piece = [k \in DOMAIN CoeffGates[c] |-> Gate(CoeffGates[c][k], on)]
  BY DEF Piece
<1>. SUFFICES /\ piece \in Seq(GatesOn(ws)) /\ Len(piece) = Len(CoeffGates[c]) /\ Len(piece) \in 0 .. 2
              /\ TCount(piece) = c % 2 /\ (c \in {1, 7} => Len(piece) = 1)
  OBVIOUS
<1>. HIDE DEF piece
<1>1. ASSUME NEW name \in {"T", "T_dag", "S", "S_dag", "Z"}
      PROVE  /\ Gate(name, on) \in GatesOn(ws) /\ Gate(name, on).name = name
             /\ <<Gate(name, on)>> \in Seq(GatesOn(ws))
             /\ TCount(<<Gate(name, on)>>) = IF name \in {"T", "T_dag"} THEN 1 ELSE 0
  <2>1. name \in DOMAIN InverseOf /\ Arity(name) = 1
    BY GateNames
  <2>2. Gate(name, on) = [op |-> "gate", name |-> name, on |-> on, angle |-> None]
    BY DEF Gate
  <2>3. Gate(name, on) \in GatesOn(ws)
    BY <2>1, <2>2, GateIs
  <2>4. Gate(name, on).name = name
    BY <2>2
  <2>. QED
    BY <2>3, <2>4, OneGate DEF TGates
<1>2. ASSUME NEW s \in {"S", "Z"}
      PROVE  LET two == <<Gate(s, on), Gate("T", on)>>
             IN two \in Seq(GatesOn(ws)) /\ Len(two) = 2 /\ TCount(two) = 1
  BY <1>1, TwoGates DEF TGates
<1>3. <<>> \in Seq(GatesOn(ws)) /\ TCount(<<>>) = 0 /\ Len(<<>>) = 0
  BY NoGates
<1>4. ASSUME NEW name, CoeffGates[c] = <<name>>
      PROVE  piece = <<Gate(name, on)>> /\ Len(piece) = 1 /\ Len(CoeffGates[c]) = 1
  <2>1. DOMAIN CoeffGates[c] = {1} /\ CoeffGates[c][1] = name
    BY <1>4
  <2>2. piece = [k \in {1} |-> Gate(name, on)]
    BY <1>0, <2>1
  <2>3. DOMAIN <<Gate(name, on)>> = {1} /\ <<Gate(name, on)>>[1] = Gate(name, on)
    OBVIOUS
  <2>4. piece = <<Gate(name, on)>>
    BY <2>2, <2>3
  <2>. QED
    BY <1>4, <2>4
<1>5. ASSUME NEW name, CoeffGates[c] = <<name, "T">>
      PROVE  /\ piece = <<Gate(name, on), Gate("T", on)>>
             /\ Len(piece) = 2 /\ Len(CoeffGates[c]) = 2
  <2>1. piece = <<Gate(name, on), Gate("T", on)>>
    BY <1>0, <1>5
  <2>. QED
    BY <1>5, <2>1
<1>6. CASE c = 0
  <2>1. CoeffGates[c] = <<>>
    BY <1>6 DEF CoeffGates
  <2>2. piece = <<>>
    BY <1>0, <2>1
  <2>. QED
    BY <1>3, <1>6, <2>1, <2>2
<1>7. CASE c = 1
  <2>1. CoeffGates[c] = <<"T">>
    BY <1>7 DEF CoeffGates
  <2>2. piece = <<Gate("T", on)>> /\ Len(piece) = 1 /\ Len(CoeffGates[c]) = 1
    BY <2>1, <1>4
  <2>. QED
    BY <1>1, <1>7, <2>2
<1>8. CASE c = 2
  <2>1. CoeffGates[c] = <<"S">>
    BY <1>8 DEF CoeffGates
  <2>2. piece = <<Gate("S", on)>> /\ Len(piece) = 1 /\ Len(CoeffGates[c]) = 1
    BY <2>1, <1>4
  <2>. QED
    BY <1>1, <1>8, <2>2
<1>9. CASE c = 3
  <2>1. CoeffGates[c] = <<"S", "T">>
    BY <1>9 DEF CoeffGates
  <2>2. /\ piece = <<Gate("S", on), Gate("T", on)>>
        /\ Len(piece) = 2 /\ Len(CoeffGates[c]) = 2
    BY <2>1, <1>5
  <2>. QED
    BY <1>2, <1>9, <2>2
<1>10. CASE c = 4
  <2>1. CoeffGates[c] = <<"Z">>
    BY <1>10 DEF CoeffGates
  <2>2. piece = <<Gate("Z", on)>> /\ Len(piece) = 1 /\ Len(CoeffGates[c]) = 1
    BY <2>1, <1>4
  <2>. QED
    BY <1>1, <1>10, <2>2
<1>11. CASE c = 5
  <2>1. CoeffGates[c] = <<"Z", "T">>
    BY <1>11 DEF CoeffGates
  <2>2. /\ piece = <<Gate("Z", on), Gate("T", on)>>
        /\ Len(piece) = 2 /\ Len(CoeffGates[c]) = 2
    BY <2>1, <1>5
  <2>. QED
    BY <1>2, <1>11, <2>2
<1>12. CASE c = 6
  <2>1. CoeffGates[c] = <<"S_dag">>
    BY <1>12 DEF CoeffGates
  <2>2. piece = <<Gate("S_dag", on)>> /\ Len(piece) = 1 /\ Len(CoeffGates[c]) = 1
    BY <2>1, <1>4
  <2>. QED
    BY <1>1, <1>12, <2>2
<1>13. CASE c = 7
  <2>1. CoeffGates[c] = <<"T_dag">>
    BY <1>13 DEF CoeffGates
  <2>2. piece = <<Gate("T_dag", on)>> /\ Len(piece) = 1 /\ Len(CoeffGates[c]) = 1
    BY <2>1, <1>4
  <2>. QED
    BY <1>1, <1>13, <2>2
<1>. QED
  BY <1>6, <1>7, <1>8, <1>9, <1>10, <1>11, <1>12, <1>13

\* Blocks of phase polynomials.
BlockSeq(n) == {b \in Seq(GatesOn(1 .. n)) : \A i \in 1 .. Len(b) : b[i].name \in BlockGates}

ParityWalk(block, n, f) ==
  f = [i \in 0 .. Len(block) |->
         IF i = 0 THEN [w \in 1 .. n |-> {w}] ELSE ParityAfter(f[i - 1], block[i])]

LEMMA ParityAfterIs ==
  ASSUME NEW n \in Nat, NEW parity \in [1 .. n -> SUBSET (1 .. n)], NEW gate \in GatesOn(1 .. n)
  PROVE  ParityAfter(parity, gate) \in [1 .. n -> SUBSET (1 .. n)]
<1>1. CASE gate.name # "CNOT"
  BY <1>1 DEF ParityAfter
<1>2. CASE gate.name = "CNOT"
  <2>1. Len(gate.on) = 2 /\ gate.on \in Seq(1 .. n)
    BY <1>2, GateNames DEF GatesOn
  <2>2. gate.on[1] \in 1 .. n /\ gate.on[2] \in 1 .. n
    BY <2>1
  <2>3. SymDiff(parity[gate.on[2]], parity[gate.on[1]]) \in SUBSET (1 .. n)
    BY <2>2 DEF SymDiff
  <2>4. ParityAfter(parity, gate)
          = [parity EXCEPT ![gate.on[2]] = SymDiff(parity[gate.on[2]], parity[gate.on[1]])]
    BY <1>2 DEF ParityAfter
  <2>. QED
    BY <2>3, <2>4
<1>. QED
  BY <1>1, <1>2

LEMMA ParityWalkExists ==
  ASSUME NEW n \in Nat, NEW block \in BlockSeq(n)
  PROVE  \E f : ParityWalk(block, n, f)
<1>. DEFINE m == Len(block)
            a == [w \in 1 .. n |-> {w}]
            Q == [i \in 0 .. m |-> [1 .. n -> SUBSET (1 .. n)]]
            G == [i \in 1 .. m |-> [t \in Q[i - 1] |-> ParityAfter(t, block[i])]]
<1>0. m \in Nat /\ \A i \in 1 .. m : block[i] \in GatesOn(1 .. n)
  BY DEF BlockSeq
<1>1. a \in Q[0] /\ \A i \in 1 .. m : \A t \in Q[i - 1] : G[i][t] \in Q[i]
  BY <1>0, ParityAfterIs
<1>2. PICK f : Walk(m, a, G, f) /\ Stays(m, Q, f)
  <2>. HIDE DEF m, a, Q, G
  <2>. QED
    BY <1>0, <1>1, WalkIn
<1>. DEFINE H == [i \in 1 .. m |-> ParityAfter(f[i - 1], block[i])]
<1>3. \A i \in 1 .. m : f[i - 1] \in Q[i - 1] => G[i][f[i - 1]] = H[i]
  BY <1>0
<1>4. f = [i \in 0 .. m |-> IF i = 0 THEN a ELSE H[i]]
  <2>1. Walk(m, a, G, f) /\ Stays(m, Q, f)
    BY <1>2
  <2>. HIDE DEF m, a, Q, G, H
  <2>2. Reaches(m, Q, G, f, H)
    BY <1>3 DEF Reaches
  <2>3. Solves(m, a, f, H)
    BY <1>0, <2>1, <2>2, WalkIs
  <2>. QED
    BY <2>3 DEF Solves
<1>5. ParityWalk(block, n, f)
  <2>1. \A i \in 0 .. m : i # 0 => H[i] = ParityAfter(f[i - 1], block[i])
    BY <1>0
  <2>. HIDE DEF H
  <2>. QED
    BY <1>4, <2>1 DEF ParityWalk
<1>. QED
  BY <1>5

\* The parities of a block are sets of its wires.
ParitiesIn(parities, block, n) ==
  \A i \in 1 .. Len(block) : ParityAt(parities, block, i) \in SUBSET (1 .. n)

LEMMA ParitiesIs ==
  ASSUME NEW n \in Nat, NEW block \in BlockSeq(n)
  PROVE  ParitiesIn(Parities(block, n), block, n)
<1>. DEFINE f == CHOOSE f : ParityWalk(block, n, f)
            m == Len(block)
            Q == [i \in 0 .. m |-> [1 .. n -> SUBSET (1 .. n)]]
<1>0. m \in Nat /\ \A i \in 1 .. m : block[i] \in GatesOn(1 .. n)
  BY DEF BlockSeq
<1>1. Parities(block, n) = f
  BY DEF Parities, ParityWalk
<1>2. ParityWalk(block, n, f)
  BY ParityWalkExists
<1>. HIDE DEF f
<1>3. f[0] = [w \in 1 .. n |-> {w}] /\ \A i \in 1 .. m : f[i] = ParityAfter(f[i - 1], block[i])
  <2>1. \A i \in 0 .. m : f[i] = IF i = 0 THEN [w \in 1 .. n |-> {w}] ELSE ParityAfter(f[i - 1], block[i])
    BY <1>2, Zenon DEF ParityWalk
  <2>2. 0 \in 0 .. m /\ \A i \in 1 .. m : i \in 0 .. m /\ i # 0
    BY <1>0
  <2>. QED
    BY <2>1, <2>2, Zenon
<1>4. \A i \in 0 .. m : f[i] \in Q[i]
  <2>1. f[0] \in Q[0]
    BY <1>0, <1>3
  <2>2. ASSUME NEW i \in 1 .. m, f[i - 1] \in Q[i - 1] PROVE f[i] \in Q[i]
    <3>1. i \in 0 .. m /\ i - 1 \in 0 .. m
      BY <1>0
    <3>2. f[i - 1] \in [1 .. n -> SUBSET (1 .. n)] /\ f[i] = ParityAfter(f[i - 1], block[i])
      BY <1>3, <2>2, <3>1
    <3>3. f[i] \in [1 .. n -> SUBSET (1 .. n)]
      BY <1>0, <3>2, ParityAfterIs
    <3>. QED
      BY <3>1, <3>3
  <2>. HIDE DEF m, Q
  <2>. QED
    BY <1>0, <2>1, <2>2, Steps
<1>5. ASSUME NEW i \in 1 .. m PROVE ParityAt(f, block, i) \in SUBSET (1 .. n)
  <2>1. f[i - 1] \in [1 .. n -> SUBSET (1 .. n)]
    BY <1>0, <1>4
  <2>2. block[i].on[1] \in 1 .. n
    <3>1. block[i].on \in Seq(1 .. n) /\ Len(block[i].on) \in {1, 2}
      BY <1>0 DEF GatesOn, Arity
    <3>. QED
      BY <3>1
  <2>. QED
    BY <2>1, <2>2 DEF ParityAt
<1>. QED
  BY <1>1, <1>5 DEF ParitiesIn

\* Gate j turns parity p.
TurnsAt(parities, block, j, p) == block[j].name # "CNOT" /\ ParityAt(parities, block, j) = p

\* Coefficients after i gates: 0 for a parity no gate has turned, odd for one a single has.
Coeffs(parities, block, n, i) ==
  {c \in [SUBSET (1 .. n) -> 0 .. 7] :
     \A p \in SUBSET (1 .. n) :
       /\ (\A j \in 1 .. i : ~TurnsAt(parities, block, j, p)) => c[p] = 0
       /\ \A j \in 1 .. i :
            TurnsAt(parities, block, j, p)
            /\ (\A k \in 1 .. i : TurnsAt(parities, block, k, p) => k = j) => c[p] \in {1, 7}}

PolyNext(parities, block, c, i) ==
  IF block[i].name = "CNOT" THEN c
  ELSE [c EXCEPT ![ParityAt(parities, block, i)] = (@ + IF block[i].name = "T" THEN 1 ELSE 7) % 8]

PolyWalk(parities, block, n, f) ==
  f = [i \in 0 .. Len(block) |->
         IF i = 0 THEN [p \in SUBSET (1 .. n) |-> 0] ELSE PolyNext(parities, block, f[i - 1], i)]

LEMMA PolyNextIs ==
  ASSUME NEW n \in Nat, NEW block \in BlockSeq(n), NEW parities, ParitiesIn(parities, block, n),
         NEW i \in 1 .. Len(block), NEW c \in Coeffs(parities, block, n, i - 1)
  PROVE  PolyNext(parities, block, c, i) \in Coeffs(parities, block, n, i)
<1>. DEFINE P == SUBSET (1 .. n)
            q == ParityAt(parities, block, i)
            d == PolyNext(parities, block, c, i)
            turn == IF block[i].name = "T" THEN 1 ELSE 7
<1>0. Len(block) \in Nat /\ q \in P /\ c \in [P -> 0 .. 7]
  BY DEF BlockSeq, ParitiesIn, Coeffs
<1>. HIDE DEF P, q
<1>1. CASE block[i].name = "CNOT"
  <2>1. d = c /\ \A p \in P : ~TurnsAt(parities, block, i, p)
    BY <1>1 DEF PolyNext, TurnsAt
  <2>2. ASSUME NEW p \in P, \A j \in 1 .. i : ~TurnsAt(parities, block, j, p)
        PROVE  c[p] = 0
    <3>1. \A j \in 1 .. i - 1 : ~TurnsAt(parities, block, j, p)
      BY <1>0, <2>2
    <3>. QED
      BY <3>1 DEF Coeffs, P
  <2>3. ASSUME NEW p \in P, NEW j \in 1 .. i, TurnsAt(parities, block, j, p),
               \A k \in 1 .. i : TurnsAt(parities, block, k, p) => k = j
        PROVE  c[p] \in {1, 7}
    <3>1. j \in 1 .. i - 1
      BY <1>0, <2>1, <2>3
    <3>2. \A k \in 1 .. i - 1 : TurnsAt(parities, block, k, p) => k = j
      BY <1>0, <2>3
    <3>. QED
      BY <2>3, <3>1, <3>2 DEF Coeffs, P
  <2>. HIDE DEF d
  <2>. QED
    BY <1>0, <2>1, <2>2, <2>3 DEF Coeffs, P, d
<1>2. CASE block[i].name # "CNOT"
  <2>1. d = [c EXCEPT ![q] = (c[q] + turn) % 8]
    BY <1>2 DEF PolyNext, q
  <2>2. c[q] \in 0 .. 7 /\ turn \in {1, 7} /\ (c[q] + turn) % 8 \in 0 .. 7
    BY <1>0
  <2>3. d \in [P -> 0 .. 7] /\ d[q] = (c[q] + turn) % 8 /\ \A p \in P : p # q => d[p] = c[p]
    <3>. HIDE DEF turn
    <3>. QED
      BY <1>0, <2>1, <2>2
  <2>4. \A p \in P : TurnsAt(parities, block, i, p) <=> p = q
    BY <1>2 DEF TurnsAt, q
  <2>. HIDE DEF d
  <2>5. ASSUME NEW p \in P, \A j \in 1 .. i : ~TurnsAt(parities, block, j, p)
        PROVE  d[p] = 0
    <3>1. \A j \in 1 .. i - 1 : ~TurnsAt(parities, block, j, p)
      BY <1>0, <2>5
    <3>2. p # q
      BY <1>0, <2>4, <2>5
    <3>. QED
      BY <2>3, <3>1, <3>2 DEF Coeffs, P
  <2>6. ASSUME NEW p \in P, NEW j \in 1 .. i, TurnsAt(parities, block, j, p),
               \A k \in 1 .. i : TurnsAt(parities, block, k, p) => k = j
        PROVE  d[p] \in {1, 7}
    <3>1. CASE p = q
      <4>1. j = i
        BY <1>0, <2>4, <2>6, <3>1
      <4>2. \A k \in 1 .. i - 1 : ~TurnsAt(parities, block, k, p)
        BY <1>0, <2>6, <4>1
      <4>3. c[q] = 0
        BY <3>1, <4>2 DEF Coeffs, P
      <4>4. (0 + turn) % 8 \in {1, 7}
        OBVIOUS
      <4>. QED
        BY <2>3, <3>1, <4>3, <4>4
    <3>2. CASE p # q
      <4>1. j \in 1 .. i - 1
        BY <1>0, <2>4, <2>6, <3>2
      <4>2. \A k \in 1 .. i - 1 : TurnsAt(parities, block, k, p) => k = j
        BY <1>0, <2>6
      <4>3. c[p] \in {1, 7}
        BY <2>6, <4>1, <4>2 DEF Coeffs, P
      <4>. QED
        BY <2>3, <3>2, <4>3
    <3>. QED
      BY <3>1, <3>2
  <2>. QED
    BY <2>3, <2>5, <2>6 DEF Coeffs, P, d
<1>. QED
  BY <1>1, <1>2

LEMMA PolyWalkExists ==
  ASSUME NEW n \in Nat, NEW block \in BlockSeq(n), NEW parities, ParitiesIn(parities, block, n)
  PROVE  \E f : PolyWalk(parities, block, n, f)
<1>. DEFINE m == Len(block)
            a == [p \in SUBSET (1 .. n) |-> 0]
            Q == [i \in 0 .. m |-> Coeffs(parities, block, n, i)]
            G == [i \in 1 .. m |-> [t \in Q[i - 1] |-> PolyNext(parities, block, t, i)]]
<1>0. m \in Nat
  BY DEF BlockSeq
<1>1. a \in Q[0] /\ \A i \in 1 .. m : \A t \in Q[i - 1] : G[i][t] \in Q[i]
  <2>1. a \in Coeffs(parities, block, n, 0)
    BY DEF Coeffs
  <2>2. ASSUME NEW i \in 1 .. m, NEW t \in Coeffs(parities, block, n, i - 1)
        PROVE  PolyNext(parities, block, t, i) \in Coeffs(parities, block, n, i)
    BY PolyNextIs
  <2>. QED
    BY <1>0, <2>1, <2>2
<1>2. PICK f : Walk(m, a, G, f) /\ Stays(m, Q, f)
  <2>. HIDE DEF m, a, Q, G
  <2>. QED
    BY <1>0, <1>1, WalkIn
<1>. DEFINE H == [i \in 1 .. m |-> PolyNext(parities, block, f[i - 1], i)]
<1>3. \A i \in 1 .. m : f[i - 1] \in Q[i - 1] => G[i][f[i - 1]] = H[i]
  BY <1>0
<1>4. f = [i \in 0 .. m |-> IF i = 0 THEN a ELSE H[i]]
  <2>1. Walk(m, a, G, f) /\ Stays(m, Q, f)
    BY <1>2
  <2>. HIDE DEF m, a, Q, G, H
  <2>2. Reaches(m, Q, G, f, H)
    BY <1>3 DEF Reaches
  <2>3. Solves(m, a, f, H)
    BY <1>0, <2>1, <2>2, WalkIs
  <2>. QED
    BY <2>3 DEF Solves
<1>5. PolyWalk(parities, block, n, f)
  <2>1. \A i \in 0 .. m : i # 0 => H[i] = PolyNext(parities, block, f[i - 1], i)
    BY <1>0
  <2>. HIDE DEF H
  <2>. QED
    BY <1>4, <2>1 DEF PolyWalk
<1>. QED
  BY <1>5

LEMMA PolynomialIs ==
  ASSUME NEW n \in Nat, NEW block \in BlockSeq(n), NEW parities, ParitiesIn(parities, block, n)
  PROVE  Polynomial(parities, block, n) \in Coeffs(parities, block, n, Len(block))
<1>. DEFINE f == CHOOSE f : PolyWalk(parities, block, n, f)
            m == Len(block)
            Q == [i \in 0 .. m |-> Coeffs(parities, block, n, i)]
<1>0. m \in Nat
  BY DEF BlockSeq
<1>1. Polynomial(parities, block, n) = f[m]
  BY DEF Polynomial, PolyWalk, PolyNext
<1>2. PolyWalk(parities, block, n, f)
  BY PolyWalkExists
<1>. HIDE DEF f
<1>3. f[0] = [p \in SUBSET (1 .. n) |-> 0] /\ \A i \in 1 .. m : f[i] = PolyNext(parities, block, f[i - 1], i)
  BY <1>0, <1>2 DEF PolyWalk
<1>4. \A i \in 0 .. m : f[i] \in Q[i]
  <2>1. f[0] \in Q[0]
    BY <1>0, <1>3 DEF Coeffs
  <2>2. \A i \in 1 .. m : f[i - 1] \in Q[i - 1] => f[i] \in Q[i]
    BY <1>0, <1>3, PolyNextIs
  <2>. HIDE DEF m, Q
  <2>. QED
    BY <1>0, <2>1, <2>2, Steps
<1>. QED
  BY <1>0, <1>1, <1>4

\* The odd parities the first i gates turn, and the parities that owe a gate: a single one
\* of the first i turns them, and two gates stand for it.
OddSeen(parities, poly, block, n, i) ==
  {p \in SUBSET (1 .. n) : poly[p] % 2 = 1 /\ \E j \in 1 .. i : TurnsAt(parities, block, j, p)}

Owed(parities, poly, block, n, i) ==
  {p \in SUBSET (1 .. n) :
     /\ Len(CoeffGates[poly[p]]) = 2
     /\ \E j \in 1 .. i : /\ TurnsAt(parities, block, j, p)
                          /\ \A k \in 1 .. i : TurnsAt(parities, block, k, p) => k = j}

Synthesized(parities, poly, block, n, i) ==
  {g \in Seq(GatesOn(1 .. n)) :
     /\ TCount(g) <= Cardinality(OddSeen(parities, poly, block, n, i))
     /\ Len(g) <= i + Cardinality(Owed(parities, poly, block, n, i))}

LEMMA FiniteParities ==
  ASSUME NEW n \in Nat, NEW S \in SUBSET (SUBSET (1 .. n))
  PROVE  IsFiniteSet(S) /\ Cardinality(S) \in Nat
<1>1. IsFiniteSet(SUBSET (1 .. n))
  BY CountTo, FS_SUBSET
<1>. QED
  BY <1>1, FS_Subset, FS_CardinalityType

LEMMA SynthNextIs ==
  ASSUME NEW n \in Nat, NEW block \in BlockSeq(n), NEW parities, ParitiesIn(parities, block, n),
         NEW poly \in [SUBSET (1 .. n) -> 0 .. 7],
         NEW i \in 1 .. Len(block), NEW g \in Synthesized(parities, poly, block, n, i - 1)
  PROVE  g \o Resynthesized(parities, poly, block, i) \in Synthesized(parities, poly, block, n, i)
<1>. DEFINE q == ParityAt(parities, block, i)
            Odd(j) == OddSeen(parities, poly, block, n, j)
            Owe(j) == Owed(parities, poly, block, n, j)
            piece == Resynthesized(parities, poly, block, i)
<1>0. Len(block) \in Nat /\ i \in Nat /\ q \in SUBSET (1 .. n) /\ poly[q] \in 0 .. 7
  BY DEF BlockSeq, ParitiesIn
<1>1. block[i] \in GatesOn(1 .. n) /\ block[i].name \in BlockGates
  BY DEF BlockSeq
<1>2. /\ g \in Seq(GatesOn(1 .. n)) /\ TCount(g) \in Nat /\ Len(g) \in Nat
      /\ TCount(g) <= Cardinality(Odd(i - 1)) /\ Len(g) <= (i - 1) + Cardinality(Owe(i - 1))
  <2>1. g \in Seq(GatesOn(1 .. n))
    BY DEF Synthesized
  <2>. QED
    BY <2>1, TCountIs DEF Synthesized
<1>3. /\ Odd(i - 1) \in SUBSET (SUBSET (1 .. n)) /\ Odd(i) \in SUBSET (SUBSET (1 .. n))
      /\ Owe(i - 1) \in SUBSET (SUBSET (1 .. n)) /\ Owe(i) \in SUBSET (SUBSET (1 .. n))
  BY DEF OddSeen, Owed
<1>4. /\ IsFiniteSet(Odd(i - 1)) /\ Cardinality(Odd(i - 1)) \in Nat
      /\ IsFiniteSet(Odd(i)) /\ Cardinality(Odd(i)) \in Nat
      /\ IsFiniteSet(Owe(i - 1)) /\ Cardinality(Owe(i - 1)) \in Nat
      /\ IsFiniteSet(Owe(i)) /\ Cardinality(Owe(i)) \in Nat
  BY <1>3, FiniteParities
<1>5. SUFFICES /\ piece \in Seq(GatesOn(1 .. n))
               /\ TCount(piece) + Cardinality(Odd(i - 1)) <= Cardinality(Odd(i))
               /\ Len(piece) + Cardinality(Owe(i - 1)) <= 1 + Cardinality(Owe(i))
  <2>1. TCount(piece) \in Nat /\ Len(piece) \in Nat
    BY <1>5, TCountIs
  <2>2. g \o piece \in Seq(GatesOn(1 .. n)) /\ TCount(g \o piece) = TCount(g) + TCount(piece)
    BY <1>2, <1>5, TCountConcat
  <2>3. Len(g \o piece) = Len(g) + Len(piece)
    BY <1>2, <1>5, ConcatProperties
  <2>. HIDE DEF piece, Odd, Owe
  <2>4. TCount(g \o piece) <= Cardinality(Odd(i))
    <3>1. /\ TCount(g) \in Nat /\ TCount(g) <= Cardinality(Odd(i - 1))
          /\ TCount(piece) + Cardinality(Odd(i - 1)) <= Cardinality(Odd(i))
          /\ Cardinality(Odd(i - 1)) \in Nat /\ Cardinality(Odd(i)) \in Nat
      BY <1>2, <1>4, <1>5
    <3>2. TCount(piece) \in Nat /\ TCount(g \o piece) = TCount(g) + TCount(piece)
      BY <2>1, <2>2
    <3>. QED
      BY <3>1, <3>2, SMTT(30)
  <2>5. Len(g \o piece) <= i + Cardinality(Owe(i))
    <3>1. /\ i \in Nat /\ Len(g) \in Nat /\ Len(g) <= (i - 1) + Cardinality(Owe(i - 1))
          /\ Len(piece) + Cardinality(Owe(i - 1)) <= 1 + Cardinality(Owe(i))
          /\ Cardinality(Owe(i - 1)) \in Nat /\ Cardinality(Owe(i)) \in Nat
      BY <1>0, <1>2, <1>4, <1>5
    <3>2. Len(piece) \in Nat /\ Len(g \o piece) = Len(g) + Len(piece)
      BY <2>1, <2>3
    <3>. QED
      BY <3>1, <3>2, SMTT(30)
  <2>. QED
    BY <2>2, <2>4, <2>5 DEF Synthesized, piece, Odd, Owe
<1>6. \A p : TurnsAt(parities, block, i, p) <=> block[i].name # "CNOT" /\ p = q
  BY DEF TurnsAt
<1>7. CASE block[i].name = "CNOT"
  <2>1. piece = <<block[i]>>
    BY <1>7 DEF Resynthesized
  <2>2. piece \in Seq(GatesOn(1 .. n)) /\ Len(piece) = 1 /\ TCount(piece) = 0
    <3>. HIDE DEF piece
    <3>. QED
      BY <1>1, <1>7, <2>1, OneGate DEF TGates
  <2>3. Odd(i) = Odd(i - 1)
    BY <1>0, <1>6, <1>7 DEF OddSeen
  <2>4. Owe(i) = Owe(i - 1)
    BY <1>0, <1>6, <1>7 DEF Owed
  <2>. HIDE DEF piece, Odd, Owe
  <2>. QED
    BY <1>4, <2>2, <2>3, <2>4
<1>8. CASE block[i].name # "CNOT" /\ Seen(parities, block, i)
  <2>1. piece = <<>>
    BY <1>8 DEF Resynthesized
  <2>2. piece \in Seq(GatesOn(1 .. n)) /\ Len(piece) = 0 /\ TCount(piece) = 0
    BY <2>1, NoGates
  <2>3. Odd(i - 1) \in SUBSET Odd(i)
    BY <1>0 DEF OddSeen
  <2>4. Owe(i - 1) \in SUBSET (Owe(i) \cup {q})
    BY <1>0, <1>6 DEF Owed
  <2>. HIDE DEF piece, Odd, Owe, q
  <2>5. Cardinality(Odd(i - 1)) <= Cardinality(Odd(i))
    BY <1>4, <2>3, FS_Subset
  <2>6. Cardinality(Owe(i - 1)) <= 1 + Cardinality(Owe(i))
    <3>1. /\ IsFiniteSet(Owe(i) \cup {q})
          /\ Cardinality(Owe(i) \cup {q}) = IF q \in Owe(i) THEN Cardinality(Owe(i)) ELSE Cardinality(Owe(i)) + 1
      BY <1>4, FS_AddElement
    <3>2. Cardinality(Owe(i - 1)) <= Cardinality(Owe(i) \cup {q})
      BY <2>4, <3>1, FS_Subset
    <3>. QED
      BY <1>4, <3>1, <3>2
  <2>. QED
    BY <1>4, <2>2, <2>5, <2>6
<1>9. CASE block[i].name # "CNOT" /\ ~Seen(parities, block, i)
  <2>. DEFINE c == poly[q]
              names == CoeffGates[c]
  <2>1. \A j \in 1 .. i - 1 : ~TurnsAt(parities, block, j, q)
    BY <1>9 DEF Seen, TurnsAt
  <2>2. piece = Piece(c, block[i].on)
    BY <1>9 DEF Resynthesized, Piece
  <2>3. block[i].on \in Seq(1 .. n) /\ Len(block[i].on) = 1
    <3>1. block[i].name \in {"T", "T_dag"}
      BY <1>1, <1>9 DEF BlockGates
    <3>. QED
      BY <1>1, <3>1, GateNames DEF GatesOn
  <2>4. /\ piece \in Seq(GatesOn(1 .. n)) /\ Len(piece) = Len(names) /\ Len(piece) \in 0 .. 2
        /\ TCount(piece) = c % 2
    <3>1. c \in 0 .. 7
      BY <1>0
    <3>. HIDE DEF piece, c
    <3>. QED
      BY <2>2, <2>3, <3>1, PieceIs
  <2>5. Odd(i) = IF c % 2 = 1 THEN Odd(i - 1) \cup {q} ELSE Odd(i - 1)
    <3>1. ASSUME NEW p \in SUBSET (1 .. n)
          PROVE  (\E j \in 1 .. i : TurnsAt(parities, block, j, p))
                 <=> p = q \/ \E j \in 1 .. i - 1 : TurnsAt(parities, block, j, p)
      BY <1>0, <1>6, <1>9
    <3>. QED
      BY <1>0, <2>1, <3>1 DEF OddSeen
  <2>6. q \notin Odd(i - 1) /\ q \notin Owe(i - 1)
    BY <2>1 DEF OddSeen, Owed
  <2>7. Owe(i) = IF Len(names) = 2 THEN Owe(i - 1) \cup {q} ELSE Owe(i - 1)
    <3>. DEFINE OneTurn(p, m) == \E j \in 1 .. m : /\ TurnsAt(parities, block, j, p)
                                                   /\ \A k \in 1 .. m : TurnsAt(parities, block, k, p) => k = j
    <3>1. ASSUME NEW p \in SUBSET (1 .. n)
          PROVE  OneTurn(p, i) <=> p = q \/ OneTurn(p, i - 1)
      <4>1. CASE p = q
        <5>1. i \in 1 .. i /\ TurnsAt(parities, block, i, p)
          BY <1>0, <1>6, <1>9, <4>1
        <5>2. \A k \in 1 .. i : TurnsAt(parities, block, k, p) => k = i
          BY <1>0, <2>1, <4>1
        <5>. QED
          BY <4>1, <5>1, <5>2
      <4>2. CASE p # q
        <5>1. ~TurnsAt(parities, block, i, p)
          BY <1>6, <4>2
        <5>2. \A k \in 1 .. i : TurnsAt(parities, block, k, p) => k \in 1 .. i - 1
          BY <1>0, <5>1
        <5>3. \A k \in 1 .. i - 1 : k \in 1 .. i
          BY <1>0
        <5>. QED
          BY <4>2, <5>2, <5>3
      <4>. QED
        BY <4>1, <4>2
    <3>2. Owe(i) = {p \in SUBSET (1 .. n) : Len(CoeffGates[poly[p]]) = 2 /\ OneTurn(p, i)}
      BY DEF Owed
    <3>3. Owe(i - 1) = {p \in SUBSET (1 .. n) : Len(CoeffGates[poly[p]]) = 2 /\ OneTurn(p, i - 1)}
      BY DEF Owed
    <3>. HIDE DEF OneTurn, Owe, q
    <3>. QED
      BY <1>0, <3>1, <3>2, <3>3
  <2>. HIDE DEF piece, Odd, Owe, q, names, c
  <2>8. TCount(piece) + Cardinality(Odd(i - 1)) <= Cardinality(Odd(i))
    <3>1. c % 2 \in {0, 1}
      BY <1>0 DEF c
    <3>2. Cardinality(Odd(i - 1) \cup {q}) = Cardinality(Odd(i - 1)) + 1
      BY <1>4, <2>6, FS_AddElement
    <3>. QED
      BY <1>4, <2>4, <2>5, <3>1, <3>2
  <2>9. Len(piece) + Cardinality(Owe(i - 1)) <= 1 + Cardinality(Owe(i))
    <3>1. Cardinality(Owe(i - 1) \cup {q}) = Cardinality(Owe(i - 1)) + 1
      BY <1>4, <2>6, FS_AddElement
    <3>2. CASE Len(names) = 2
      BY <1>4, <2>4, <2>7, <3>1, <3>2
    <3>3. CASE Len(names) # 2
      BY <1>4, <2>4, <2>7, <3>3
    <3>. QED
      BY <3>2, <3>3
  <2>. QED
    BY <2>4, <2>8, <2>9
<1>. QED
  BY <1>7, <1>8, <1>9

SynthWalk(parities, poly, block, f) ==
  f = [i \in 0 .. Len(block) |->
         IF i = 0 THEN <<>> ELSE f[i - 1] \o Resynthesized(parities, poly, block, i)]

LEMMA SynthNone ==
  ASSUME NEW n \in Nat, NEW block, NEW parities, NEW poly
  PROVE  <<>> \in Synthesized(parities, poly, block, n, 0)
<1>1. /\ OddSeen(parities, poly, block, n, 0) \in SUBSET (SUBSET (1 .. n))
      /\ Owed(parities, poly, block, n, 0) \in SUBSET (SUBSET (1 .. n))
  BY DEF OddSeen, Owed
<1>2. /\ Cardinality(OddSeen(parities, poly, block, n, 0)) \in Nat
      /\ Cardinality(Owed(parities, poly, block, n, 0)) \in Nat
  BY <1>1, FiniteParities
<1>3. <<>> \in Seq(GatesOn(1 .. n)) /\ Len(<<>>) = 0 /\ TCount(<<>>) = 0
  BY NoGates
<1>. QED
  BY <1>2, <1>3 DEF Synthesized

LEMMA SynthWalkExists ==
  ASSUME NEW n \in Nat, NEW block \in BlockSeq(n), NEW parities, ParitiesIn(parities, block, n),
         NEW poly \in [SUBSET (1 .. n) -> 0 .. 7]
  PROVE  \E f : SynthWalk(parities, poly, block, f)
<1>. DEFINE m == Len(block)
            Q == [i \in 0 .. m |-> Synthesized(parities, poly, block, n, i)]
            G == [i \in 1 .. m |-> [t \in Q[i - 1] |-> t \o Resynthesized(parities, poly, block, i)]]
<1>0. m \in Nat
  BY DEF BlockSeq
<1>1. <<>> \in Q[0] /\ \A i \in 1 .. m : \A t \in Q[i - 1] : G[i][t] \in Q[i]
  <2>1. ASSUME NEW i \in 1 .. m, NEW t \in Synthesized(parities, poly, block, n, i - 1)
        PROVE  t \o Resynthesized(parities, poly, block, i) \in Synthesized(parities, poly, block, n, i)
    BY SynthNextIs
  <2>. QED
    BY <1>0, <2>1, SynthNone
<1>2. PICK f : Walk(m, <<>>, G, f) /\ Stays(m, Q, f)
  <2>. HIDE DEF m, Q, G
  <2>. QED
    BY <1>0, <1>1, WalkIn
<1>. DEFINE H == [i \in 1 .. m |-> f[i - 1] \o Resynthesized(parities, poly, block, i)]
<1>3. \A i \in 1 .. m : f[i - 1] \in Q[i - 1] => G[i][f[i - 1]] = H[i]
  BY <1>0
<1>4. f = [i \in 0 .. m |-> IF i = 0 THEN <<>> ELSE H[i]]
  <2>1. Walk(m, <<>>, G, f) /\ Stays(m, Q, f)
    BY <1>2
  <2>. HIDE DEF m, Q, G, H
  <2>2. Reaches(m, Q, G, f, H)
    BY <1>3 DEF Reaches
  <2>3. Solves(m, <<>>, f, H)
    BY <1>0, <2>1, <2>2, WalkIs
  <2>. QED
    BY <2>3 DEF Solves
<1>5. SynthWalk(parities, poly, block, f)
  <2>1. \A i \in 0 .. m : i # 0 => H[i] = f[i - 1] \o Resynthesized(parities, poly, block, i)
    BY <1>0
  <2>. HIDE DEF H
  <2>. QED
    BY <1>4, <2>1 DEF SynthWalk
<1>. QED
  BY <1>5

\* No more T gates than odd parities, and no more gates than the block has.
LEMMA SynthesizeIs ==
  ASSUME NEW n \in Nat, NEW block \in BlockSeq(n), NEW parities, ParitiesIn(parities, block, n),
         NEW poly \in Coeffs(parities, block, n, Len(block))
  PROVE  LET new == Synthesize(parities, poly, block)
         IN /\ new \in Seq(GatesOn(1 .. n)) /\ Len(new) <= Len(block)
            /\ TCount(new) <= Cardinality({p \in DOMAIN poly : poly[p] % 2 = 1})
<1>. DEFINE f == CHOOSE f : SynthWalk(parities, poly, block, f)
            m == Len(block)
            Q == [i \in 0 .. m |-> Synthesized(parities, poly, block, n, i)]
            odd == {p \in DOMAIN poly : poly[p] % 2 = 1}
<1>0. m \in Nat /\ poly \in [SUBSET (1 .. n) -> 0 .. 7]
  BY DEF BlockSeq, Coeffs
<1>1. Synthesize(parities, poly, block) = f[m]
  BY DEF Synthesize, SynthWalk
<1>2. SynthWalk(parities, poly, block, f)
  BY <1>0, SynthWalkExists
<1>. HIDE DEF f
<1>3. f[0] = <<>> /\ \A i \in 1 .. m : f[i] = f[i - 1] \o Resynthesized(parities, poly, block, i)
  <2>1. \A i \in 0 .. m : f[i] = IF i = 0 THEN <<>> ELSE f[i - 1] \o Resynthesized(parities, poly, block, i)
    BY <1>2, Zenon DEF SynthWalk
  <2>2. 0 \in 0 .. m /\ \A i \in 1 .. m : i \in 0 .. m /\ i # 0
    BY <1>0
  <2>. QED
    BY <2>1, <2>2, Zenon
<1>4. \A i \in 0 .. m : f[i] \in Q[i]
  <2>1. f[0] \in Q[0]
    BY <1>0, <1>3, SynthNone
  <2>2. \A i \in 1 .. m : f[i - 1] \in Q[i - 1] => f[i] \in Q[i]
    <3>. TAKE i \in 1 .. m
    <3>. HAVE f[i - 1] \in Q[i - 1]
    <3>1. f[i - 1] \in Synthesized(parities, poly, block, n, i - 1)
      BY <1>0
    <3>2. f[i - 1] \o Resynthesized(parities, poly, block, i) \in Synthesized(parities, poly, block, n, i)
      BY <1>0, <3>1, SynthNextIs
    <3>3. f[i] \in Synthesized(parities, poly, block, n, i)
      BY <1>3, <3>2, Zenon
    <3>. QED
      BY <1>0, <3>3
  <2>. HIDE DEF m, Q
  <2>. QED
    BY <1>0, <2>1, <2>2, Steps
<1>5. f[m] \in Synthesized(parities, poly, block, n, m)
  BY <1>0, <1>4
<1>6. Owed(parities, poly, block, n, m) = {}
  <2>1. ASSUME NEW p \in Owed(parities, poly, block, n, m) PROVE FALSE
    <3>1. poly[p] \in {1, 7}
      BY DEF Owed, Coeffs
    <3>2. Len(CoeffGates[poly[p]]) = 1
      <4>1. /\ CoeffGates[1] = <<"T">> /\ CoeffGates[7] = <<"T_dag">>
            /\ Len(<<"T">>) = 1 /\ Len(<<"T_dag">>) = 1
        BY DEF CoeffGates
      <4>. QED
        BY <3>1, <4>1
    <3>. QED
      BY <3>2 DEF Owed
  <2>. QED
    BY <2>1
<1>7. Cardinality(OddSeen(parities, poly, block, n, m)) <= Cardinality(odd)
  <2>1. odd \in SUBSET (SUBSET (1 .. n)) /\ OddSeen(parities, poly, block, n, m) \in SUBSET odd
    BY <1>0 DEF OddSeen
  <2>. HIDE DEF odd
  <2>. QED
    BY <2>1, FiniteParities, FS_Subset
<1>8. f[m] \in Seq(GatesOn(1 .. n)) /\ TCount(f[m]) \in Nat /\ Len(f[m]) \in Nat
  <2>1. f[m] \in Seq(GatesOn(1 .. n))
    BY <1>5 DEF Synthesized
  <2>. QED
    BY <2>1, TCountIs
<1>9. Len(f[m]) <= m
  <2>1. Len(f[m]) <= m + Cardinality(Owed(parities, poly, block, n, m))
    BY <1>5 DEF Synthesized
  <2>. QED
    BY <1>0, <1>6, <2>1, FS_EmptySet
<1>10. TCount(f[m]) <= Cardinality(odd)
  <2>1. TCount(f[m]) <= Cardinality(OddSeen(parities, poly, block, n, m))
    BY <1>5 DEF Synthesized
  <2>2. /\ OddSeen(parities, poly, block, n, m) \in SUBSET (SUBSET (1 .. n))
        /\ odd \in SUBSET (SUBSET (1 .. n))
    BY <1>0 DEF OddSeen
  <2>. HIDE DEF odd
  <2>3. Cardinality(OddSeen(parities, poly, block, n, m)) \in Nat /\ Cardinality(odd) \in Nat
    BY <2>2, FiniteParities
  <2>. QED
    BY <1>7, <1>8, <2>1, <2>3
<1>. QED
  BY <1>1, <1>8, <1>9, <1>10

LEMMA BlockIsCheaper ==
  ASSUME NEW n \in Nat, NEW block \in BlockSeq(n)
  PROVE  Cheaper(OptimizeBlock(block, n), block, 1 .. n)
<1>. DEFINE parities == Parities(block, n)
            poly == Polynomial(parities, block, n)
            odd == {p \in DOMAIN poly : poly[p] % 2 = 1}
            new == Synthesize(parities, poly, block)
<1>0. block \in Seq(GatesOn(1 .. n)) /\ TCount(block) \in Nat
  <2>1. block \in Seq(GatesOn(1 .. n))
    BY DEF BlockSeq
  <2>. QED
    BY <2>1, TCountIs
<1>1. ParitiesIn(parities, block, n)
  BY ParitiesIs
<1>2. poly \in Coeffs(parities, block, n, Len(block))
  <2>. HIDE DEF parities
  <2>. QED
    BY <1>1, PolynomialIs
<1>3. OptimizeBlock(block, n) = IF Cardinality(odd) < TCount(block) THEN new ELSE block
  BY DEF OptimizeBlock
<1>4. Cardinality(odd) \in Nat
  <2>1. odd \in SUBSET (SUBSET (1 .. n))
    <3>. HIDE DEF poly
    <3>. QED
      BY <1>2 DEF Coeffs
  <2>. HIDE DEF odd
  <2>. QED
    BY <2>1, FiniteParities
<1>5. new \in Seq(GatesOn(1 .. n)) /\ Len(new) <= Len(block) /\ TCount(new) <= Cardinality(odd)
  <2>. HIDE DEF parities, poly
  <2>. QED
    BY <1>1, <1>2, SynthesizeIs
<1>6. CASE Cardinality(odd) < TCount(block)
  <2>. HIDE DEF new, odd
  <2>1. TCount(new) \in Nat
    BY <1>5, TCountIs
  <2>2. TCount(new) <= TCount(block)
    BY <1>0, <1>4, <1>5, <1>6, <2>1
  <2>. QED
    BY <1>3, <1>5, <1>6, <2>2 DEF Cheaper, NoDearer
<1>7. CASE ~(Cardinality(odd) < TCount(block))
  BY <1>0, <1>3, <1>7, Itself DEF Better
<1>. QED
  BY <1>6, <1>7

\* The walk over the gates, block by block.
TStep(acc, gate, n) ==
  IF gate.name \in BlockGates THEN [acc EXCEPT !.block = Append(@, gate)]
  ELSE [done |-> Append(acc.done \o OptimizeBlock(acc.block, n), gate), block |-> <<>>]

TWalk(gates, n, f) ==
  f = [i \in 0 .. Len(gates) |->
         IF i = 0 THEN [done |-> <<>>, block |-> <<>>] ELSE TStep(f[i - 1], gates[i], n)]

TStates(gates, n, i) ==
  {acc \in [done : Seq(GatesOn(1 .. n)), block : BlockSeq(n)] :
     /\ Len(acc.done) + Len(acc.block) <= i
     /\ TCount(acc.done) + TCount(acc.block) <= TCount(SubSeq(gates, 1, i))}

LEMMA PrefixIn ==
  ASSUME NEW ws, NEW gates \in Seq(GatesOn(ws)), NEW i \in 0 .. Len(gates)
  PROVE  /\ SubSeq(gates, 1, i) \in Seq(GatesOn(ws)) /\ Len(SubSeq(gates, 1, i)) = i
         /\ \A k \in 1 .. i : SubSeq(gates, 1, i)[k] = gates[k]
<1>1. Len(gates) \in Nat /\ \A k \in 1 .. Len(gates) : gates[k] \in GatesOn(ws)
  OBVIOUS
<1>. QED
  BY <1>1, SubSeqProperties

LEMMA PrefixNext ==
  ASSUME NEW ws, NEW gates \in Seq(GatesOn(ws)), NEW i \in 1 .. Len(gates)
  PROVE  SubSeq(gates, 1, i) = Append(SubSeq(gates, 1, i - 1), gates[i])
<1>. DEFINE s == SubSeq(gates, 1, i)
            t == SubSeq(gates, 1, i - 1)
            u == Append(t, gates[i])
<1>0. Len(gates) \in Nat /\ gates[i] \in GatesOn(ws) /\ i \in 0 .. Len(gates) /\ i - 1 \in 0 .. Len(gates)
  OBVIOUS
<1>1. s \in Seq(GatesOn(ws)) /\ Len(s) = i /\ \A k \in 1 .. i : s[k] = gates[k]
  BY <1>0, PrefixIn
<1>2. t \in Seq(GatesOn(ws)) /\ Len(t) = i - 1 /\ \A k \in 1 .. i - 1 : t[k] = gates[k]
  BY <1>0, PrefixIn
<1>. HIDE DEF s, t
<1>3. /\ u \in Seq(GatesOn(ws)) /\ Len(u) = i /\ u[i] = gates[i]
      /\ \A k \in 1 .. i - 1 : u[k] = t[k]
  BY <1>0, <1>2, AppendProperties
<1>. HIDE DEF u
<1>4. \A k \in 1 .. Len(s) : s[k] = u[k]
  BY <1>0, <1>1, <1>2, <1>3
<1>5. s = u
  BY <1>1, <1>3, <1>4, SeqEqual
<1>. QED
  BY <1>5 DEF s, t, u

LEMMA PrefixAll ==
  ASSUME NEW ws, NEW gates \in Seq(GatesOn(ws))
  PROVE  SubSeq(gates, 1, Len(gates)) = gates
<1>. DEFINE s == SubSeq(gates, 1, Len(gates))
<1>1. Len(gates) \in 0 .. Len(gates)
  OBVIOUS
<1>2. s \in Seq(GatesOn(ws)) /\ Len(s) = Len(gates) /\ \A k \in 1 .. Len(gates) : s[k] = gates[k]
  BY <1>1, PrefixIn
<1>. HIDE DEF s
<1>3. s = gates
  BY <1>2, SeqEqual
<1>. QED
  BY <1>3 DEF s

LEMMA TStepIs ==
  ASSUME NEW n \in Nat, NEW gates \in Seq(GatesOn(1 .. n)), NEW i \in 1 .. Len(gates),
         NEW acc \in TStates(gates, n, i - 1)
  PROVE  TStep(acc, gates[i], n) \in TStates(gates, n, i)
<1>. DEFINE gate == gates[i]
            t == IF gate.name \in TGates THEN 1 ELSE 0
            before_i == TCount(SubSeq(gates, 1, i - 1))
            upto_i == TCount(SubSeq(gates, 1, i))
<1>0. gate \in GatesOn(1 .. n) /\ i \in Nat /\ t \in 0 .. 1
  OBVIOUS
<1>1. before_i \in Nat /\ upto_i = before_i + t
  <2>1. /\ SubSeq(gates, 1, i - 1) \in Seq(GatesOn(1 .. n))
        /\ SubSeq(gates, 1, i) = Append(SubSeq(gates, 1, i - 1), gate)
    <3>1. i - 1 \in 0 .. Len(gates)
      BY <1>0
    <3>2. SubSeq(gates, 1, i - 1) \in Seq(GatesOn(1 .. n))
      BY <3>1, PrefixIn
    <3>3. SubSeq(gates, 1, i) = Append(SubSeq(gates, 1, i - 1), gates[i])
      BY PrefixNext
    <3>. QED
      BY <3>2, <3>3
  <2>2. TCount(Append(SubSeq(gates, 1, i - 1), gate)) = before_i + t
    BY <1>0, <2>1, TCountAppend
  <2>3. before_i \in Nat
    BY <2>1, TCountIs
  <2>. QED
    BY <2>1, <2>2, <2>3, Zenon
<1>. HIDE DEF before_i, upto_i
<1>2. /\ acc = [done |-> acc.done, block |-> acc.block]
      /\ acc.done \in Seq(GatesOn(1 .. n)) /\ acc.block \in BlockSeq(n)
      /\ Len(acc.done) + Len(acc.block) <= i - 1
      /\ TCount(acc.done) + TCount(acc.block) <= before_i
  BY DEF TStates, before_i
<1>3. acc.block \in Seq(GatesOn(1 .. n)) /\ \A k \in 1 .. Len(acc.block) : acc.block[k].name \in BlockGates
  BY <1>2 DEF BlockSeq
<1>4. /\ Len(acc.done) \in Nat /\ Len(acc.block) \in Nat
      /\ TCount(acc.done) \in Nat /\ TCount(acc.block) \in Nat
  BY <1>2, <1>3, TCountIs
<1>5. ASSUME NEW done \in Seq(GatesOn(1 .. n)), NEW block \in BlockSeq(n),
             Len(done) + Len(block) <= i, TCount(done) + TCount(block) <= upto_i
      PROVE  [done |-> done, block |-> block] \in TStates(gates, n, i)
  BY <1>5 DEF TStates, upto_i
<1>6. CASE gate.name \in BlockGates
  <2>. DEFINE block == Append(acc.block, gate)
  <2>1. TStep(acc, gate, n) = [done |-> acc.done, block |-> block]
    BY <1>2, <1>6 DEF TStep
  <2>2. /\ block \in Seq(GatesOn(1 .. n)) /\ Len(block) = Len(acc.block) + 1
        /\ TCount(block) = TCount(acc.block) + t
    BY <1>0, <1>3, TCountAppend
  <2>3. \A k \in 1 .. Len(block) : block[k].name \in BlockGates
    <3>1. /\ \A k \in 1 .. Len(acc.block) : block[k] = acc.block[k]
          /\ block[Len(acc.block) + 1] = gate
      BY <1>0, <1>3, AppendProperties
    <3>. HIDE DEF block, gate
    <3>2. ASSUME NEW k \in 1 .. Len(block) PROVE k \in 1 .. Len(acc.block) \/ k = Len(acc.block) + 1
      BY <1>4, <2>2
    <3>. QED
      BY <1>3, <1>6, <3>1, <3>2, Zenon
  <2>4. block \in BlockSeq(n)
    <3>. HIDE DEF block
    <3>. QED
      BY <2>2, <2>3 DEF BlockSeq
  <2>. HIDE DEF block, t
  <2>5. Len(acc.done) + Len(block) <= i /\ TCount(acc.done) + TCount(block) <= upto_i
    <3>1. /\ Len(acc.done) + Len(acc.block) <= i - 1 /\ Len(block) = Len(acc.block) + 1
          /\ Len(acc.done) \in Nat /\ Len(acc.block) \in Nat /\ i \in Nat
      BY <1>0, <1>2, <1>4, <2>2
    <3>0. \A a, b \in Nat : a + b <= i - 1 => a + (b + 1) <= i
      BY <1>0
    <3>2. Len(acc.done) + Len(block) <= i
      BY <3>0, <3>1, Zenon
    <3>3. /\ TCount(acc.done) + TCount(acc.block) <= before_i /\ TCount(block) = TCount(acc.block) + t
          /\ TCount(acc.done) \in Nat /\ TCount(acc.block) \in Nat /\ t \in 0 .. 1
          /\ before_i \in Nat /\ upto_i = before_i + t
      BY <1>0, <1>1, <1>2, <1>4, <2>2
    <3>4. TCount(acc.done) + TCount(block) <= upto_i
      BY <3>3, SMTT(30)
    <3>. QED
      BY <3>2, <3>4
  <2>. QED
    BY <1>2, <1>5, <2>1, <2>4, <2>5
<1>7. CASE gate.name \notin BlockGates
  <2>. DEFINE opt == OptimizeBlock(acc.block, n)
              left == acc.done \o opt
              done == Append(left, gate)
  <2>1. TStep(acc, gate, n) = [done |-> done, block |-> <<>>]
    BY <1>7 DEF TStep
  <2>2. opt \in Seq(GatesOn(1 .. n)) /\ Len(opt) <= Len(acc.block) /\ TCount(opt) <= TCount(acc.block)
    BY <1>2, BlockIsCheaper DEF Cheaper, NoDearer
  <2>. HIDE DEF opt
  <2>3. Len(opt) \in Nat /\ TCount(opt) \in Nat
    BY <2>2, TCountIs
  <2>4. /\ left \in Seq(GatesOn(1 .. n)) /\ TCount(left) = TCount(acc.done) + TCount(opt)
        /\ Len(left) = Len(acc.done) + Len(opt)
    BY <1>2, <2>2, TCountConcat, ConcatProperties
  <2>. HIDE DEF left
  <2>5. /\ done \in Seq(GatesOn(1 .. n)) /\ Len(done) = Len(left) + 1
        /\ TCount(done) = TCount(left) + t
    BY <1>0, <2>4, TCountAppend
  <2>. HIDE DEF done, t
  <2>6. <<>> \in BlockSeq(n) /\ Len(<<>>) = 0 /\ TCount(<<>>) = 0
    BY NoGates DEF BlockSeq
  <2>7. Len(done) + 0 <= i /\ TCount(done) + 0 <= upto_i
    <3>1. /\ Len(acc.done) + Len(acc.block) <= i - 1 /\ Len(opt) <= Len(acc.block)
          /\ Len(acc.done) \in Nat /\ Len(acc.block) \in Nat /\ Len(opt) \in Nat /\ i \in Nat
      BY <1>0, <1>2, <1>4, <2>2, <2>3
    <3>2. Len(left) = Len(acc.done) + Len(opt) /\ Len(done) = Len(left) + 1
      BY <2>4, <2>5
    <3>3. Len(done) + 0 <= i
      <4>1. \A a, b, c \in Nat : a + b <= i - 1 /\ c <= b => ((a + c) + 1) + 0 <= i
        BY <1>0
      <4>. QED
        BY <3>1, <3>2, <4>1, Zenon
    <3>4. /\ TCount(acc.done) + TCount(acc.block) <= before_i /\ TCount(opt) <= TCount(acc.block)
          /\ TCount(acc.done) \in Nat /\ TCount(acc.block) \in Nat /\ TCount(opt) \in Nat
          /\ t \in 0 .. 1 /\ before_i \in Nat /\ upto_i = before_i + t
      BY <1>0, <1>1, <1>2, <1>4, <2>2, <2>3
    <3>5. TCount(left) = TCount(acc.done) + TCount(opt) /\ TCount(done) = TCount(left) + t
      BY <2>4, <2>5
    <3>6. TCount(done) + 0 <= upto_i
      BY <3>4, <3>5, SMTT(30)
    <3>. QED
      BY <3>3, <3>6
  <2>8. Len(done) + Len(<<>>) <= i /\ TCount(done) + TCount(<<>>) <= upto_i
    BY <2>6, <2>7
  <2>. QED
    BY <1>5, <2>1, <2>5, <2>6, <2>8
<1>. QED
  BY <1>6, <1>7

LEMMA TNone ==
  ASSUME NEW n \in Nat, NEW gates \in Seq(GatesOn(1 .. n))
  PROVE  [done |-> <<>>, block |-> <<>>] \in TStates(gates, n, 0)
<1>1. <<>> \in Seq(GatesOn(1 .. n)) /\ <<>> \in BlockSeq(n) /\ Len(<<>>) = 0 /\ TCount(<<>>) = 0
  BY NoGates DEF BlockSeq
<1>2. TCount(SubSeq(gates, 1, 0)) \in Nat
  <2>1. SubSeq(gates, 1, 0) \in Seq(GatesOn(1 .. n))
    <3>1. 0 \in 0 .. Len(gates)
      OBVIOUS
    <3>. QED
      BY <3>1, PrefixIn
  <2>. QED
    BY <2>1, TCountIs
<1>. QED
  BY <1>1, <1>2 DEF TStates

LEMMA TWalkExists ==
  ASSUME NEW n \in Nat, NEW gates \in Seq(GatesOn(1 .. n))
  PROVE  \E f : TWalk(gates, n, f)
<1>. DEFINE m == Len(gates)
            a == [done |-> <<>>, block |-> <<>>]
            Q == [i \in 0 .. m |-> TStates(gates, n, i)]
            G == [i \in 1 .. m |-> [t \in Q[i - 1] |-> TStep(t, gates[i], n)]]
<1>0. m \in Nat
  OBVIOUS
<1>1. a \in Q[0] /\ \A i \in 1 .. m : \A t \in Q[i - 1] : G[i][t] \in Q[i]
  <2>1. ASSUME NEW i \in 1 .. m, NEW t \in TStates(gates, n, i - 1)
        PROVE  TStep(t, gates[i], n) \in TStates(gates, n, i)
    BY TStepIs
  <2>. QED
    BY <1>0, <2>1, TNone
<1>2. PICK f : Walk(m, a, G, f) /\ Stays(m, Q, f)
  <2>. HIDE DEF m, a, Q, G
  <2>. QED
    BY <1>0, <1>1, WalkIn
<1>. DEFINE H == [i \in 1 .. m |-> TStep(f[i - 1], gates[i], n)]
<1>3. \A i \in 1 .. m : f[i - 1] \in Q[i - 1] => G[i][f[i - 1]] = H[i]
  BY <1>0
<1>4. f = [i \in 0 .. m |-> IF i = 0 THEN a ELSE H[i]]
  <2>1. Walk(m, a, G, f) /\ Stays(m, Q, f)
    BY <1>2
  <2>. HIDE DEF m, a, Q, G, H
  <2>2. Reaches(m, Q, G, f, H)
    BY <1>3 DEF Reaches
  <2>3. Solves(m, a, f, H)
    BY <1>0, <2>1, <2>2, WalkIs
  <2>. QED
    BY <2>3 DEF Solves
<1>5. TWalk(gates, n, f)
  <2>1. \A i \in 0 .. m : i # 0 => H[i] = TStep(f[i - 1], gates[i], n)
    BY <1>0
  <2>. HIDE DEF H
  <2>. QED
    BY <1>4, <2>1 DEF TWalk
<1>. QED
  BY <1>5

LEMMA TCountIsCheaper ==
  ASSUME NEW n \in Nat, NEW gates \in Seq(GatesOn(1 .. n))
  PROVE  Cheaper(OptimizeTCount(gates, n), gates, 1 .. n)
<1>. DEFINE f == CHOOSE f : TWalk(gates, n, f)
            m == Len(gates)
            end == f[m]
            Q == [i \in 0 .. m |-> TStates(gates, n, i)]
            opt == OptimizeBlock(end.block, n)
            new == end.done \o opt
<1>0. m \in Nat
  OBVIOUS
<1>1. OptimizeTCount(gates, n) = new
  BY DEF OptimizeTCount, TWalk, TStep
<1>2. TWalk(gates, n, f)
  BY TWalkExists
<1>. HIDE DEF f
<1>3. f[0] = [done |-> <<>>, block |-> <<>>] /\ \A i \in 1 .. m : f[i] = TStep(f[i - 1], gates[i], n)
  <2>1. \A i \in 0 .. m : f[i] = IF i = 0 THEN [done |-> <<>>, block |-> <<>>] ELSE TStep(f[i - 1], gates[i], n)
    BY <1>2, Zenon DEF TWalk
  <2>2. 0 \in 0 .. m /\ \A i \in 1 .. m : i \in 0 .. m /\ i # 0
    BY <1>0
  <2>. QED
    BY <2>1, <2>2, Zenon
<1>4. \A i \in 0 .. m : f[i] \in Q[i]
  <2>1. f[0] \in Q[0]
    BY <1>0, <1>3, TNone
  <2>2. \A i \in 1 .. m : f[i - 1] \in Q[i - 1] => f[i] \in Q[i]
    BY <1>0, <1>3, TStepIs
  <2>. HIDE DEF m, Q
  <2>. QED
    BY <1>0, <2>1, <2>2, Steps
<1>5. /\ end.done \in Seq(GatesOn(1 .. n)) /\ end.block \in BlockSeq(n)
      /\ Len(end.done) + Len(end.block) <= m
      /\ TCount(end.done) + TCount(end.block) <= TCount(gates)
  <2>1. end \in TStates(gates, n, m) /\ SubSeq(gates, 1, m) = gates
    <3>1. end \in TStates(gates, n, m)
      BY <1>0, <1>4
    <3>2. SubSeq(gates, 1, m) = gates
      BY PrefixAll
    <3>. QED
      BY <3>1, <3>2
  <2>. HIDE DEF end
  <2>. QED
    BY <2>1 DEF TStates
<1>. HIDE DEF end
<1>6. opt \in Seq(GatesOn(1 .. n)) /\ Len(opt) <= Len(end.block) /\ TCount(opt) <= TCount(end.block)
  BY <1>5, BlockIsCheaper DEF Cheaper, NoDearer
<1>. HIDE DEF opt
<1>7. /\ TCount(opt) \in Nat /\ TCount(end.done) \in Nat /\ TCount(end.block) \in Nat
      /\ TCount(gates) \in Nat /\ Len(opt) \in Nat /\ Len(end.done) \in Nat /\ Len(end.block) \in Nat
  <2>1. end.block \in Seq(GatesOn(1 .. n))
    BY <1>5 DEF BlockSeq
  <2>. QED
    BY <1>5, <1>6, <2>1, TCountIs
<1>8. /\ new \in Seq(GatesOn(1 .. n)) /\ TCount(new) = TCount(end.done) + TCount(opt)
      /\ Len(new) = Len(end.done) + Len(opt)
  BY <1>5, <1>6, TCountConcat, ConcatProperties
<1>. HIDE DEF new
<1>9. Len(new) <= m /\ TCount(new) <= TCount(gates)
  <2>1. Len(end.done) + Len(opt) <= m
    <3>1. /\ Len(end.done) + Len(end.block) <= m /\ Len(opt) <= Len(end.block)
          /\ Len(end.done) \in Nat /\ Len(end.block) \in Nat /\ Len(opt) \in Nat
      BY <1>5, <1>6, <1>7
    <3>2. \A a, b, c \in Nat : a + b <= m /\ c <= b => a + c <= m
      BY <1>0
    <3>. HIDE DEF m
    <3>. QED
      BY <3>1, <3>2, Zenon
  <2>2. TCount(end.done) + TCount(opt) <= TCount(gates)
    BY <1>5, <1>6, <1>7
  <2>. QED
    BY <1>8, <2>1, <2>2
<1>. QED
  BY <1>1, <1>8, <1>9 DEF Cheaper, NoDearer

LEMMA CliffordTIsCheaper ==
  ASSUME NEW clifford, NEW n \in Nat, NEW gates \in Seq(GatesOn(1 .. n))
  PROVE  Cheaper(CliffordTOpt(clifford, gates, n), gates, 1 .. n)
<1>1. Cheaper(Rebuilt(gates, OptimizeTCount(gates, n)), gates, 1 .. n)
  BY TCountIsCheaper, RebuiltIsCheaper
<1>2. Cheaper(Rebuilt(gates, OptimizeClifford(gates, n)), gates, 1 .. n)
  BY CliffordIsCheaper, RebuiltIsCheaper
<1>3. Cheaper(gates, gates, 1 .. n)
  BY Itself DEF Better
<1>4. CliffordTOpt(clifford, gates, n) \in
        {Rebuilt(gates, OptimizeTCount(gates, n)), Rebuilt(gates, OptimizeClifford(gates, n)), gates}
  BY DEF CliffordTOpt
<1>. QED
  BY <1>1, <1>2, <1>3, <1>4

(***************************************************************************)
(* Run blocks.                                                             *)
(***************************************************************************)

\* Gates at positions are gates.
LEMMA GatesOnMore ==
  ASSUME NEW ws, NEW vs, ws \subseteq vs, NEW gates \in Seq(GatesOn(ws))
  PROVE  gates \in Seq(GatesOn(vs))
<1>1. \A g \in GatesOn(ws) : g \in GatesOn(vs)
  <2>. TAKE g \in GatesOn(ws)
  <2>1. g \in [op : {"gate"}, name : DOMAIN InverseOf, on : Seq(ws), angle : Int \cup {None}]
        /\ Len(g.on) = Arity(g.name)
    BY DEF GatesOn
  <2>2. g.on \in Seq(vs)
    BY <2>1
  <2>. QED
    BY <2>1, <2>2 DEF GatesOn
<1>2. \A i \in 1 .. Len(gates) : gates[i] \in GatesOn(vs)
  BY <1>1
<1>. QED
  BY <1>2

\* The four kinds of operation.
LEMMA KindsOfOp ==
  ASSUME NEW op \in Ops
  PROVE  /\ op.on \in Seq(Nat) /\ Positions(op) \subseteq Nat
         /\ op.op \in {"gate", "measure", "region", "if"}
         /\ op.op = "gate" => op \in GatesOn(Nat)
         /\ op.op = "measure" => op \in [op : {"measure"}, on : Seq(Nat), bit : STRING] /\ Len(op.on) = 1
         /\ op.op = "region" =>
              /\ op \in [op : {"region"}, on : Seq(Nat), gates : Seq(GatesOn(Nat))]
              /\ op.gates \in Seq(GatesOn(Positions(op)))
         /\ op.op = "if" =>
              /\ op \in [op : {"if"}, bit : STRING, on : Seq(Nat),
                         then : Seq(GatesOn(Nat)), else : Seq(GatesOn(Nat))]
              /\ op.then \in Seq(GatesOn(Positions(op))) /\ op.else \in Seq(GatesOn(Positions(op)))
<1>1. Positions(op) \subseteq Nat
  BY DEF Positions
<1>2. CASE op \in GatesOn(Nat)
  <2>1. op.op = "gate" /\ op.on \in Seq(Nat)
    BY <1>2 DEF GatesOn
  <2>. QED
    BY <1>1, <1>2, <2>1
<1>3. CASE op \in {o \in [op : {"measure"}, on : Seq(Nat), bit : STRING] : Len(o.on) = 1}
  BY <1>1, <1>3
<1>4. CASE op \in {o \in [op : {"region"}, on : Seq(Nat), gates : Seq(GatesOn(Nat))] :
                     o.gates \in Seq(GatesOn(Positions(o)))}
  BY <1>1, <1>4
<1>5. CASE op \in {o \in [op : {"if"}, bit : STRING, on : Seq(Nat),
                          then : Seq(GatesOn(Nat)), else : Seq(GatesOn(Nat))] :
                     {o.then, o.else} \subseteq Seq(GatesOn(Positions(o)))}
  BY <1>1, <1>5
<1>. QED
  BY <1>2, <1>3, <1>4, <1>5 DEF Ops

LEMMA RegionIsOp ==
  ASSUME NEW on \in Seq(Nat), NEW gates \in Seq(GatesOn(1 .. Len(on)))
  PROVE  Region(on, gates) \in Ops
<1>1. gates \in Seq(GatesOn(Nat))
  <2>1. 1 .. Len(on) \subseteq Nat
    OBVIOUS
  <2>. QED
    BY <2>1, GatesOnMore
<1>. DEFINE op == Region(on, gates)
<1>2. op \in [op : {"region"}, on : Seq(Nat), gates : Seq(GatesOn(Nat))]
  BY <1>1 DEF Region
<1>3. op.gates \in Seq(GatesOn(Positions(op)))
  BY DEF Region, Positions
<1>. QED
  BY <1>2, <1>3 DEF Ops

LEMMA IfIsOp ==
  ASSUME NEW bit \in STRING, NEW on \in Seq(Nat), NEW then \in Seq(GatesOn(1 .. Len(on))),
         NEW else \in Seq(GatesOn(1 .. Len(on)))
  PROVE  If(bit, on, then, else) \in Ops
<1>1. then \in Seq(GatesOn(Nat)) /\ else \in Seq(GatesOn(Nat))
  <2>1. 1 .. Len(on) \subseteq Nat
    OBVIOUS
  <2>. QED
    BY <2>1, GatesOnMore
<1>. DEFINE op == If(bit, on, then, else)
<1>2. op \in [op : {"if"}, bit : STRING, on : Seq(Nat), then : Seq(GatesOn(Nat)), else : Seq(GatesOn(Nat))]
  BY <1>1 DEF If
<1>3. {op.then, op.else} \subseteq Seq(GatesOn(Positions(op)))
  BY DEF If, Positions
<1>. QED
  BY <1>2, <1>3 DEF Ops

\* What a circuit pass may make of an operation: the same one with better gates.
BetterOp(new, old) ==
  /\ new \in Ops /\ new.op = old.op /\ new.on = old.on
  /\ old.op \in {"measure", "if"} => new.bit = old.bit
  /\ old.op = "region" => Better(new.gates, old.gates, Positions(old))
  /\ old.op = "if" => /\ Better(new.then, old.then, Positions(old))
                      /\ Better(new.else, old.else, Positions(old))

BetterBody(new, old) ==
  /\ new \in Seq(Ops) /\ Len(new) = Len(old)
  /\ \A i \in 1 .. Len(old) : BetterOp(new[i], old[i])

LEMMA OpItself ==
  ASSUME NEW op \in Ops
  PROVE  BetterOp(op, op)
BY KindsOfOp, Itself DEF BetterOp

LEMMA RegionBetter ==
  ASSUME NEW op \in Ops, op.op = "region", NEW gates, Better(gates, op.gates, Positions(op))
  PROVE  BetterOp([op EXCEPT !.gates = gates], op)
<1>1. /\ op \in [op : {"region"}, on : Seq(Nat), gates : Seq(GatesOn(Nat))]
      /\ gates \in Seq(GatesOn(1 .. Len(op.on)))
  BY KindsOfOp DEF Better, Cheaper, Positions
<1>2. [op EXCEPT !.gates = gates] = Region(op.on, gates)
  BY <1>1 DEF Region
<1>3. Region(op.on, gates) \in Ops
  BY <1>1, RegionIsOp
<1>4. /\ Region(op.on, gates).op = "region" /\ Region(op.on, gates).on = op.on
      /\ Region(op.on, gates).gates = gates
  BY DEF Region
<1>. QED
  BY <1>2, <1>3, <1>4 DEF BetterOp

LEMMA IfBetter ==
  ASSUME NEW op \in Ops, op.op = "if", NEW then, NEW else,
         Better(then, op.then, Positions(op)), Better(else, op.else, Positions(op)),
         NEW new, new = [op EXCEPT !.then = then, !.else = else]
  PROVE  BetterOp(new, op)
<1>1. /\ op \in [op : {"if"}, bit : STRING, on : Seq(Nat),
                 then : Seq(GatesOn(Nat)), else : Seq(GatesOn(Nat))]
      /\ then \in Seq(GatesOn(1 .. Len(op.on))) /\ else \in Seq(GatesOn(1 .. Len(op.on)))
  BY KindsOfOp DEF Better, Cheaper, Positions
<1>2. new \in [op : {"if"}, bit : STRING, on : Seq(Nat), then : Seq(GatesOn(Nat)), else : Seq(GatesOn(Nat))]
  <2>1. then \in Seq(GatesOn(Nat)) /\ else \in Seq(GatesOn(Nat))
    <3>1. 1 .. Len(op.on) \subseteq Nat
      OBVIOUS
    <3>. QED
      BY <1>1, <3>1, GatesOnMore
  <2>. QED
    BY <1>1, <2>1
<1>3. new.op = "if" /\ new.on = op.on /\ new.bit = op.bit /\ new.then = then /\ new.else = else
  BY <1>1
<1>4. {new.then, new.else} \subseteq Seq(GatesOn(Positions(new)))
  BY <1>1, <1>3 DEF Positions
<1>5. new \in Ops
  BY <1>2, <1>4 DEF Ops
<1>. QED
  BY <1>3, <1>5 DEF BetterOp

\* What a better run block keeps.
LEMMA BetterBodyKeeps ==
  ASSUME NEW old \in Seq(Ops), NEW new, BetterBody(new, old)
  PROVE  /\ new \in Seq(Ops)
         /\ WiresEnd(old) => WiresEnd(new)
         /\ ReadMeasured(old) => ReadMeasured(new)
         /\ Emits(old) => Emits(new)
         /\ {i \in DOMAIN new : IsIf(new[i])} = {i \in DOMAIN old : IsIf(old[i])}
         /\ \A i \in DOMAIN old :
              /\ old[i].op = "region" => NoDearer(new[i].gates, old[i].gates)
              /\ IsIf(old[i]) => /\ NoDearer(new[i].then, old[i].then)
                                 /\ NoDearer(new[i].else, old[i].else)
<1>. DEFINE n == Len(old)
<1>1. /\ n \in Nat /\ DOMAIN old = 1 .. n /\ new \in Seq(Ops) /\ DOMAIN new = 1 .. n
      /\ Len(new) = n
  BY DEF BetterBody
<1>2. \A i \in 1 .. n : BetterOp(new[i], old[i])
  BY DEF BetterBody
<1>. HIDE DEF n
<1>3. \A i \in 1 .. n :
        /\ new[i].op = old[i].op /\ new[i].on = old[i].on /\ Wires(new[i]) = Wires(old[i])
        /\ old[i].op \in {"measure", "if"} => new[i].bit = old[i].bit
  BY <1>2 DEF BetterOp, Wires
<1>4. \A i \in 1 .. n :
        /\ old[i].op = "region" => Better(new[i].gates, old[i].gates, Positions(old[i]))
        /\ old[i].op = "if" => /\ Better(new[i].then, old[i].then, Positions(old[i]))
                               /\ Better(new[i].else, old[i].else, Positions(old[i]))
  BY <1>2 DEF BetterOp
<1>5. WiresEnd(old) => WiresEnd(new)
  BY <1>1, <1>3 DEF WiresEnd, IsMeasure
<1>6. ReadMeasured(old) => ReadMeasured(new)
  BY <1>1, <1>3 DEF ReadMeasured, IsMeasure, IsIf
<1>7. Unassigned(new) => Unassigned(old)
  <2>. SUFFICES ASSUME Unassigned(new) PROVE Unassigned(old)
    OBVIOUS
  <2>1. PICK i \in 1 .. n :
          /\ new[i].op = "gate"
          /\ \E j \in i + 1 .. n : new[j].op # "gate" /\ Wires(new[j]) \cap Wires(new[i]) # {}
    BY <1>1 DEF Unassigned
  <2>2. PICK j \in i + 1 .. n : new[j].op # "gate" /\ Wires(new[j]) \cap Wires(new[i]) # {}
    BY <2>1
  <2>3. j \in 1 .. n
    BY <1>1
  <2>4. old[i].op = "gate" /\ old[j].op # "gate" /\ Wires(old[j]) \cap Wires(old[i]) # {}
    BY <1>3, <2>1, <2>2, <2>3
  <2>5. i \in DOMAIN old /\ j \in i + 1 .. Len(old)
    BY <1>1 DEF n
  <2>. QED
    BY <2>4, <2>5 DEF Unassigned
<1>8. Emits(old) => Emits(new)
  BY <1>1, <1>3, <1>4, <1>7 DEF Emits, IsIf, Better
<1>9. {i \in DOMAIN new : IsIf(new[i])} = {i \in DOMAIN old : IsIf(old[i])}
  BY <1>1, <1>3 DEF IsIf
<1>. QED
  BY <1>1, <1>4, <1>5, <1>6, <1>8, <1>9 DEF IsIf, Better, Cheaper

\* A definition with cheaper gates.
LEMMA FuncCheaper ==
  ASSUME NEW f \in Funcs, NEW gates, Cheaper(gates, f.gates, 1 .. f.wires)
  PROVE  [f EXCEPT !.gates = gates] \in Funcs
<1>1. gates \in Seq(GatesOn(Nat)) /\ gates \in Seq(GatesOn(1 .. f.wires))
  <2>1. 1 .. f.wires \subseteq Nat
    BY DEF Funcs
  <2>. QED
    BY <2>1, GatesOnMore DEF Cheaper
<1>. QED
  BY <1>1 DEF Funcs


\* What is better than better is better.
LEMMA BetterThanBetter ==
  ASSUME NEW ws, NEW a, NEW b, NEW c \in Seq(GatesOn(ws)), Better(a, b, ws), Better(b, c, ws)
  PROVE  Better(a, c, ws)
<1>1. a \in Seq(GatesOn(ws)) /\ b \in Seq(GatesOn(ws))
  BY DEF Better, Cheaper
<1>2. {TCount(a), TCount(b), TCount(c), Len(a), Len(b), Len(c)} \subseteq Nat
  BY <1>1, TCountIs
<1>. QED
  BY <1>1, <1>2 DEF Better, Cheaper, NoDearer

LEMMA BetterOpOfBetterOp ==
  ASSUME NEW c \in Ops, NEW a, NEW b, BetterOp(a, b), BetterOp(b, c)
  PROVE  BetterOp(a, c)
<1>1. a \in Ops /\ b \in Ops /\ a.op = c.op /\ b.op = c.op /\ a.on = c.on /\ b.on = c.on
  BY DEF BetterOp
<1>2. Positions(b) = Positions(c)
  BY <1>1 DEF Positions
<1>3. c.op \in {"measure", "if"} => a.bit = c.bit
  BY <1>1 DEF BetterOp
<1>4. c.op = "region" => Better(a.gates, c.gates, Positions(c))
  BY <1>1, <1>2, KindsOfOp, BetterThanBetter DEF BetterOp
<1>5. c.op = "if" => Better(a.then, c.then, Positions(c)) /\ Better(a.else, c.else, Positions(c))
  BY <1>1, <1>2, KindsOfOp, BetterThanBetter DEF BetterOp
<1>. QED
  BY <1>1, <1>3, <1>4, <1>5 DEF BetterOp

LEMMA BetterBodyIs ==
  ASSUME NEW n \in Nat, NEW new, new = [i \in 1 .. n |-> new[i]],
         NEW old \in Seq(Ops), Len(old) = n, \A i \in 1 .. n : BetterOp(new[i], old[i])
  PROVE  BetterBody(new, old)
<1>1. new \in [1 .. n -> Ops]
  BY DEF BetterOp
<1>. QED
  BY <1>1, FunctionIsSeq DEF BetterBody

\* A pass that goes through the regions, and one that goes through the branches.
LEMMA ThroughRegions ==
  ASSUME NEW ops \in Seq(Ops), NEW gates,
         \A i \in 1 .. Len(ops) : ops[i].op = "region" => Better(gates[i], ops[i].gates, Positions(ops[i]))
  PROVE  BetterBody([i \in DOMAIN ops |-> IF ops[i].op = "region"
                                          THEN [ops[i] EXCEPT !.gates = gates[i]] ELSE ops[i]], ops)
<1>. DEFINE new == [i \in DOMAIN ops |-> IF ops[i].op = "region"
                                         THEN [ops[i] EXCEPT !.gates = gates[i]] ELSE ops[i]]
<1>1. DOMAIN ops = 1 .. Len(ops) /\ Len(ops) \in Nat
  OBVIOUS
<1>2. ASSUME NEW i \in 1 .. Len(ops) PROVE BetterOp(new[i], ops[i])
  <2>1. ops[i] \in Ops
    OBVIOUS
  <2>2. CASE ops[i].op = "region"
    <3>1. new[i] = [ops[i] EXCEPT !.gates = gates[i]]
      BY <1>1, <2>2
    <3>. HIDE DEF new
    <3>. QED
      BY <2>1, <2>2, <3>1, RegionBetter
  <2>3. CASE ops[i].op # "region"
    <3>1. new[i] = ops[i]
      BY <1>1, <2>3
    <3>. HIDE DEF new
    <3>. QED
      BY <2>1, <3>1, OpItself
  <2>. QED
    BY <2>2, <2>3
<1>3. new = [i \in 1 .. Len(ops) |-> new[i]]
  BY <1>1
<1>. HIDE DEF new
<1>4. BetterBody(new, ops)
  BY <1>1, <1>2, <1>3, BetterBodyIs
<1>. QED
  BY <1>4 DEF new

LEMMA ThroughBranches ==
  ASSUME NEW ops \in Seq(Ops), NEW then, NEW else,
         \A i \in 1 .. Len(ops) : ops[i].op = "if" =>
           /\ Better(then[i], ops[i].then, Positions(ops[i]))
           /\ Better(else[i], ops[i].else, Positions(ops[i]))
  PROVE  BetterBody([i \in DOMAIN ops |->
                       IF ops[i].op = "if"
                       THEN [ops[i] EXCEPT !.then = then[i], !.else = else[i]] ELSE ops[i]], ops)
<1>. DEFINE new == [i \in DOMAIN ops |-> IF ops[i].op = "if"
                      THEN [ops[i] EXCEPT !.then = then[i], !.else = else[i]] ELSE ops[i]]
<1>1. DOMAIN ops = 1 .. Len(ops) /\ Len(ops) \in Nat
  OBVIOUS
<1>2. ASSUME NEW i \in 1 .. Len(ops) PROVE BetterOp(new[i], ops[i])
  <2>1. ops[i] \in Ops
    OBVIOUS
  <2>2. CASE ops[i].op = "if"
    <3>1. new[i] = [ops[i] EXCEPT !.then = then[i], !.else = else[i]]
      BY <1>1, <2>2
    <3>. HIDE DEF new
    <3>. QED
      BY <2>1, <2>2, <3>1, IfBetter
  <2>3. CASE ops[i].op # "if"
    <3>1. new[i] = ops[i]
      BY <1>1, <2>3
    <3>. HIDE DEF new
    <3>. QED
      BY <2>1, <3>1, OpItself
  <2>. QED
    BY <2>2, <2>3
<1>3. new = [i \in 1 .. Len(ops) |-> new[i]]
  BY <1>1
<1>. HIDE DEF new
<1>4. BetterBody(new, ops)
  BY <1>1, <1>2, <1>3, BetterBodyIs
<1>. QED
  BY <1>4 DEF new

LEMMA BetterBodyOfBetter ==
  ASSUME NEW c \in Seq(Ops), NEW a, NEW b, BetterBody(a, b), BetterBody(b, c)
  PROVE  BetterBody(a, c)
<1>1. a \in Seq(Ops) /\ b \in Seq(Ops) /\ Len(a) = Len(c) /\ Len(b) = Len(c)
  BY DEF BetterBody
<1>2. \A i \in 1 .. Len(c) : c[i] \in Ops /\ BetterOp(a[i], b[i]) /\ BetterOp(b[i], c[i])
  BY <1>1 DEF BetterBody
<1>3. \A i \in 1 .. Len(c) : BetterOp(a[i], c[i])
  BY <1>2, BetterOpOfBetterOp
<1>. QED
  BY <1>1, <1>3 DEF BetterBody

LEMMA CancelBody ==
  ASSUME NEW ops \in Seq(Ops)
  PROVE  BetterBody(InBranches(LAMBDA gates, n : GateCancellation(gates),
                               InRegions(LAMBDA gates, n : GateCancellation(gates), ops)), ops)
<1>. DEFINE mid == InRegions(LAMBDA gates, n : GateCancellation(gates), ops)
            new == InBranches(LAMBDA gates, n : GateCancellation(gates), mid)
<1>1. BetterBody(mid, ops)
  <2>. DEFINE g == [i \in DOMAIN ops |-> GateCancellation(ops[i].gates)]
  <2>1. \A i \in 1 .. Len(ops) : ops[i].op = "region" => Better(g[i], ops[i].gates, Positions(ops[i]))
    BY KindsOfOp, CancellationIsBetter
  <2>2. mid = [i \in DOMAIN ops |-> IF ops[i].op = "region"
                                    THEN [ops[i] EXCEPT !.gates = g[i]] ELSE ops[i]]
    BY DEF InRegions
  <2>. HIDE DEF g, mid
  <2>. QED
    BY <2>1, <2>2, ThroughRegions
<1>2. mid \in Seq(Ops)
  BY <1>1 DEF BetterBody
<1>. HIDE DEF mid
<1>3. BetterBody(new, mid)
  <2>. DEFINE t == [i \in DOMAIN mid |-> GateCancellation(mid[i].then)]
              e == [i \in DOMAIN mid |-> GateCancellation(mid[i].else)]
  <2>1. \A i \in 1 .. Len(mid) : mid[i].op = "if" =>
          /\ Better(t[i], mid[i].then, Positions(mid[i]))
          /\ Better(e[i], mid[i].else, Positions(mid[i]))
    BY <1>2, KindsOfOp, CancellationIsBetter
  <2>2. new = [i \in DOMAIN mid |-> IF mid[i].op = "if"
                                    THEN [mid[i] EXCEPT !.then = t[i], !.else = e[i]] ELSE mid[i]]
    BY DEF InBranches, IsIf
  <2>. HIDE DEF t, e, new
  <2>. QED
    BY <1>2, <2>1, <2>2, ThroughBranches
<1>. HIDE DEF new
<1>4. BetterBody(new, ops)
  BY <1>1, <1>3, BetterBodyOfBetter
<1>. QED
  BY <1>4 DEF new, mid

LEMMA MergeBody ==
  ASSUME NEW ops \in Seq(Ops)
  PROVE  BetterBody(InBranches(LAMBDA gates, n : RotationMerging(gates),
                               InRegions(LAMBDA gates, n : RotationMerging(gates), ops)), ops)
<1>. DEFINE mid == InRegions(LAMBDA gates, n : RotationMerging(gates), ops)
            new == InBranches(LAMBDA gates, n : RotationMerging(gates), mid)
<1>1. BetterBody(mid, ops)
  <2>. DEFINE g == [i \in DOMAIN ops |-> RotationMerging(ops[i].gates)]
  <2>1. \A i \in 1 .. Len(ops) : ops[i].op = "region" => Better(g[i], ops[i].gates, Positions(ops[i]))
    BY KindsOfOp, MergingIsBetter
  <2>2. mid = [i \in DOMAIN ops |-> IF ops[i].op = "region"
                                    THEN [ops[i] EXCEPT !.gates = g[i]] ELSE ops[i]]
    BY DEF InRegions
  <2>. HIDE DEF g, mid
  <2>. QED
    BY <2>1, <2>2, ThroughRegions
<1>2. mid \in Seq(Ops)
  BY <1>1 DEF BetterBody
<1>. HIDE DEF mid
<1>3. BetterBody(new, mid)
  <2>. DEFINE t == [i \in DOMAIN mid |-> RotationMerging(mid[i].then)]
              e == [i \in DOMAIN mid |-> RotationMerging(mid[i].else)]
  <2>1. \A i \in 1 .. Len(mid) : mid[i].op = "if" =>
          /\ Better(t[i], mid[i].then, Positions(mid[i]))
          /\ Better(e[i], mid[i].else, Positions(mid[i]))
    BY <1>2, KindsOfOp, MergingIsBetter
  <2>2. new = [i \in DOMAIN mid |-> IF mid[i].op = "if"
                                    THEN [mid[i] EXCEPT !.then = t[i], !.else = e[i]] ELSE mid[i]]
    BY DEF InBranches, IsIf
  <2>. HIDE DEF t, e, new
  <2>. QED
    BY <1>2, <2>1, <2>2, ThroughBranches
<1>. HIDE DEF new
<1>4. BetterBody(new, ops)
  BY <1>1, <1>3, BetterBodyOfBetter
<1>. QED
  BY <1>4 DEF new, mid

LEMMA ZxBody ==
  ASSUME NEW ops \in Seq(Ops)
  PROVE  BetterBody(InRegions(ZxSimplification, ops), ops)
<1>. DEFINE mid == InRegions(ZxSimplification, ops)
            g == [i \in DOMAIN ops |-> ZxSimplification(ops[i].gates, Len(ops[i].on))]
<1>1. \A i \in 1 .. Len(ops) : ops[i].op = "region" => Better(g[i], ops[i].gates, Positions(ops[i]))
  BY KindsOfOp, ZxIsBetter DEF Positions
<1>2. mid = [i \in DOMAIN ops |-> IF ops[i].op = "region"
                                  THEN [ops[i] EXCEPT !.gates = g[i]] ELSE ops[i]]
  BY DEF InRegions
<1>. HIDE DEF g, mid
<1>3. BetterBody(mid, ops)
  BY <1>1, <1>2, ThroughRegions
<1>. QED
  BY <1>3 DEF mid

(***************************************************************************)
(* measurement_deferral.                                                   *)
(***************************************************************************)

NamedInto(found, gate, names) == IF gate.name \in names THEN Append(found, gate) ELSE found

NamedWalk(gates, names, f) ==
  f = [i \in 0 .. Len(gates) |-> IF i = 0 THEN <<>> ELSE
         IF gates[i].name \in names THEN Append(f[i - 1], gates[i]) ELSE f[i - 1]]

LEMMA NamedWalkExists ==
  ASSUME NEW S, NEW gates \in Seq(S), NEW names
  PROVE  \E f : NamedWalk(gates, names, f)
<1>. DEFINE n == Len(gates)
            N == Seq({g \in S : g.name \in names})
            Q == [i \in 0 .. n |-> N]
            G == [i \in 1 .. n |-> [t \in Q[i - 1] |-> NamedInto(t, gates[i], names)]]
<1>0. n \in Nat /\ \A i \in 1 .. n : gates[i] \in S
  OBVIOUS
<1>1. <<>> \in Q[0] /\ \A i \in 1 .. n : \A t \in Q[i - 1] : G[i][t] \in Q[i]
  <2>1. \A g \in S, t \in N : NamedInto(t, g, names) \in N
    BY DEF NamedInto
  <2>2. <<>> \in N
    OBVIOUS
  <2>. HIDE DEF N, n
  <2>. QED
    BY <1>0, <2>1, <2>2
<1>2. PICK f : Walk(n, <<>>, G, f) /\ Stays(n, Q, f)
  <2>. HIDE DEF n, Q, G
  <2>. QED
    BY <1>0, <1>1, WalkIn
<1>. DEFINE H == [i \in 1 .. n |-> NamedInto(f[i - 1], gates[i], names)]
<1>3. \A i \in 1 .. n : f[i - 1] \in Q[i - 1] => G[i][f[i - 1]] = H[i]
  <2>. HIDE DEF N
  <2>. QED
    BY <1>0
<1>4. f = [i \in 0 .. n |-> IF i = 0 THEN <<>> ELSE H[i]]
  <2>1. Walk(n, <<>>, G, f) /\ Stays(n, Q, f)
    BY <1>2
  <2>. HIDE DEF n, Q, G, H
  <2>2. Reaches(n, Q, G, f, H)
    BY <1>3 DEF Reaches
  <2>3. Solves(n, <<>>, f, H)
    BY <1>0, <2>1, <2>2, WalkIs
  <2>. QED
    BY <2>3 DEF Solves
<1>5. NamedWalk(gates, names, f)
  <2>1. \A i \in 0 .. n : i # 0 => H[i] = NamedInto(f[i - 1], gates[i], names)
    BY <1>0
  <2>. HIDE DEF H
  <2>. QED
    BY <1>4, <2>1 DEF NamedWalk, NamedInto
<1>. QED
  BY <1>5

LEMMA NamedIs ==
  ASSUME NEW S, NEW gates \in Seq(S), NEW names
  PROVE  Named(gates, names) \in Seq({g \in S : g.name \in names})
<1>. DEFINE f == CHOOSE f : NamedWalk(gates, names, f)
            n == Len(gates)
            N == Seq({g \in S : g.name \in names})
            Q == [i \in 0 .. n |-> N]
<1>0. n \in Nat /\ \A i \in 1 .. n : gates[i] \in S
  OBVIOUS
<1>1. Named(gates, names) = f[n]
  BY DEF Named, NamedWalk
<1>2. NamedWalk(gates, names, f)
  BY NamedWalkExists
<1>. HIDE DEF f
<1>3. f[0] = <<>> /\ \A i \in 1 .. n : f[i] = NamedInto(f[i - 1], gates[i], names)
  <2>1. \A i \in 0 .. n : f[i] = IF i = 0 THEN <<>> ELSE NamedInto(f[i - 1], gates[i], names)
    BY <1>2, Zenon DEF NamedWalk, NamedInto
  <2>. QED
    BY <1>0, <2>1
<1>4. \A i \in 0 .. n : f[i] \in Q[i]
  <2>1. f[0] \in Q[0]
    BY <1>0, <1>3
  <2>2. \A i \in 1 .. n : f[i - 1] \in Q[i - 1] => f[i] \in Q[i]
    <3>1. \A g \in S, t \in N : NamedInto(t, g, names) \in N
      BY DEF NamedInto
    <3>. HIDE DEF N, n
    <3>. QED
      BY <1>0, <1>3, <3>1
  <2>. HIDE DEF n, Q
  <2>. QED
    BY <1>0, <2>1, <2>2, Steps
<1>. QED
  BY <1>0, <1>1, <1>4

LEMMA InverseIs ==
  \A name \in DOMAIN InverseOf : InverseOf[name] \in DOMAIN InverseOf /\ Arity(InverseOf[name]) = Arity(name)
BY DEF InverseOf, Arity

LEMMA GateOfName ==
  ASSUME NEW ws, NEW name \in DOMAIN InverseOf, NEW on \in Seq(ws), Len(on) = Arity(name)
  PROVE  Gate(name, on) \in GatesOn(ws)
BY GateIs DEF Gate

\* Gates moved to the positions of a longer operand list.
LEMMA MovedIs ==
  ASSUME NEW n \in Nat, NEW k \in Nat, NEW gates \in Seq(GatesOn(1 .. n))
  PROVE  /\ MovedAll(gates, k) \in Seq(GatesOn(1 .. n + k))
         /\ EmitsGates(gates) => EmitsGates(MovedAll(gates, k))
<1>1. Len(gates) \in Nat /\ DOMAIN gates = 1 .. Len(gates) /\ \A i \in 1 .. Len(gates) : gates[i] \in GatesOn(1 .. n)
  OBVIOUS
<1>2. ASSUME NEW g \in GatesOn(1 .. n)
      PROVE  Moved(g, k) \in GatesOn(1 .. n + k) /\ Moved(g, k).op = "gate" /\ Moved(g, k).name = g.name
  <2>. DEFINE on == [i \in DOMAIN g.on |-> g.on[i] + k]
  <2>1. g.on \in Seq(1 .. n) /\ g.name \in DOMAIN InverseOf /\ Len(g.on) = Arity(g.name)
    BY DEF GatesOn
  <2>2. DOMAIN g.on = 1 .. Len(g.on) /\ Len(g.on) \in Nat /\ \A i \in 1 .. Len(g.on) : g.on[i] \in 1 .. n
    BY <2>1
  <2>3. on \in [1 .. Len(g.on) -> 1 .. n + k]
    BY <2>2
  <2>4. on \in Seq(1 .. n + k) /\ Len(on) = Arity(g.name)
    <3>. HIDE DEF on
    <3>1. Len(g.on) \in Nat
      BY <2>2
    <3>2. on \in Seq(1 .. n + k) /\ Len(on) = Len(g.on)
      BY <2>3, <3>1, FunctionIsSeq, ZenonT(30)
    <3>. QED
      BY <2>1, <3>2
  <2>5. Moved(g, k) = Gate(g.name, on)
    BY DEF Moved
  <2>. HIDE DEF on
  <2>. QED
    BY <2>1, <2>4, <2>5, GateOfName DEF Gate
<1>3. MovedAll(gates, k) \in [1 .. Len(gates) -> GatesOn(1 .. n + k)]
  BY <1>1, <1>2 DEF MovedAll
<1>4. MovedAll(gates, k) \in Seq(GatesOn(1 .. n + k)) /\ DOMAIN MovedAll(gates, k) = 1 .. Len(gates)
  BY <1>1, <1>3, FunctionIsSeq
<1>5. \A i \in 1 .. Len(gates) :
        MovedAll(gates, k)[i].op = "gate" /\ MovedAll(gates, k)[i].name = gates[i].name
  BY <1>1, <1>2 DEF MovedAll
<1>. QED
  BY <1>1, <1>4, <1>5 DEF EmitsGates

LEMMA ComposeIs ==
  ASSUME NEW ws, NEW then \in Seq(GatesOn(ws)), NEW else \in Seq(GatesOn(ws))
  PROVE  ComposeUVDagger(then, else) \in Seq(GatesOn(ws))
<1>. DEFINE invertible == Named(else, DOMAIN InverseOf \ Parametric)
            inverse == [i \in DOMAIN invertible |->
                          Gate(InverseOf[invertible[Len(invertible) + 1 - i].name],
                               invertible[Len(invertible) + 1 - i].on)]
<1>1. ComposeUVDagger(then, else) = inverse \o then
  BY DEF ComposeUVDagger
<1>2. invertible \in Seq(GatesOn(ws))
  <2>1. invertible \in Seq({g \in GatesOn(ws) : g.name \in DOMAIN InverseOf \ Parametric})
    BY NamedIs
  <2>. HIDE DEF invertible
  <2>. QED
    BY <2>1
<1>. HIDE DEF invertible
<1>3. inverse \in [1 .. Len(invertible) -> GatesOn(ws)]
  <2>1. DOMAIN invertible = 1 .. Len(invertible) /\ Len(invertible) \in Nat
    BY <1>2
  <2>2. ASSUME NEW g \in GatesOn(ws) PROVE Gate(InverseOf[g.name], g.on) \in GatesOn(ws)
    <3>1. g.name \in DOMAIN InverseOf /\ g.on \in Seq(ws) /\ Len(g.on) = Arity(g.name)
      BY DEF GatesOn
    <3>. QED
      BY <3>1, InverseIs, GateOfName
  <2>3. \A i \in 1 .. Len(invertible) : invertible[Len(invertible) + 1 - i] \in GatesOn(ws)
    BY <1>2, <2>1
  <2>. QED
    BY <2>1, <2>2, <2>3
<1>4. inverse \in Seq(GatesOn(ws))
  BY <1>2, <1>3, FunctionIsSeq
<1>. HIDE DEF inverse
<1>. QED
  BY <1>1, <1>4

LEMMA OneThenLen ==
  ASSUME NEW S, NEW s \in Seq(S), NEW t \in Seq(S), Len(s) = 1
  PROVE  Len(s \o t) = 1 + Len(t)
<1>1. Len(s \o t) = Len(s) + Len(t)
  BY ConcatProperties
<1>. QED
  BY <1>1

\* The region that takes the place of the if.
Corrections(branch) ==
  Named(ComposeUVDagger(MovedAll(branch.then, 1), MovedAll(branch.else, 1)), DOMAIN InverseOf \ {"I"})

RegionFor(measure, branch) ==
  Region(measure.on \o branch.on,
         MovedAll(branch.else, 1)
           \o [i \in DOMAIN Corrections(branch) |-> ControlledGate(Corrections(branch)[i])])

LEMMA RegionForIs ==
  ASSUME NEW measure \in Ops, IsMeasure(measure), NEW branch \in Ops, IsIf(branch),
         \A i \in DOMAIN Corrections(branch) : Controllable(Corrections(branch)[i])
  PROVE  /\ RegionFor(measure, branch) \in Ops /\ RegionFor(measure, branch).op = "region"
         /\ Wires(RegionFor(measure, branch)) = Wires(measure) \cup Wires(branch)
         /\ EmitsGates(branch.else) => EmitsGates(RegionFor(measure, branch).gates)
<1>. DEFINE n == Len(branch.on)
            else == MovedAll(branch.else, 1)
            c == Corrections(branch)
            cgates == [i \in DOMAIN c |-> ControlledGate(c[i])]
            on == measure.on \o branch.on
<1>1. /\ measure.on \in Seq(Nat) /\ Len(measure.on) = 1 /\ branch.on \in Seq(Nat) /\ n \in Nat
      /\ branch.then \in Seq(GatesOn(1 .. n)) /\ branch.else \in Seq(GatesOn(1 .. n))
  BY KindsOfOp DEF IsMeasure, IsIf, Positions
<1>2. on \in Seq(Nat) /\ Len(on) = n + 1 /\ Range(on) = Range(measure.on) \cup Range(branch.on)
  <2>1. on \in Seq(Nat) /\ Len(on) = 1 + n
    <3>1. on \in Seq(Nat)
      BY <1>1
    <3>2. Len(measure.on \o branch.on) = 1 + Len(branch.on)
      BY <1>1, OneThenLen
    <3>. QED
      BY <3>1, <3>2, Zenon
  <2>2. \A i \in 1 .. 1 + n : on[i] = IF i <= 1 THEN measure.on[i] ELSE branch.on[i - 1]
    <3>1. \A i \in 1 .. 1 + Len(branch.on) :
            (measure.on \o branch.on)[i] = IF i <= 1 THEN measure.on[i] ELSE branch.on[i - 1]
      <4>1. PICK m \in Nat : m = Len(measure.on) /\ m = 1
        BY <1>1
      <4>2. \A i \in 1 .. Len(measure.on) + Len(branch.on) :
              (measure.on \o branch.on)[i] =
                IF i <= Len(measure.on) THEN measure.on[i] ELSE branch.on[i - Len(measure.on)]
        BY <1>1, ConcatProperties
      <4>3. \A i \in 1 .. m + Len(branch.on) :
              (measure.on \o branch.on)[i] = IF i <= m THEN measure.on[i] ELSE branch.on[i - m]
        BY <4>1, <4>2
      <4>. QED
        BY <4>1, <4>3, Zenon
    <3>. QED
      BY <3>1, Zenon
  <2>3. DOMAIN on = 1 .. 1 + n /\ DOMAIN measure.on = 1 .. 1 /\ DOMAIN branch.on = 1 .. n
    <3>. HIDE DEF on
    <3>. QED
      BY <1>1, <2>1, LenProperties
  <2>. HIDE DEF on, n
  <2>4. ASSUME NEW w \in Range(branch.on) PROVE w \in Range(on)
    <3>1. PICK i \in 1 .. n : branch.on[i] = w
      BY <2>3 DEF Range
    <3>2. i + 1 \in 1 .. 1 + n /\ on[i + 1] = w
      BY <1>1, <2>2, <3>1
    <3>. QED
      BY <2>3, <3>2 DEF Range
  <2>5. ASSUME NEW w \in Range(measure.on) PROVE w \in Range(on)
    <3>1. measure.on[1] = w /\ on[1] = w /\ 1 \in 1 .. 1 + n
      BY <1>1, <2>2, <2>3 DEF Range
    <3>. QED
      BY <2>3, <3>1 DEF Range
  <2>6. ASSUME NEW w \in Range(on) PROVE w \in Range(measure.on) \cup Range(branch.on)
    <3>1. PICK i \in 1 .. 1 + n : on[i] = w
      BY <2>3 DEF Range
    <3>2. CASE i = 1
      BY <1>1, <2>2, <2>3, <3>1, <3>2 DEF Range
    <3>3. CASE i # 1
      <4>1. i - 1 \in 1 .. n /\ branch.on[i - 1] = w
        BY <1>1, <2>2, <3>1, <3>3
      <4>. QED
        BY <2>3, <4>1 DEF Range
    <3>. QED
      BY <3>2, <3>3
  <2>. QED
    BY <1>1, <2>1, <2>4, <2>5, <2>6
<1>3. else \in Seq(GatesOn(1 .. n + 1)) /\ (EmitsGates(branch.else) => EmitsGates(else))
  BY <1>1, MovedIs
<1>4. c \in Seq(GatesOn(1 .. n + 1))
  <2>1. MovedAll(branch.then, 1) \in Seq(GatesOn(1 .. n + 1))
    BY <1>1, MovedIs
  <2>2. ComposeUVDagger(MovedAll(branch.then, 1), else) \in Seq(GatesOn(1 .. n + 1))
    BY <1>3, <2>1, ComposeIs
  <2>3. c \in Seq({g \in GatesOn(1 .. n + 1) : g.name \in DOMAIN InverseOf \ {"I"}})
    BY <2>2, NamedIs DEF Corrections
  <2>. HIDE DEF c, n
  <2>. QED
    BY <2>3
<1>. HIDE DEF c, else, on
<1>5. DOMAIN c = 1 .. Len(c) /\ Len(c) \in Nat
  BY <1>4
<1>6. ASSUME NEW i \in 1 .. Len(c)
      PROVE  cgates[i] \in GatesOn(1 .. n + 1) /\ cgates[i].op = "gate" /\ cgates[i].name \notin NoKeyword
  <2>1. c[i] \in GatesOn(1 .. n + 1) /\ Controllable(c[i])
    BY <1>4, <1>5 DEF c
  <2>2. c[i].on \in Seq(1 .. n + 1) /\ Len(c[i].on) = 1
    BY <2>1 DEF GatesOn, Controllable
  <2>3. 1 \in 1 .. n + 1
    BY <1>1
  <2>. DEFINE name == IF c[i].name = "X" THEN "CNOT" ELSE "CZ"
  <2>4. <<1>> \o c[i].on \in Seq(1 .. n + 1) /\ Len(<<1>> \o c[i].on) = 2
    <3>1. <<1>> \in Seq(1 .. n + 1) /\ Len(<<1>>) = 1
      BY <2>3
    <3>2. \A m \in Nat : 1 + m = 2 <=> m = 1
      OBVIOUS
    <3>. HIDE DEF n
    <3>. QED
      BY <2>2, <3>1, <3>2, ConcatProperties, OneThenLen
  <2>5. name \in DOMAIN InverseOf /\ Arity(name) = 2 /\ name \notin NoKeyword
    BY GateNames DEF NoKeyword
  <2>6. cgates[i] = Gate(name, <<1>> \o c[i].on)
    BY <1>5 DEF ControlledGate
  <2>. HIDE DEF name, cgates
  <2>. QED
    BY <2>4, <2>5, <2>6, GateOfName DEF Gate
<1>7. cgates \in Seq(GatesOn(1 .. n + 1)) /\ DOMAIN cgates = 1 .. Len(c)
  <2>1. cgates \in [1 .. Len(c) -> GatesOn(1 .. n + 1)]
    BY <1>5, <1>6
  <2>. QED
    BY <1>5, <2>1, FunctionIsSeq
<1>8. EmitsGates(cgates)
  BY <1>6, <1>7 DEF EmitsGates
<1>9. RegionFor(measure, branch) = Region(on, else \o cgates)
  BY DEF RegionFor, on, else, c
<1>. HIDE DEF cgates, n
<1>10. else \o cgates \in Seq(GatesOn(1 .. n + 1))
  BY <1>3, <1>7
<1>11. EmitsGates(branch.else) => EmitsGates(else \o cgates)
  <2>. SUFFICES ASSUME EmitsGates(else) PROVE EmitsGates(else \o cgates)
    BY <1>3
  <2>1. Len(else) \in Nat /\ Len(cgates) \in Nat
    BY <1>3, <1>7
  <2>2. DOMAIN (else \o cgates) = 1 .. Len(else) + Len(cgates)
    BY <1>3, <1>7
  <2>3. ASSUME NEW i \in 1 .. Len(else) + Len(cgates)
        PROVE  (else \o cgates)[i].op = "gate" /\ (else \o cgates)[i].name \notin NoKeyword
    <3>1. (else \o cgates)[i] = IF i <= Len(else) THEN else[i] ELSE cgates[i - Len(else)]
      BY <1>3, <1>7, ConcatProperties
    <3>2. CASE i <= Len(else)
      <4>1. i \in DOMAIN else
        BY <1>3, <3>2
      <4>. QED
        BY <3>1, <3>2, <4>1 DEF EmitsGates
    <3>3. CASE ~(i <= Len(else))
      <4>1. i - Len(else) \in DOMAIN cgates
        BY <1>7, <2>1, <3>3
      <4>. QED
        BY <1>8, <3>1, <3>3, <4>1 DEF EmitsGates
    <3>. QED
      BY <3>2, <3>3
  <2>. QED
    BY <2>2, <2>3 DEF EmitsGates
<1>. QED
  <2>1. Region(on, else \o cgates) \in Ops
    BY <1>2, <1>10, RegionIsOp
  <2>. QED
    BY <1>2, <1>9, <1>11, <2>1 DEF Region, Wires

\* Where the operations of the block come from once the measurement at at stands where its
\* reader was and the region in front of it; the region itself comes from the reader.
From(n, at, reader) ==
  [k \in 1 .. n |-> IF k < at \/ k > reader THEN k
                    ELSE IF k = reader THEN at ELSE k + 1]

Deferred(new, old, at, reader, region) ==
  /\ new \in Seq(Ops) /\ Len(new) = Len(old)
  /\ \A k \in 1 .. Len(old) :
       new[k] = IF k = reader - 1 THEN region ELSE old[From(Len(old), at, reader)[k]]

LEMMA DeferredIs ==
  ASSUME NEW old \in Seq(Ops), NEW at \in 1 .. Len(old), NEW reader \in 1 .. Len(old), at < reader,
         NEW region \in Ops
  PROVE  Deferred(RemoveAt(ReplaceAt(InsertAt(old, reader + 1, old[at]), reader, region), at),
                  old, at, reader, region)
<1>. DEFINE n == Len(old)
            ins == InsertAt(old, reader + 1, old[at])
            rep == ReplaceAt(ins, reader, region)
            new == RemoveAt(rep, at)
<1>0. n \in Nat /\ old[at] \in Ops /\ reader + 1 \in 1 .. n + 1
  OBVIOUS
<1>1. /\ ins \in Seq(Ops) /\ Len(ins) = n + 1
      /\ \A k \in 1 .. n + 1 : ins[k] = IF k < reader + 1 THEN old[k]
                                        ELSE IF k = reader + 1 THEN old[at] ELSE old[k - 1]
  <2>1. PICK e \in Ops, r \in 1 .. Len(old) + 1 : e = old[at] /\ r = reader + 1
    BY <1>0
  <2>2. /\ InsertAt(old, r, e) \in Seq(Ops) /\ Len(InsertAt(old, r, e)) = Len(old) + 1
        /\ \A k \in 1 .. Len(old) + 1 : InsertAt(old, r, e)[k] =
             IF k < r THEN old[k] ELSE IF k = r THEN e ELSE old[k - 1]
    BY InsertAtIs
  <2>. QED
    BY <2>1, <2>2, Zenon
<1>. HIDE DEF ins
<1>2. /\ rep \in Seq(Ops) /\ Len(rep) = n + 1
      /\ \A k \in 1 .. n + 1 : rep[k] = IF k = reader THEN region ELSE ins[k]
  BY <1>0, <1>1 DEF ReplaceAt
<1>. HIDE DEF rep
<1>3. at \in 1 .. Len(rep)
  BY <1>0, <1>2
<1>4. /\ new \in Seq(Ops) /\ Len(new) = n
      /\ \A k \in 1 .. n : new[k] = IF k < at THEN rep[k] ELSE rep[k + 1]
  <2>1. /\ new \in Seq(Ops) /\ Len(new) = Len(rep) - 1
        /\ \A k \in 1 .. Len(rep) - 1 : new[k] = IF k < at THEN rep[k] ELSE rep[k + 1]
    BY <1>2, <1>3, RemoveAtIs
  <2>2. Len(rep) - 1 = n
    BY <1>0, <1>2
  <2>. QED
    BY <2>1, <2>2
<1>. HIDE DEF new
<1>5. ASSUME NEW k \in 1 .. n
      PROVE  new[k] = IF k = reader - 1 THEN region ELSE old[From(n, at, reader)[k]]
  <2>0. k \in 1 .. n + 1 /\ k + 1 \in 1 .. n + 1 /\ at \in Nat /\ reader \in Nat
    BY <1>0
  <2>1. From(n, at, reader)[k] = IF k < at \/ k > reader THEN k ELSE IF k = reader THEN at ELSE k + 1
    BY DEF From
  <2>2. CASE k < at
    <3>1. new[k] = rep[k] /\ rep[k] = ins[k] /\ ins[k] = old[k] /\ k # reader - 1
      BY <1>1, <1>2, <1>4, <2>0, <2>2
    <3>. QED
      BY <2>1, <2>2, <3>1
  <2>3. CASE k >= at /\ k = reader - 1
    <3>1. new[k] = rep[k + 1] /\ k + 1 = reader
      <4>1. ~(k < at) /\ k + 1 = reader
        BY <1>0, <2>0, <2>3
      <4>. QED
        BY <1>4, <4>1
    <3>. QED
      BY <1>2, <2>0, <2>3, <3>1
  <2>4. CASE k >= at /\ k < reader - 1
    <3>1. new[k] = rep[k + 1] /\ k + 1 # reader /\ k + 1 < reader + 1
      BY <1>4, <2>0, <2>4
    <3>2. new[k] = old[k + 1]
      BY <1>1, <1>2, <2>0, <3>1
    <3>. QED
      BY <2>0, <2>1, <2>4, <3>2
  <2>5. CASE k = reader
    <3>1. new[k] = rep[k + 1] /\ k + 1 # reader /\ k + 1 = reader + 1
      BY <1>4, <2>0, <2>5
    <3>2. new[k] = old[at]
      BY <1>1, <1>2, <2>0, <3>1
    <3>. QED
      BY <2>0, <2>1, <2>5, <3>2
  <2>6. CASE k > reader
    <3>1. new[k] = rep[k + 1] /\ k + 1 # reader /\ ~(k + 1 < reader + 1) /\ k + 1 # reader + 1
      BY <1>4, <2>0, <2>6
    <3>2. new[k] = old[k]
      <4>1. rep[k + 1] = ins[k + 1] /\ ins[k + 1] = old[(k + 1) - 1] /\ (k + 1) - 1 = k
        BY <1>1, <1>2, <2>0, <3>1
      <4>. QED
        BY <3>1, <4>1
    <3>. QED
      BY <2>0, <2>1, <2>6, <3>2
  <2>. QED
    BY <2>0, <2>2, <2>3, <2>4, <2>5, <2>6
<1>6. Deferred(new, old, at, reader, region)
  BY <1>4, <1>5 DEF Deferred
<1>. QED
  BY <1>6 DEF new, rep, ins

\* What every step of the pass keeps of the block it began with.
Ifs(ops) == {i \in DOMAIN ops : IsIf(ops[i])}
Measured(ops, bit) == \E i \in DOMAIN ops : IsMeasure(ops[i]) /\ ops[i].bit = bit

LEMMA IfsFinite ==
  ASSUME NEW S, NEW ops \in Seq(S)
  PROVE  IsFiniteSet(Ifs(ops)) /\ Cardinality(Ifs(ops)) \in Nat
<1>1. DOMAIN ops = 1 .. Len(ops) /\ Len(ops) \in Nat
  OBVIOUS
<1>2. IsFiniteSet(1 .. Len(ops))
  BY <1>1, FS_Interval
<1>3. Ifs(ops) \subseteq 1 .. Len(ops)
  BY <1>1 DEF Ifs
<1>. QED
  BY <1>2, <1>3, FS_Subset, FS_CardinalityType

DeferredOf(old) ==
  {new \in Seq(Ops) :
     /\ WiresEnd(new) /\ ReadMeasured(new)
     /\ \A bit \in STRING : Measured(old, bit) => Measured(new, bit)
     /\ Cardinality(Ifs(new)) <= Cardinality(Ifs(old))
     /\ Emits(old) => Emits(new)}

LEMMA DeferredKeeps ==
  ASSUME NEW old \in Seq(Ops), WiresEnd(old), ReadMeasured(old),
         NEW at \in 1 .. Len(old), NEW reader \in 1 .. Len(old), at < reader,
         IsMeasure(old[at]), IsIf(old[reader]), old[at].bit = old[reader].bit,
         \A i \in 1 .. Len(old) : IsIf(old[i]) /\ old[i].bit = old[at].bit => i = reader,
         NEW region \in Ops, region.op = "region",
         Wires(region) = Wires(old[at]) \cup Wires(old[reader]),
         EmitsGates(old[reader].else) => EmitsGates(region.gates),
         NEW new, Deferred(new, old, at, reader, region)
  PROVE  new \in DeferredOf(old)
<1>. DEFINE n == Len(old)
            p == From(n, at, reader)
<1>1. /\ n \in Nat /\ DOMAIN old = 1 .. n /\ new \in Seq(Ops) /\ DOMAIN new = 1 .. n
      /\ Len(new) = n /\ Len(old) = n
      /\ at \in 1 .. n /\ reader \in 1 .. n /\ at < reader
  BY DEF Deferred
<1>2. \A k \in 1 .. n : new[k] = IF k = reader - 1 THEN region ELSE old[p[k]]
  BY DEF Deferred
<1>3. \A k \in 1 .. n : p[k] = IF k < at \/ k > reader THEN k ELSE IF k = reader THEN at ELSE k + 1
  BY DEF From
<1>. HIDE DEF n, p
<1>4. ASSUME NEW k \in 1 .. n
      PROVE  /\ p[k] \in 1 .. n
             /\ k = reader => p[k] = at
             /\ k # reader => p[k] # at
             /\ k = reader - 1 <=> p[k] = reader
  BY <1>1, <1>3
<1>5. ASSUME NEW i \in 1 .. n, NEW j \in 1 .. n
      PROVE  /\ p[i] = p[j] => i = j
             /\ j # reader /\ i # reader => (i < j <=> p[i] < p[j])
             /\ i = reader /\ i < j => p[i] < p[j]
  BY <1>1, <1>3
<1>6. ASSUME NEW k \in 1 .. n
      PROVE  /\ IsMeasure(new[k]) \/ IsIf(new[k]) \/ new[k].op = "gate" => k # reader - 1
             /\ k = reader => new[k] = old[at]
             /\ k # reader - 1 => new[k] = old[p[k]]
             /\ k = reader - 1 => new[k] = region
  BY <1>1, <1>2, <1>4 DEF IsMeasure, IsIf
<1>w. \A i, j \in 1 .. n : i < j /\ IsMeasure(old[i]) => Wires(old[i]) \cap Wires(old[j]) = {}
  BY <1>1 DEF WiresEnd
<1>7. WiresEnd(new)
  <2>. SUFFICES ASSUME NEW i \in 1 .. n, NEW j \in 1 .. n, i < j, IsMeasure(new[i])
                PROVE  Wires(new[i]) \cap Wires(new[j]) = {}
    BY <1>1 DEF WiresEnd
  <2>1. i # reader - 1 /\ new[i] = old[p[i]] /\ IsMeasure(old[p[i]]) /\ p[i] \in 1 .. n /\ p[j] \in 1 .. n
    BY <1>4, <1>6
  <2>2. CASE j # reader /\ j # reader - 1
    <3>1. p[i] < p[j]
      BY <1>5, <2>2
    <3>2. Wires(old[p[i]]) \cap Wires(old[p[j]]) = {}
      BY <1>w, <2>1, <3>1, Zenon
    <3>3. new[j] = old[p[j]]
      BY <1>6, <2>2, Zenon
    <3>. QED
      BY <2>1, <3>2, <3>3, Zenon
  <2>3. CASE j = reader
    <3>1. p[i] < at \/ at < p[i]
      BY <1>1, <1>4, <2>1, <2>3
    <3>2. Wires(old[p[i]]) \cap Wires(old[at]) = {}
      BY <1>1, <1>w, <2>1, <3>1
    <3>. QED
      BY <1>6, <2>1, <2>3, <3>2
  <2>4. CASE j = reader - 1
    <3>1. p[i] # at /\ i # reader /\ p[i] < reader
      BY <1>1, <1>3, <1>4, <2>4
    <3>2. Wires(old[p[i]]) \cap Wires(old[at]) = {}
      BY <1>1, <1>w, <2>1, <3>1
    <3>3. Wires(old[p[i]]) \cap Wires(old[reader]) = {}
      BY <1>1, <1>w, <2>1, <3>1
    <3>. QED
      BY <1>6, <2>1, <2>4, <3>2, <3>3
  <2>. QED
    BY <2>2, <2>3, <2>4
<1>8. ReadMeasured(new)
  <2>. SUFFICES ASSUME NEW i \in 1 .. n, NEW j \in 1 .. n, IsMeasure(new[i]), IsIf(new[j]),
                       new[i].bit = new[j].bit
                PROVE  i < j
    BY <1>1 DEF ReadMeasured
  <2>1. new[i] = old[p[i]] /\ new[j] = old[p[j]] /\ p[i] \in 1 .. n /\ p[j] \in 1 .. n /\ j # reader - 1
    BY <1>4, <1>6
  <2>2. p[i] < p[j]
    BY <1>1, <2>1 DEF ReadMeasured
  <2>3. j # reader
    BY <1>6 DEF IsMeasure, IsIf
  <2>4. i # reader
    <3>1. ASSUME i = reader PROVE FALSE
      <4>1. old[p[j]].bit = old[at].bit /\ IsIf(old[p[j]])
        BY <1>6, <2>1, <3>1
      <4>2. p[j] = reader
        BY <1>1, <2>1, <4>1 DEF n
      <4>. QED
        BY <1>4, <2>1, <4>2
    <3>. QED
      BY <3>1
  <2>. QED
    BY <1>5, <2>2, <2>3, <2>4
<1>9. ASSUME NEW bit \in STRING, Measured(old, bit) PROVE Measured(new, bit)
  <2>1. PICK i \in 1 .. n : IsMeasure(old[i]) /\ old[i].bit = bit
    BY <1>1, <1>9 DEF Measured
  <2>. DEFINE k == IF i = at THEN reader ELSE IF i < at \/ i > reader THEN i ELSE i - 1
  <2>2. i # reader
    BY <2>1 DEF IsMeasure, IsIf
  <2>3. k \in 1 .. n /\ p[k] = i
    BY <1>1, <1>3, <2>2
  <2>4. k # reader - 1
    BY <1>4, <2>2, <2>3
  <2>5. new[k] = old[i]
    BY <1>6, <2>3, <2>4
  <2>. QED
    BY <1>1, <2>1, <2>3, <2>5 DEF Measured
<1>10. Cardinality(Ifs(new)) <= Cardinality(Ifs(old))
  <2>1. IsFiniteSet(Ifs(old))
    BY IfsFinite
  <2>2. \A k \in Ifs(new) : p[k] \in Ifs(old)
    BY <1>1, <1>4, <1>6 DEF Ifs
  <2>3. \A k, m \in Ifs(new) : p[k] = p[m] => k = m
    BY <1>1, <1>5 DEF Ifs
  <2>. QED
    BY <2>1, <2>2, <2>3, NoLarger
<1>11. ASSUME Emits(old) PROVE Emits(new)
  <2>1. ASSUME NEW k \in 1 .. n
        PROVE  /\ new[k].op = "region" => EmitsGates(new[k].gates)
               /\ IsIf(new[k]) => EmitsGates(new[k].then) /\ EmitsGates(new[k].else)
    <3>1. CASE k = reader - 1
      <4>1. EmitsGates(old[reader].else)
        BY <1>1, <1>11 DEF Emits
      <4>. QED
        BY <1>6, <3>1, <4>1 DEF IsIf
    <3>2. CASE k # reader - 1
      BY <1>1, <1>4, <1>6, <1>11, <3>2 DEF Emits
    <3>. QED
      BY <3>1, <3>2
  <2>2. ASSUME NEW i \in 1 .. n, NEW j \in 1 .. n, old[i].op = "gate", old[j].op # "gate", i < j
        PROVE  Wires(old[j]) \cap Wires(old[i]) = {}
    <3>1. ~Unassigned(old)
      BY <1>11 DEF Emits
    <3>2. i \in DOMAIN old /\ j \in i + 1 .. Len(old)
      BY <1>1, <2>2
    <3>. QED
      BY <2>2, <3>1, <3>2 DEF Unassigned
  <2>3. ASSUME NEW i \in 1 .. n, old[i].op = "gate" PROVE Wires(old[at]) \cap Wires(old[i]) = {}
    <3>1. CASE i < at
      BY <1>1, <2>2, <2>3, <3>1 DEF IsMeasure
    <3>2. CASE at < i
      BY <1>1, <1>w, <3>2
    <3>3. i # at
      BY <2>3 DEF IsMeasure
    <3>. QED
      BY <1>1, <3>1, <3>2, <3>3
  <2>4. ASSUME NEW i \in 1 .. n, NEW j \in 1 .. n, i < j, new[i].op = "gate", new[j].op # "gate"
        PROVE  Wires(new[j]) \cap Wires(new[i]) = {}
    <3>1. i # reader - 1 /\ new[i] = old[p[i]] /\ old[p[i]].op = "gate" /\ p[i] \in 1 .. n /\ p[j] \in 1 .. n
      BY <1>4, <1>6, <2>4
    <3>2. CASE j = reader
      BY <1>6, <2>3, <3>1, <3>2
    <3>3. CASE j = reader - 1
      <4>1. p[i] < reader
        BY <1>1, <1>3, <2>4, <3>3
      <4>2. Wires(old[reader]) \cap Wires(old[p[i]]) = {}
        BY <1>1, <2>2, <3>1, <4>1 DEF IsIf
      <4>3. Wires(old[at]) \cap Wires(old[p[i]]) = {}
        BY <2>3, <3>1
      <4>4. new[j] = region
        BY <1>6, <3>3
      <4>. QED
        BY <3>1, <4>2, <4>3, <4>4
    <3>4. CASE j # reader /\ j # reader - 1
      <4>1. new[j] = old[p[j]]
        BY <1>6, <3>4
      <4>2. p[i] < p[j]
        BY <1>5, <2>4, <3>4
      <4>. QED
        BY <2>2, <2>4, <3>1, <4>1, <4>2
    <3>. QED
      BY <3>2, <3>3, <3>4
  <2>5. ~Unassigned(new)
    <3>. SUFFICES ASSUME Unassigned(new) PROVE FALSE
      OBVIOUS
    <3>1. PICK i \in 1 .. n :
            /\ new[i].op = "gate"
            /\ \E j \in i + 1 .. n : new[j].op # "gate" /\ Wires(new[j]) \cap Wires(new[i]) # {}
      BY <1>1 DEF Unassigned
    <3>2. PICK j \in i + 1 .. n : new[j].op # "gate" /\ Wires(new[j]) \cap Wires(new[i]) # {}
      BY <3>1
    <3>3. j \in 1 .. n /\ i < j
      BY <1>1
    <3>. QED
      BY <2>4, <3>1, <3>2, <3>3
  <2>. QED
    BY <1>1, <2>1, <2>5 DEF Emits
<1>. QED
  BY <1>1, <1>7, <1>8, <1>9, <1>10, <1>11 DEF DeferredOf

LEMMA DeferredNone ==
  ASSUME NEW old \in Seq(Ops), WiresEnd(old), ReadMeasured(old)
  PROVE  old \in DeferredOf(old)
<1>1. Cardinality(Ifs(old)) \in Nat
  BY IfsFinite
<1>2. Cardinality(Ifs(old)) <= Cardinality(Ifs(old))
  BY <1>1
<1>. QED
  BY <1>2 DEF DeferredOf

LEMMA DeferredMore ==
  ASSUME NEW a \in Seq(Ops), NEW b \in DeferredOf(a), NEW c \in DeferredOf(b)
  PROVE  c \in DeferredOf(a)
<1>1. b \in Seq(Ops) /\ c \in Seq(Ops)
  BY DEF DeferredOf
<1>2. {Cardinality(Ifs(a)), Cardinality(Ifs(b)), Cardinality(Ifs(c))} \subseteq Nat
  BY <1>1, IfsFinite
<1>3. Cardinality(Ifs(c)) <= Cardinality(Ifs(b)) /\ Cardinality(Ifs(b)) <= Cardinality(Ifs(a))
  BY DEF DeferredOf
<1>4. Cardinality(Ifs(c)) <= Cardinality(Ifs(a))
  BY <1>2, <1>3
<1>. QED
  BY <1>1, <1>4 DEF DeferredOf

\* The only reader of a bit.
LEMMA ReaderIs ==
  ASSUME NEW ops \in Seq(Ops), NEW bit, ReaderOf(ops, bit) # 0
  PROVE  /\ ReaderOf(ops, bit) \in 1 .. Len(ops) /\ IsIf(ops[ReaderOf(ops, bit)])
         /\ ops[ReaderOf(ops, bit)].bit = bit
         /\ \A i \in 1 .. Len(ops) : IsIf(ops[i]) /\ ops[i].bit = bit => i = ReaderOf(ops, bit)
<1>. DEFINE readers == {i \in DOMAIN ops : IsIf(ops[i]) /\ ops[i].bit = bit}
<1>1. DOMAIN ops = 1 .. Len(ops) /\ Len(ops) \in Nat
  OBVIOUS
<1>2. ReaderOf(ops, bit) = IF Cardinality(readers) = 1 THEN CHOOSE i \in readers : TRUE ELSE 0
  BY DEF ReaderOf
<1>3. IsFiniteSet(readers)
  <2>1. IsFiniteSet(1 .. Len(ops))
    BY <1>1, FS_Interval
  <2>. QED
    BY <1>1, <2>1, FS_Subset
<1>4. \A i \in readers : i \in 1 .. Len(ops) /\ IsIf(ops[i]) /\ ops[i].bit = bit
  BY <1>1
<1>5. \A i \in 1 .. Len(ops) : IsIf(ops[i]) /\ ops[i].bit = bit => i \in readers
  BY <1>1
<1>. HIDE DEF readers
<1>6. Cardinality(readers) = 1
  BY <1>2
<1>7. PICK r : readers = {r}
  BY <1>3, <1>6, FS_Singleton
<1>8. ReaderOf(ops, bit) = r
  BY <1>2, <1>6, <1>7
<1>. QED
  BY <1>4, <1>5, <1>7, <1>8

LEMMA DeferMeasurementKeeps ==
  ASSUME NEW ops \in Seq(Ops), WiresEnd(ops), ReadMeasured(ops), NEW bit \in STRING, Measured(ops, bit)
  PROVE  DeferMeasurement(ops, bit) \in DeferredOf(ops)
<1>. DEFINE at == CHOOSE i \in DOMAIN ops : IsMeasure(ops[i]) /\ ops[i].bit = bit
            reader == ReaderOf(ops, bit)
            region == RegionFor(ops[at], ops[reader])
            new == RemoveAt(ReplaceAt(InsertAt(ops, reader + 1, ops[at]), reader, region), at)
            can == /\ reader # 0
                   /\ \A i \in DOMAIN Corrections(ops[reader]) : Controllable(Corrections(ops[reader])[i])
<1>1. DeferMeasurement(ops, bit) = IF can THEN new ELSE ops
  BY DEF DeferMeasurement, RegionFor, Corrections
<1>2. DOMAIN ops = 1 .. Len(ops) /\ Len(ops) \in Nat /\ \A i \in 1 .. Len(ops) : ops[i] \in Ops
  OBVIOUS
<1>3. at \in 1 .. Len(ops) /\ IsMeasure(ops[at]) /\ ops[at].bit = bit
  <2>1. \E i \in DOMAIN ops : IsMeasure(ops[i]) /\ ops[i].bit = bit
    BY DEF Measured
  <2>. QED
    BY <1>2, <2>1
<1>. HIDE DEF at
<1>4. CASE ~can
  BY <1>1, <1>4, DeferredNone
<1>5. CASE can
  <2>1. /\ reader \in 1 .. Len(ops) /\ IsIf(ops[reader]) /\ ops[reader].bit = bit
        /\ \A i \in 1 .. Len(ops) : IsIf(ops[i]) /\ ops[i].bit = bit => i = reader
    BY <1>5, ReaderIs
  <2>. HIDE DEF reader
  <2>2. at < reader
    BY <1>2, <1>3, <2>1 DEF ReadMeasured
  <2>3. /\ region \in Ops /\ region.op = "region" /\ Wires(region) = Wires(ops[at]) \cup Wires(ops[reader])
        /\ EmitsGates(ops[reader].else) => EmitsGates(region.gates)
    BY <1>2, <1>3, <1>5, <2>1, RegionForIs
  <2>. HIDE DEF region
  <2>4. Deferred(new, ops, at, reader, region)
    BY <1>3, <2>1, <2>2, <2>3, DeferredIs
  <2>. HIDE DEF new
  <2>5. new \in DeferredOf(ops)
    <3>1. ops[at].bit = ops[reader].bit
      BY <1>3, <2>1
    <3>2. \A i \in 1 .. Len(ops) : IsIf(ops[i]) /\ ops[i].bit = ops[at].bit => i = reader
      BY <1>3, <2>1
    <3>. QED
      BY <1>3, <2>1, <2>2, <2>3, <2>4, <3>1, <3>2, DeferredKeeps
  <2>. QED
    BY <1>1, <1>5, <2>5
<1>. QED
  BY <1>4, <1>5

DeferStep(old, ops, i) ==
  IF IsMeasure(old[Len(old) + 1 - i]) THEN DeferMeasurement(ops, old[Len(old) + 1 - i].bit) ELSE ops

LEMMA DeferStepKeeps ==
  ASSUME NEW old \in Seq(Ops), NEW i \in 1 .. Len(old), NEW ops \in DeferredOf(old)
  PROVE  DeferStep(old, ops, i) \in DeferredOf(old)
<1>. DEFINE op == old[Len(old) + 1 - i]
<1>1. op \in Ops /\ Len(old) + 1 - i \in DOMAIN old
  OBVIOUS
<1>2. CASE IsMeasure(op)
  <2>1. op.bit \in STRING
    BY <1>1, <1>2, KindsOfOp DEF IsMeasure
  <2>2. Measured(old, op.bit)
    BY <1>1, <1>2 DEF Measured
  <2>. HIDE DEF op
  <2>3. ops \in Seq(Ops) /\ WiresEnd(ops) /\ ReadMeasured(ops) /\ Measured(ops, op.bit)
    BY <2>1, <2>2 DEF DeferredOf
  <2>4. DeferMeasurement(ops, op.bit) \in DeferredOf(ops)
    BY <2>1, <2>3, DeferMeasurementKeeps
  <2>. QED
    BY <1>2, <2>4, DeferredMore DEF DeferStep, op
<1>3. CASE ~IsMeasure(op)
  BY <1>3 DEF DeferStep
<1>. QED
  BY <1>2, <1>3

DeferWalk(old, f) ==
  f = [i \in 0 .. Len(old) |->
         IF i = 0 THEN old
         ELSE LET op == old[Len(old) + 1 - i]
              IN IF IsMeasure(op) THEN DeferMeasurement(f[i - 1], op.bit) ELSE f[i - 1]]

LEMMA DeferWalkExists ==
  ASSUME NEW old \in Seq(Ops), WiresEnd(old), ReadMeasured(old)
  PROVE  \E f : DeferWalk(old, f)
<1>. DEFINE n == Len(old)
            Q == [i \in 0 .. n |-> DeferredOf(old)]
            G == [i \in 1 .. n |-> [t \in Q[i - 1] |-> DeferStep(old, t, i)]]
<1>0. n \in Nat
  OBVIOUS
<1>1. old \in Q[0] /\ \A i \in 1 .. n : \A t \in Q[i - 1] : G[i][t] \in Q[i]
  BY <1>0, DeferredNone, DeferStepKeeps
<1>2. PICK f : Walk(n, old, G, f) /\ Stays(n, Q, f)
  <2>. HIDE DEF n, Q, G
  <2>. QED
    BY <1>0, <1>1, WalkIn
<1>. DEFINE H == [i \in 1 .. n |-> DeferStep(old, f[i - 1], i)]
<1>3. \A i \in 1 .. n : f[i - 1] \in Q[i - 1] => G[i][f[i - 1]] = H[i]
  BY <1>0
<1>4. f = [i \in 0 .. n |-> IF i = 0 THEN old ELSE H[i]]
  <2>1. Walk(n, old, G, f) /\ Stays(n, Q, f)
    BY <1>2
  <2>. HIDE DEF n, Q, G, H
  <2>2. Reaches(n, Q, G, f, H)
    BY <1>3 DEF Reaches
  <2>3. Solves(n, old, f, H)
    BY <1>0, <2>1, <2>2, WalkIs
  <2>. QED
    BY <2>3 DEF Solves
<1>5. DeferWalk(old, f)
  <2>1. \A i \in 0 .. n : i # 0 => H[i] = DeferStep(old, f[i - 1], i)
    BY <1>0
  <2>. HIDE DEF H
  <2>. QED
    BY <1>4, <2>1 DEF DeferWalk, DeferStep
<1>. QED
  BY <1>5

LEMMA DeferralKeeps ==
  ASSUME NEW old \in Seq(Ops), WiresEnd(old), ReadMeasured(old)
  PROVE  MeasurementDeferral(old) \in DeferredOf(old)
<1>. DEFINE f == CHOOSE f : DeferWalk(old, f)
            n == Len(old)
            Q == [i \in 0 .. n |-> DeferredOf(old)]
<1>0. n \in Nat
  OBVIOUS
<1>1. MeasurementDeferral(old) = f[n]
  BY DEF MeasurementDeferral, DeferWalk
<1>2. DeferWalk(old, f)
  BY DeferWalkExists
<1>. HIDE DEF f
<1>3. f[0] = old /\ \A i \in 1 .. n : f[i] = DeferStep(old, f[i - 1], i)
  <2>1. \A i \in 0 .. n : f[i] = IF i = 0 THEN old ELSE DeferStep(old, f[i - 1], i)
    BY <1>2, Zenon DEF DeferWalk, DeferStep
  <2>. QED
    BY <1>0, <2>1
<1>4. \A i \in 0 .. n : f[i] \in Q[i]
  <2>1. f[0] \in Q[0]
    BY <1>0, <1>3, DeferredNone
  <2>2. \A i \in 1 .. n : f[i - 1] \in Q[i - 1] => f[i] \in Q[i]
    BY <1>0, <1>3, DeferStepKeeps
  <2>. HIDE DEF n, Q
  <2>. QED
    BY <1>0, <2>1, <2>2, Steps
<1>. QED
  BY <1>0, <1>1, <1>4

(***************************************************************************)
(* classical_region_fusion.                                                *)
(***************************************************************************)

\* What stands in a run block while ifs are fused: in a branch also an if of gates.
InnerIfs == [op : {"if"}, bit : STRING, on : Seq(Nat), then : Seq(GatesOn(Nat)), else : Seq(GatesOn(Nat))]
Inner == GatesOn(Nat) \cup InnerIfs
FusedIfs == [op : {"if"}, bit : STRING, on : Seq(Nat), then : Seq(Inner), else : Seq(Inner)]
FusedOps == {op \in Ops : op.op # "if"} \cup FusedIfs

LEMMA OpsAreFused ==
  ASSUME NEW ops \in Seq(Ops)
  PROVE  ops \in Seq(FusedOps)
<1>1. ASSUME NEW op \in Ops PROVE op \in FusedOps
  <2>1. CASE op.op # "if"
    BY <2>1 DEF FusedOps
  <2>2. CASE op.op = "if"
    <3>1. op \in InnerIfs
      BY <2>2, KindsOfOp DEF InnerIfs
    <3>2. \A s \in Seq(GatesOn(Nat)) : s \in Seq(Inner)
      BY DEF Inner
    <3>3. op \in FusedIfs
      BY <3>1, <3>2 DEF InnerIfs, FusedIfs
    <3>. QED
      BY <3>3 DEF FusedOps
  <2>. QED
    BY <2>1, <2>2
<1>. QED
  BY <1>1

LEMMA MovedGates ==
  ASSUME NEW k \in Nat, NEW branch \in Seq(Inner), OnlyGates(branch)
  PROVE  /\ MovedAll(branch, k) \in Seq(GatesOn(Nat))
         /\ EmitsGates(branch) => EmitsGates(MovedAll(branch, k))
<1>1. /\ Len(branch) \in Nat /\ DOMAIN branch = 1 .. Len(branch)
      /\ \A i \in 1 .. Len(branch) : branch[i] \in GatesOn(Nat)
  BY DEF OnlyGates, Inner, InnerIfs
<1>2. ASSUME NEW g \in GatesOn(Nat)
      PROVE  Moved(g, k) \in GatesOn(Nat) /\ Moved(g, k).op = "gate" /\ Moved(g, k).name = g.name
  <2>. DEFINE on == [i \in DOMAIN g.on |-> g.on[i] + k]
  <2>1. g.on \in Seq(Nat) /\ g.name \in DOMAIN InverseOf /\ Len(g.on) = Arity(g.name)
    BY DEF GatesOn
  <2>2. DOMAIN g.on = 1 .. Len(g.on) /\ Len(g.on) \in Nat /\ \A i \in 1 .. Len(g.on) : g.on[i] \in Nat
    BY <2>1
  <2>3. on \in [1 .. Len(g.on) -> Nat]
    BY <2>2
  <2>4. Moved(g, k) = Gate(g.name, on)
    BY DEF Moved
  <2>. HIDE DEF on
  <2>5. on \in Seq(Nat) /\ Len(on) = Len(g.on)
    BY <2>2, <2>3, FunctionIsSeq
  <2>. QED
    BY <2>1, <2>4, <2>5, GateOfName DEF Gate
<1>3. MovedAll(branch, k) \in [1 .. Len(branch) -> GatesOn(Nat)]
  BY <1>1, <1>2 DEF MovedAll
<1>4. MovedAll(branch, k) \in Seq(GatesOn(Nat)) /\ DOMAIN MovedAll(branch, k) = 1 .. Len(branch)
  BY <1>1, <1>3, FunctionIsSeq
<1>5. \A i \in 1 .. Len(branch) :
        MovedAll(branch, k)[i].op = "gate" /\ MovedAll(branch, k)[i].name = branch[i].name
  BY <1>1, <1>2 DEF MovedAll
<1>. QED
  BY <1>1, <1>4, <1>5 DEF EmitsGates

LEMMA EmitsConcat ==
  ASSUME NEW S, NEW a \in Seq(S), NEW b \in Seq(S), EmitsGates(a), EmitsGates(b)
  PROVE  EmitsGates(a \o b)
<1>1. /\ DOMAIN a = 1 .. Len(a) /\ Len(a) \in Nat /\ DOMAIN b = 1 .. Len(b) /\ Len(b) \in Nat
      /\ a \o b \in Seq(S) /\ DOMAIN (a \o b) = 1 .. Len(a) + Len(b)
  OBVIOUS
<1>2. ASSUME NEW i \in 1 .. Len(a) + Len(b)
      PROVE  (a \o b)[i].op = "gate" /\ (a \o b)[i].name \notin NoKeyword
  <2>1. (a \o b)[i] = IF i <= Len(a) THEN a[i] ELSE b[i - Len(a)]
    BY ConcatProperties
  <2>2. CASE i <= Len(a)
    BY <1>1, <2>1, <2>2 DEF EmitsGates
  <2>3. CASE ~(i <= Len(a))
    <3>1. i - Len(a) \in DOMAIN b
      BY <1>1, <2>3
    <3>. QED
      BY <2>1, <2>3, <3>1 DEF EmitsGates
  <2>. QED
    BY <2>2, <2>3
<1>. QED
  BY <1>1, <1>2 DEF EmitsGates

LEMMA RangeOfConcat ==
  ASSUME NEW S, NEW a \in Seq(S), NEW b \in Seq(S)
  PROVE  Range(a \o b) \subseteq Range(a) \cup Range(b)
<1>1. /\ DOMAIN a = 1 .. Len(a) /\ Len(a) \in Nat /\ DOMAIN b = 1 .. Len(b) /\ Len(b) \in Nat
      /\ DOMAIN (a \o b) = 1 .. Len(a) + Len(b)
  OBVIOUS
<1>2. \A i \in 1 .. Len(a) + Len(b) : (a \o b)[i] = IF i <= Len(a) THEN a[i] ELSE b[i - Len(a)]
  BY ConcatProperties
<1>. SUFFICES ASSUME NEW w \in Range(a \o b) PROVE w \in Range(a) \cup Range(b)
  OBVIOUS
<1>3. PICK i \in 1 .. Len(a) + Len(b) : (a \o b)[i] = w
  BY <1>1 DEF Range
<1>4. CASE i <= Len(a)
  <2>1. i \in DOMAIN a /\ a[i] = w
    BY <1>1, <1>2, <1>3, <1>4
  <2>. QED
    BY <2>1 DEF Range
<1>5. CASE ~(i <= Len(a))
  <2>1. i - Len(a) \in DOMAIN b /\ b[i - Len(a)] = w
    BY <1>1, <1>2, <1>3, <1>5
  <2>. QED
    BY <2>1 DEF Range
<1>. QED
  BY <1>4, <1>5

\* The if two ifs become.
LEMMA FusePairIs ==
  ASSUME NEW first \in FusedIfs, NEW second \in FusedIfs, Simple(first), Simple(second)
  PROVE  /\ FusePair(first, second) \in FusedIfs /\ FusePair(first, second).bit = first.bit
         /\ Wires(FusePair(first, second)) \subseteq Wires(first) \cup Wires(second)
         /\ first.bit = second.bit /\ EmitsGates(first.then) /\ EmitsGates(first.else)
            /\ EmitsGates(second.then) /\ EmitsGates(second.else) =>
              /\ EmitsGates(FusePair(first, second).then) /\ EmitsGates(FusePair(first, second).else)
<1>. DEFINE n == Len(first.on)
            on == first.on \o second.on
<1>1. /\ n \in Nat /\ first.on \in Seq(Nat) /\ second.on \in Seq(Nat) /\ on \in Seq(Nat)
      /\ first.bit \in STRING /\ second.bit \in STRING
      /\ first.then \in Seq(Inner) /\ first.else \in Seq(Inner)
      /\ second.then \in Seq(Inner) /\ second.else \in Seq(Inner)
  BY DEF FusedIfs
<1>2. /\ OnlyGates(first.then) /\ OnlyGates(first.else)
      /\ OnlyGates(second.then) /\ OnlyGates(second.else)
  BY DEF Simple
<1>3. Range(on) \subseteq Wires(first) \cup Wires(second)
  BY <1>1, RangeOfConcat DEF Wires
<1>. HIDE DEF on, n
<1>g. \A s \in Seq(GatesOn(Nat)) : s \in Seq(Inner)
  BY DEF Inner
<1>4. CASE first.bit = second.bit
  <2>. DEFINE ft == MovedAll(first.then, 0)
              fe == MovedAll(first.else, 0)
              st == MovedAll(second.then, n)
              se == MovedAll(second.else, n)
  <2>1. FusePair(first, second) = If(first.bit, on, ft \o st, fe \o se)
    BY <1>4 DEF FusePair, FuseSame, on, n
  <2>2. {ft, fe, st, se} \subseteq Seq(GatesOn(Nat))
    BY <1>1, <1>2, MovedGates
  <2>3. /\ EmitsGates(first.then) => EmitsGates(ft)
        /\ EmitsGates(first.else) => EmitsGates(fe)
        /\ EmitsGates(second.then) => EmitsGates(st)
        /\ EmitsGates(second.else) => EmitsGates(se)
    BY <1>1, <1>2, MovedGates
  <2>. HIDE DEF ft, fe, st, se
  <2>4. ft \o st \in Seq(GatesOn(Nat)) /\ fe \o se \in Seq(GatesOn(Nat))
    BY <2>2
  <2>5. /\ EmitsGates(ft) /\ EmitsGates(st) => EmitsGates(ft \o st)
        /\ EmitsGates(fe) /\ EmitsGates(se) => EmitsGates(fe \o se)
    BY <2>2, EmitsConcat
  <2>. DEFINE new == If(first.bit, on, ft \o st, fe \o se)
  <2>6. new \in FusedIfs
    BY <1>1, <1>g, <2>4 DEF If, FusedIfs
  <2>7. new.bit = first.bit /\ new.on = on /\ new.then = ft \o st /\ new.else = fe \o se
    BY DEF If
  <2>. HIDE DEF new
  <2>8. FusePair(first, second) = new
    BY <2>1 DEF new
  <2>. QED
    BY <1>3, <2>3, <2>5, <2>6, <2>7, <2>8 DEF Wires
<1>5. CASE first.bit # second.bit
  <2>. DEFINE ion == [i \in DOMAIN second.on |-> n + i]
              inner == If(second.bit, ion, MovedAll(second.then, 0), MovedAll(second.else, 0))
              ft == MovedAll(first.then, 0)
              fe == MovedAll(first.else, 0)
              new == If(first.bit, on, Append(ft, inner), Append(fe, inner))
  <2>1. FusePair(first, second) = new
    BY <1>5 DEF FusePair, FuseIndependent, on, n
  <2>2. ion \in Seq(Nat)
    <3>1. DOMAIN second.on = 1 .. Len(second.on) /\ Len(second.on) \in Nat
      BY <1>1
    <3>2. ion \in [1 .. Len(second.on) -> Nat]
      BY <1>1, <3>1
    <3>. QED
      BY <3>1, <3>2, FunctionIsSeq
  <2>3. inner \in Inner
    <3>1. MovedAll(second.then, 0) \in Seq(GatesOn(Nat)) /\ MovedAll(second.else, 0) \in Seq(GatesOn(Nat))
      BY <1>1, <1>2, MovedGates
    <3>. HIDE DEF ion
    <3>. QED
      BY <1>1, <2>2, <3>1 DEF If, Inner, InnerIfs
  <2>4. ft \in Seq(Inner) /\ fe \in Seq(Inner)
    BY <1>1, <1>2, <1>g, MovedGates
  <2>. HIDE DEF inner, ft, fe
  <2>5. Append(ft, inner) \in Seq(Inner) /\ Append(fe, inner) \in Seq(Inner)
    BY <2>3, <2>4
  <2>6. new \in FusedIfs /\ new.bit = first.bit /\ new.on = on
    BY <1>1, <2>5 DEF If, FusedIfs
  <2>. HIDE DEF new
  <2>. QED
    BY <1>3, <1>5, <2>1, <2>6 DEF Wires
<1>. QED
  BY <1>4, <1>5

FusionOf(old) ==
  {new \in Seq(FusedOps) :
     /\ Cardinality(Ifs(new)) <= Cardinality(Ifs(old))
     /\ Emits(old) /\ ~SideBySide(old) => Emits(new) /\ ~SideBySide(new)}

LEMMA FusionNone ==
  ASSUME NEW old \in Seq(FusedOps)
  PROVE  old \in FusionOf(old)
<1>1. Cardinality(Ifs(old)) \in Nat
  BY IfsFinite
<1>2. Cardinality(Ifs(old)) <= Cardinality(Ifs(old))
  BY <1>1
<1>. QED
  BY <1>2 DEF FusionOf

LEMMA FusionMore ==
  ASSUME NEW a \in Seq(FusedOps), NEW b \in FusionOf(a), NEW c \in FusionOf(b)
  PROVE  c \in FusionOf(a)
<1>1. b \in Seq(FusedOps) /\ c \in Seq(FusedOps)
  BY DEF FusionOf
<1>2. {Cardinality(Ifs(a)), Cardinality(Ifs(b)), Cardinality(Ifs(c))} \subseteq Nat
  BY <1>1, IfsFinite
<1>3. Cardinality(Ifs(c)) <= Cardinality(Ifs(b)) /\ Cardinality(Ifs(b)) <= Cardinality(Ifs(a))
  BY DEF FusionOf
<1>4. Cardinality(Ifs(c)) <= Cardinality(Ifs(a))
  BY <1>2, <1>3
<1>. QED
  BY <1>1, <1>4 DEF FusionOf

LEMMA FuseFirstKeeps ==
  ASSUME NEW old \in Seq(FusedOps), FusablePairs(old) # {}
  PROVE  FuseFirst(old) \in FusionOf(old)
<1>. DEFINE n == Len(old)
            i == Min(FusablePairs(old))
            pair == FusePair(old[i], old[i + 1])
            rep == ReplaceAt(old, i, pair)
            new == RemoveAt(rep, i + 1)
            p == [k \in 1 .. n - 1 |-> IF k <= i THEN k ELSE k + 1]
<1>1. n \in Nat /\ DOMAIN old = 1 .. n /\ \A k \in 1 .. n : old[k] \in FusedOps
  OBVIOUS
<1>2. i \in FusablePairs(old)
  <2>1. FusablePairs(old) \in SUBSET Nat
    BY <1>1 DEF FusablePairs
  <2>2. \E k \in FusablePairs(old) : \A j \in FusablePairs(old) : k <= j
    BY <2>1, LeastElement
  <2>. QED
    BY <2>2 DEF Min
<1>. HIDE DEF i
<1>3. /\ i \in 1 .. n - 1 /\ i \in 1 .. n /\ i + 1 \in 1 .. n
      /\ CanFuse(old[i], old[i + 1]) /\ Simple(old[i]) /\ Simple(old[i + 1])
  BY <1>1, <1>2 DEF FusablePairs
<1>4. IsIf(old[i]) /\ IsIf(old[i + 1]) /\ old[i] \in FusedIfs /\ old[i + 1] \in FusedIfs
  <2>1. IsIf(old[i]) /\ IsIf(old[i + 1])
    BY <1>3 DEF CanFuse
  <2>2. \A op \in FusedOps : IsIf(op) => op \in FusedIfs
    BY DEF FusedOps, IsIf
  <2>. QED
    BY <1>1, <1>3, <2>1, <2>2
<1>5. /\ pair \in FusedIfs /\ pair.bit = old[i].bit
      /\ Wires(pair) \subseteq Wires(old[i]) \cup Wires(old[i + 1])
      /\ old[i].bit = old[i + 1].bit /\ EmitsGates(old[i].then) /\ EmitsGates(old[i].else)
         /\ EmitsGates(old[i + 1].then) /\ EmitsGates(old[i + 1].else) =>
           EmitsGates(pair.then) /\ EmitsGates(pair.else)
  BY <1>3, <1>4, FusePairIs
<1>. HIDE DEF pair
<1>6. pair \in FusedOps /\ IsIf(pair) /\ pair.op = "if"
  BY <1>5 DEF FusedOps, FusedIfs, IsIf
<1>7. /\ rep \in Seq(FusedOps) /\ Len(rep) = n
      /\ \A k \in 1 .. n : rep[k] = IF k = i THEN pair ELSE old[k]
  BY <1>1, <1>3, <1>6 DEF ReplaceAt
<1>. HIDE DEF rep
<1>8. /\ new \in Seq(FusedOps) /\ Len(new) = n - 1
      /\ \A k \in 1 .. n - 1 : new[k] = IF k < i + 1 THEN rep[k] ELSE rep[k + 1]
  <2>1. PICK r \in 1 .. Len(rep) : r = i + 1
    BY <1>1, <1>3, <1>7
  <2>2. /\ RemoveAt(rep, r) \in Seq(FusedOps) /\ Len(RemoveAt(rep, r)) = Len(rep) - 1
        /\ \A k \in 1 .. Len(rep) - 1 : RemoveAt(rep, r)[k] = IF k < r THEN rep[k] ELSE rep[k + 1]
    BY <1>7, RemoveAtIs
  <2>. QED
    BY <1>7, <2>1, <2>2, Zenon
<1>9. FuseFirst(old) = new
  BY DEF FuseFirst, i, pair, rep
<1>. HIDE DEF new
<1>10. n - 1 \in Nat /\ DOMAIN new = 1 .. n - 1
  BY <1>1, <1>3, <1>8
<1>11. \A k \in 1 .. n - 1 : p[k] = IF k <= i THEN k ELSE k + 1
  OBVIOUS
<1>. HIDE DEF p
<1>12. ASSUME NEW k \in 1 .. n - 1
       PROVE  p[k] \in 1 .. n /\ new[k] = IF k = i THEN pair ELSE old[p[k]]
  <2>1. CASE k <= i
    BY <1>1, <1>3, <1>7, <1>8, <1>11, <2>1
  <2>2. CASE ~(k <= i)
    <3>1. k + 1 \in 1 .. n /\ ~(k < i + 1) /\ k + 1 # i /\ p[k] = k + 1
      BY <1>1, <1>3, <1>11, <2>2
    <3>. QED
      BY <1>3, <1>7, <1>8, <2>2, <3>1
  <2>. QED
    BY <2>1, <2>2
<1>13. Cardinality(Ifs(new)) <= Cardinality(Ifs(old))
  <2>1. IsFiniteSet(Ifs(old))
    BY IfsFinite
  <2>2. \A k \in Ifs(new) : p[k] \in Ifs(old)
    <3>1. p[i] = i
      BY <1>3, <1>11
    <3>. QED
      BY <1>1, <1>4, <1>10, <1>12, <3>1 DEF Ifs
  <2>3. \A k, m \in Ifs(new) : p[k] = p[m] => k = m
    BY <1>3, <1>10, <1>11 DEF Ifs
  <2>. QED
    BY <2>1, <2>2, <2>3, NoLarger
<1>14. ASSUME Emits(old), ~SideBySide(old) PROVE Emits(new) /\ ~SideBySide(new)
  <2>0. ASSUME NEW k \in 1 .. n, k + 1 \in 1 .. n, IsIf(old[k]), IsIf(old[k + 1])
        PROVE  old[k].bit = old[k + 1].bit
    <3>1. k \in 1 .. n - 1
      BY <1>1, <2>0
    <3>. QED
      BY <1>14, <2>0, <3>1 DEF SideBySide, n
  <2>1. old[i].bit = old[i + 1].bit
    BY <1>3, <1>4, <2>0
  <2>e. \A k \in 1 .. n :
          /\ old[k].op = "region" => EmitsGates(old[k].gates)
          /\ IsIf(old[k]) => EmitsGates(old[k].then) /\ EmitsGates(old[k].else)
    BY <1>1, <1>14 DEF Emits
  <2>2. EmitsGates(pair.then) /\ EmitsGates(pair.else)
    BY <1>3, <1>4, <1>5, <2>1, <2>e
  <2>3. ASSUME NEW k \in 1 .. n - 1
        PROVE  /\ new[k].op = "region" => EmitsGates(new[k].gates)
               /\ IsIf(new[k]) => EmitsGates(new[k].then) /\ EmitsGates(new[k].else)
    <3>1. CASE k = i
      <4>1. new[k] = pair
        BY <1>12, <3>1
      <4>. QED
        BY <1>6, <2>2, <4>1
    <3>2. CASE k # i
      <4>1. new[k] = old[p[k]] /\ p[k] \in 1 .. n
        BY <1>12, <3>2
      <4>. QED
        BY <2>e, <4>1
    <3>. QED
      BY <3>1, <3>2
  <2>4. ASSUME NEW a \in 1 .. n, NEW b \in 1 .. n, old[a].op = "gate", old[b].op # "gate", a < b
        PROVE  Wires(old[b]) \cap Wires(old[a]) = {}
    <3>1. ~Unassigned(old)
      BY <1>14 DEF Emits
    <3>2. a \in DOMAIN old /\ b \in a + 1 .. Len(old)
      BY <1>1, <2>4 DEF n
    <3>. QED
      BY <2>4, <3>1, <3>2 DEF Unassigned
  <2>5. ASSUME NEW a \in 1 .. n - 1, NEW b \in 1 .. n - 1, a < b, new[a].op = "gate", new[b].op # "gate"
        PROVE  Wires(new[b]) \cap Wires(new[a]) = {}
    <3>1. a # i /\ new[a] = old[p[a]] /\ p[a] \in 1 .. n /\ old[p[a]].op = "gate"
      BY <1>6, <1>12, <2>5
    <3>2. p[a] < p[b] /\ p[b] \in 1 .. n
      BY <1>3, <1>10, <1>11, <1>12, <2>5
    <3>3. CASE b # i
      BY <1>12, <2>4, <2>5, <3>1, <3>2, <3>3
    <3>4. CASE b = i
      <4>1. p[a] < i /\ p[a] < i + 1
        BY <1>3, <1>11, <3>2, <3>4
      <4>2. old[i].op # "gate" /\ old[i + 1].op # "gate"
        BY <1>4 DEF IsIf
      <4>3. Wires(old[i]) \cap Wires(old[p[a]]) = {} /\ Wires(old[i + 1]) \cap Wires(old[p[a]]) = {}
        BY <1>3, <2>4, <3>1, <4>1, <4>2
      <4>4. new[b] = pair
        BY <1>12, <3>4
      <4>. QED
        BY <1>5, <3>1, <4>3, <4>4
    <3>. QED
      BY <3>3, <3>4
  <2>6. ~Unassigned(new)
    <3>. SUFFICES ASSUME Unassigned(new) PROVE FALSE
      OBVIOUS
    <3>1. PICK a \in 1 .. n - 1 :
            /\ new[a].op = "gate"
            /\ \E b \in a + 1 .. n - 1 : new[b].op # "gate" /\ Wires(new[b]) \cap Wires(new[a]) # {}
      BY <1>8, <1>10 DEF Unassigned
    <3>2. PICK b \in a + 1 .. n - 1 : new[b].op # "gate" /\ Wires(new[b]) \cap Wires(new[a]) # {}
      BY <3>1
    <3>3. b \in 1 .. n - 1 /\ a < b
      BY <1>10
    <3>. QED
      BY <2>5, <3>1, <3>2, <3>3
  <2>7. ASSUME NEW a \in 1 .. n - 1, a + 1 \in 1 .. n - 1, IsIf(new[a]), IsIf(new[a + 1])
        PROVE  new[a].bit = new[a + 1].bit
    <3>1. CASE a = i
      <4>1. new[a] = pair /\ new[a + 1] = old[i + 2] /\ i + 2 \in 1 .. n /\ (i + 1) + 1 = i + 2
        BY <1>3, <1>10, <1>11, <1>12, <2>7, <3>1
      <4>2. old[i + 1].bit = old[i + 2].bit
        BY <1>3, <1>4, <2>0, <2>7, <4>1
      <4>. QED
        BY <1>5, <2>1, <4>1, <4>2
    <3>2. CASE a + 1 = i
      <4>1. new[a] = old[a] /\ new[a + 1] = pair /\ a \in 1 .. n /\ a + 1 \in 1 .. n
        BY <1>3, <1>10, <1>11, <1>12, <2>7, <3>2
      <4>2. old[a].bit = old[a + 1].bit
        BY <1>4, <2>0, <2>7, <3>2, <4>1
      <4>. QED
        BY <1>5, <3>2, <4>1, <4>2
    <3>3. CASE a # i /\ a + 1 # i
      <4>1. new[a] = old[p[a]] /\ new[a + 1] = old[p[a + 1]] /\ p[a] \in 1 .. n /\ p[a + 1] \in 1 .. n
        BY <1>12, <2>7, <3>3
      <4>2. p[a + 1] = p[a] + 1
        <5>1. p[a] = (IF a <= i THEN a ELSE a + 1) /\ p[a + 1] = IF a + 1 <= i THEN a + 1 ELSE (a + 1) + 1
          BY <1>11, <2>7
        <5>2. a <= i <=> a + 1 <= i
          BY <1>3, <1>10, <3>3
        <5>. QED
          BY <5>1, <5>2
      <4>. QED
        BY <2>0, <2>7, <4>1, <4>2
    <3>. QED
      BY <3>1, <3>2, <3>3
  <2>8. ~SideBySide(new)
    <3>. SUFFICES ASSUME SideBySide(new) PROVE FALSE
      OBVIOUS
    <3>1. PICK a \in 1 .. Len(new) - 1 : IsIf(new[a]) /\ IsIf(new[a + 1]) /\ new[a].bit # new[a + 1].bit
      BY DEF SideBySide
    <3>2. a \in 1 .. n - 1 /\ a + 1 \in 1 .. n - 1
      BY <1>8, <1>10
    <3>. QED
      BY <2>7, <3>1, <3>2
  <2>. QED
    BY <1>10, <2>3, <2>6, <2>8 DEF Emits
<1>. QED
  BY <1>8, <1>9, <1>13, <1>14 DEF FusionOf

FuseStep(ops) == IF FusablePairs(ops) = {} THEN ops ELSE FuseFirst(ops)

LEMMA FuseStepKeeps ==
  ASSUME NEW old \in Seq(FusedOps), NEW ops \in FusionOf(old)
  PROVE  FuseStep(ops) \in FusionOf(old)
<1>1. ops \in Seq(FusedOps)
  BY DEF FusionOf
<1>2. CASE FusablePairs(ops) = {}
  BY <1>2 DEF FuseStep
<1>3. CASE FusablePairs(ops) # {}
  <2>1. FuseFirst(ops) \in FusionOf(ops)
    BY <1>1, <1>3, FuseFirstKeeps
  <2>. QED
    BY <1>3, <2>1, FusionMore DEF FuseStep
<1>. QED
  BY <1>2, <1>3

FuseWalk(old, f) ==
  f = [i \in 0 .. Len(old) |->
         IF i = 0 THEN old ELSE IF FusablePairs(f[i - 1]) = {} THEN f[i - 1] ELSE FuseFirst(f[i - 1])]

LEMMA FuseWalkExists ==
  ASSUME NEW old \in Seq(FusedOps)
  PROVE  \E f : FuseWalk(old, f)
<1>. DEFINE n == Len(old)
            Q == [i \in 0 .. n |-> FusionOf(old)]
            G == [i \in 1 .. n |-> [t \in Q[i - 1] |-> FuseStep(t)]]
<1>0. n \in Nat
  OBVIOUS
<1>1. old \in Q[0] /\ \A i \in 1 .. n : \A t \in Q[i - 1] : G[i][t] \in Q[i]
  BY <1>0, FusionNone, FuseStepKeeps
<1>2. PICK f : Walk(n, old, G, f) /\ Stays(n, Q, f)
  <2>. HIDE DEF n, Q, G
  <2>. QED
    BY <1>0, <1>1, WalkIn
<1>. DEFINE H == [i \in 1 .. n |-> FuseStep(f[i - 1])]
<1>3. \A i \in 1 .. n : f[i - 1] \in Q[i - 1] => G[i][f[i - 1]] = H[i]
  BY <1>0
<1>4. f = [i \in 0 .. n |-> IF i = 0 THEN old ELSE H[i]]
  <2>1. Walk(n, old, G, f) /\ Stays(n, Q, f)
    BY <1>2
  <2>. HIDE DEF n, Q, G, H
  <2>2. Reaches(n, Q, G, f, H)
    BY <1>3 DEF Reaches
  <2>3. Solves(n, old, f, H)
    BY <1>0, <2>1, <2>2, WalkIs
  <2>. QED
    BY <2>3 DEF Solves
<1>5. FuseWalk(old, f)
  <2>1. \A i \in 0 .. n : i # 0 => H[i] = FuseStep(f[i - 1])
    BY <1>0
  <2>. HIDE DEF H
  <2>. QED
    BY <1>4, <2>1 DEF FuseWalk, FuseStep
<1>. QED
  BY <1>5

LEMMA FusionKeeps ==
  ASSUME NEW old \in Seq(FusedOps)
  PROVE  ClassicalRegionFusion(old) \in FusionOf(old)
<1>. DEFINE f == CHOOSE f : FuseWalk(old, f)
            n == Len(old)
            Q == [i \in 0 .. n |-> FusionOf(old)]
<1>0. n \in Nat
  OBVIOUS
<1>1. ClassicalRegionFusion(old) = f[n]
  BY DEF ClassicalRegionFusion, FuseWalk
<1>2. FuseWalk(old, f)
  BY FuseWalkExists
<1>. HIDE DEF f
<1>3. f[0] = old /\ \A i \in 1 .. n : f[i] = FuseStep(f[i - 1])
  <2>1. \A i \in 0 .. n : f[i] = IF i = 0 THEN old ELSE FuseStep(f[i - 1])
    BY <1>2, Zenon DEF FuseWalk, FuseStep
  <2>. QED
    BY <1>0, <2>1
<1>4. \A i \in 0 .. n : f[i] \in Q[i]
  <2>1. f[0] \in Q[0]
    BY <1>0, <1>3, FusionNone
  <2>2. \A i \in 1 .. n : f[i - 1] \in Q[i - 1] => f[i] \in Q[i]
    BY <1>0, <1>3, FuseStepKeeps
  <2>. HIDE DEF n, Q
  <2>. QED
    BY <1>0, <2>1, <2>2, Steps
<1>. QED
  BY <1>0, <1>1, <1>4

(***************************************************************************)
(* The pipeline.                                                           *)
(***************************************************************************)

\* The definition is a circuit all along, the run block well formed until fusion puts ifs
\* into ifs, and until deferral and after it measurements end their wires.
PassInv ==
  /\ func \in Funcs
  /\ pass # "done" => body \in Seq(Ops)
  /\ pass \notin {"classical_region_fusion", "done"} => WiresEnd(body) /\ ReadMeasured(body)

LEMMA PassInvInit == Init => PassInv
BY SourcesAssumption DEF Init, PassInv

\* What the passes do, one after the other.
CheaperFunc == func' \in Funcs /\ NoDearer(func'.gates, func.gates)

LEMMA FuncStep ==
  ASSUME func \in Funcs, NEW gates, Cheaper(gates, func.gates, 1 .. func.wires),
         func' = [func EXCEPT !.gates = gates]
  PROVE  CheaperFunc
<1>1. func' \in Funcs
  BY FuncCheaper
<1>2. func'.gates = gates
  BY DEF Funcs
<1>. QED
  BY <1>1, <1>2 DEF CheaperFunc, Cheaper

LEMMA FuncStays ==
  ASSUME func \in Funcs, UNCHANGED func
  PROVE  CheaperFunc
<1>1. func.gates \in Seq(GatesOn(1 .. func.wires))
  BY DEF Funcs
<1>. QED
  BY <1>1, Itself DEF CheaperFunc, Better, Cheaper

LEMMA BodyStays ==
  ASSUME body \in Seq(Ops), UNCHANGED body
  PROVE  BetterBody(body', body)
<1>1. \A i \in 1 .. Len(body) : BetterOp(body[i], body[i])
  BY OpItself
<1>. QED
  BY <1>1 DEF BetterBody

\* A step of a round makes the definition cheaper and the run block better.
Rounds == Cancel \/ MergeRotations \/ OptimizeCliffordT \/ SimplifyZx \/ EndRound

LEMMA RoundStep ==
  ASSUME PassInv, Rounds
  PROVE  CheaperFunc /\ BetterBody(body', body)
<1>0. pass \notin {"measurement_deferral", "classical_region_fusion", "done"}
  BY DEF Rounds, Cancel, MergeRotations, OptimizeCliffordT, SimplifyZx, EndRound
<1>1. func \in Funcs /\ body \in Seq(Ops) /\ func.gates \in Seq(GatesOn(1 .. func.wires)) /\ func.wires \in Nat
  BY <1>0 DEF PassInv, Funcs
<1>2. CASE Cancel
  <2>1. func' = [func EXCEPT !.gates = GateCancellation(func.gates)]
    BY <1>2 DEF Cancel, Everywhere
  <2>2. body' = InBranches(LAMBDA gates, n : GateCancellation(gates),
                           InRegions(LAMBDA gates, n : GateCancellation(gates), body))
    BY <1>2 DEF Cancel, Everywhere
  <2>3. Cheaper(GateCancellation(func.gates), func.gates, 1 .. func.wires)
    BY <1>1, CancellationIsBetter DEF Better
  <2>4. CheaperFunc
    BY <1>1, <2>1, <2>3, FuncStep
  <2>5. BetterBody(body', body)
    BY <1>1, <2>2, CancelBody
  <2>. QED
    BY <2>4, <2>5
<1>3. CASE MergeRotations
  <2>1. func' = [func EXCEPT !.gates = RotationMerging(func.gates)]
    BY <1>3 DEF MergeRotations, Everywhere
  <2>2. body' = InBranches(LAMBDA gates, n : RotationMerging(gates),
                           InRegions(LAMBDA gates, n : RotationMerging(gates), body))
    BY <1>3 DEF MergeRotations, Everywhere
  <2>3. Cheaper(RotationMerging(func.gates), func.gates, 1 .. func.wires)
    BY <1>1, MergingIsBetter DEF Better
  <2>4. CheaperFunc
    BY <1>1, <2>1, <2>3, FuncStep
  <2>5. BetterBody(body', body)
    BY <1>1, <2>2, MergeBody
  <2>. QED
    BY <2>4, <2>5
<1>4. CASE OptimizeCliffordT
  <2>1. func' = [func EXCEPT !.gates = CliffordTOpt(func.clifford, func.gates, func.wires)] /\ UNCHANGED body
    BY <1>4 DEF OptimizeCliffordT
  <2>2. Cheaper(CliffordTOpt(func.clifford, func.gates, func.wires), func.gates, 1 .. func.wires)
    BY <1>1, CliffordTIsCheaper
  <2>. QED
    BY <1>1, <2>1, <2>2, FuncStep, BodyStays
<1>5. CASE SimplifyZx
  <2>1. /\ func' = [func EXCEPT !.gates = ZxSimplification(func.gates, func.wires)]
        /\ body' = InRegions(ZxSimplification, body)
    BY <1>5 DEF SimplifyZx
  <2>2. Cheaper(ZxSimplification(func.gates, func.wires), func.gates, 1 .. func.wires)
    BY <1>1, ZxIsBetter DEF Better
  <2>3. CheaperFunc
    BY <1>1, <2>1, <2>2, FuncStep
  <2>4. BetterBody(body', body)
    BY <1>1, <2>1, ZxBody
  <2>. QED
    BY <2>3, <2>4
<1>6. CASE EndRound
  <2>1. UNCHANGED <<func, body>>
    BY <1>6 DEF EndRound
  <2>. QED
    BY <1>1, <2>1, FuncStays, BodyStays
<1>. QED
  BY <1>2, <1>3, <1>4, <1>5, <1>6 DEF Rounds

LEMMA DeferStepInv ==
  ASSUME PassInv, Defer
  PROVE  CheaperFunc /\ body' \in DeferredOf(body) /\ pass' = "classical_region_fusion"
<1>1. /\ func \in Funcs /\ body \in Seq(Ops) /\ WiresEnd(body) /\ ReadMeasured(body)
      /\ body' = MeasurementDeferral(body) /\ UNCHANGED func /\ pass' = "classical_region_fusion"
  BY DEF PassInv, Defer, Then
<1>. QED
  BY <1>1, FuncStays, DeferralKeeps

LEMMA FuseStepInv ==
  ASSUME PassInv, Fuse
  PROVE  CheaperFunc /\ body' \in FusionOf(body) /\ pass' = "done"
<1>1. /\ func \in Funcs /\ body \in Seq(Ops)
      /\ body' = ClassicalRegionFusion(body) /\ UNCHANGED func /\ pass' = "done"
  BY DEF PassInv, Fuse, Then
<1>. QED
  BY <1>1, FuncStays, OpsAreFused, FusionKeeps

LEMMA PassInvNext == PassInv /\ [Next]_vars => PassInv'
<1>. SUFFICES ASSUME PassInv, [Next]_vars PROVE PassInv'
  OBVIOUS
<1>1. CASE Rounds
  <2>1. CheaperFunc /\ BetterBody(body', body)
    BY <1>1, RoundStep
  <2>2. pass \notin {"classical_region_fusion", "done"}
    BY <1>1 DEF Rounds, Cancel, MergeRotations, OptimizeCliffordT, SimplifyZx, EndRound
  <2>3. body \in Seq(Ops) /\ WiresEnd(body) /\ ReadMeasured(body)
    BY <2>2 DEF PassInv
  <2>4. body' \in Seq(Ops) /\ WiresEnd(body') /\ ReadMeasured(body')
    BY <2>1, <2>3, BetterBodyKeeps
  <2>. QED
    BY <2>1, <2>4 DEF PassInv, CheaperFunc, WiresEnd, ReadMeasured
<1>2. CASE Defer
  BY <1>2, DeferStepInv DEF PassInv, CheaperFunc, DeferredOf
<1>3. CASE Fuse
  BY <1>3, FuseStepInv DEF PassInv, CheaperFunc
<1>4. CASE UNCHANGED vars
  BY <1>4 DEF PassInv, vars, WiresEnd, ReadMeasured
<1>. QED
  BY <1>1, <1>2, <1>3, <1>4 DEF Next, Rounds

\* NeverDearer of one step.
StepNoDearer ==
  /\ NoDearer(func'.gates, func.gates)
  /\ pass \notin {"measurement_deferral", "classical_region_fusion"} =>
       \A i \in DOMAIN body :
         /\ body[i].op = "region" => NoDearer(body'[i].gates, body[i].gates)
         /\ IsIf(body[i]) => /\ NoDearer(body'[i].then, body[i].then)
                             /\ NoDearer(body'[i].else, body[i].else)
  /\ Cardinality({i \in DOMAIN body' : IsIf(body'[i])})
       <= Cardinality({i \in DOMAIN body : IsIf(body[i])})

LEMMA NeverDearerStep ==
  ASSUME PassInv, Next
  PROVE  StepNoDearer
<1>1. CASE Rounds
  <2>1. CheaperFunc /\ BetterBody(body', body)
    BY <1>1, RoundStep
  <2>2. body \in Seq(Ops)
    BY <1>1 DEF PassInv, Rounds, Cancel, MergeRotations, OptimizeCliffordT, SimplifyZx, EndRound
  <2>3. /\ {i \in DOMAIN body' : IsIf(body'[i])} = {i \in DOMAIN body : IsIf(body[i])}
        /\ \A i \in DOMAIN body :
             /\ body[i].op = "region" => NoDearer(body'[i].gates, body[i].gates)
             /\ IsIf(body[i]) => /\ NoDearer(body'[i].then, body[i].then)
                                 /\ NoDearer(body'[i].else, body[i].else)
    BY <2>1, <2>2, BetterBodyKeeps
  <2>4. Cardinality({i \in DOMAIN body : IsIf(body[i])}) \in Nat
    BY <2>2, IfsFinite DEF Ifs
  <2>5. Cardinality({i \in DOMAIN body' : IsIf(body'[i])})
          <= Cardinality({i \in DOMAIN body : IsIf(body[i])})
    BY <2>3, <2>4
  <2>. QED
    BY <2>1, <2>3, <2>5 DEF StepNoDearer, CheaperFunc
<1>2. CASE Defer
  <2>1. CheaperFunc /\ Cardinality(Ifs(body')) <= Cardinality(Ifs(body)) /\ pass = "measurement_deferral"
    BY <1>2, DeferStepInv DEF DeferredOf, Defer
  <2>. QED
    BY <2>1 DEF StepNoDearer, CheaperFunc, Ifs
<1>3. CASE Fuse
  <2>1. CheaperFunc /\ Cardinality(Ifs(body')) <= Cardinality(Ifs(body)) /\ pass = "classical_region_fusion"
    BY <1>3, FuseStepInv DEF FusionOf, Fuse
  <2>. QED
    BY <2>1 DEF StepNoDearer, CheaperFunc, Ifs
<1>. QED
  BY <1>1, <1>2, <1>3 DEF Next, Rounds

\* No pass of the pipeline makes its module dearer, whatever verified module it is given and
\* however long its circuits are: gates and T gates of a circuit, a region or a branch do not
\* grow in number, and neither do the operations that cross from bits to qubits (the passes of
\* run_circ_passes_to_fixpoint and the two dynamic passes after it).
THEOREM NeverDearerCorrect == Spec => NeverDearer
<1>1. Init => PassInv
  BY PassInvInit
<1>2. PassInv /\ [Next]_vars => PassInv'
  BY PassInvNext
<1>3. PassInv /\ [Next]_vars =>
        [/\ NoDearer(func'.gates, func.gates)
         /\ pass \notin {"measurement_deferral", "classical_region_fusion"} =>
              \A i \in DOMAIN body :
                /\ body[i].op = "region" => NoDearer(body'[i].gates, body[i].gates)
                /\ IsIf(body[i]) => /\ NoDearer(body'[i].then, body[i].then)
                                    /\ NoDearer(body'[i].else, body[i].else)
         /\ Cardinality({i \in DOMAIN body' : IsIf(body'[i])})
              <= Cardinality({i \in DOMAIN body : IsIf(body[i])})]_vars
  BY NeverDearerStep DEF StepNoDearer
<1>. QED
  BY <1>1, <1>2, <1>3, PTL DEF Spec, NeverDearer

LEMMA KeepsEmittableStep ==
  ASSUME PassInv, Next, Emits(body), pass = "classical_region_fusion" => ~SideBySide(body)
  PROVE  Emits(body')
<1>1. CASE Rounds
  <2>1. BetterBody(body', body)
    BY <1>1, RoundStep
  <2>2. body \in Seq(Ops)
    BY <1>1 DEF PassInv, Rounds, Cancel, MergeRotations, OptimizeCliffordT, SimplifyZx, EndRound
  <2>. QED
    BY <2>1, <2>2, BetterBodyKeeps
<1>2. CASE Defer
  BY <1>2, DeferStepInv DEF DeferredOf
<1>3. CASE Fuse
  <2>1. pass = "classical_region_fusion"
    BY <1>3 DEF Fuse
  <2>. QED
    BY <1>3, <2>1, FuseStepInv DEF FusionOf
<1>. QED
  BY <1>1, <1>2, <1>3 DEF Next, Rounds

\* No pass takes a run block the OpenQASM emitter accepts to one it refuses, fusion where no
\* ifs on different bits stand side by side (the emitter's reify of an if inside a branch).
THEOREM KeepsEmittableCorrect == Spec => KeepsEmittable
<1>1. Init => PassInv
  BY PassInvInit
<1>2. PassInv /\ [Next]_vars => PassInv'
  BY PassInvNext
<1>3. PassInv /\ [Next]_vars =>
        [Emits(body) /\ (pass = "classical_region_fusion" => ~SideBySide(body)) => Emits(body')]_vars
  BY KeepsEmittableStep
<1>. QED
  BY <1>1, <1>2, <1>3, PTL DEF Spec, KeepsEmittable
================================================================================
