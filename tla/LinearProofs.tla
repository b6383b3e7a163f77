------------------------------ MODULE LinearProofs ------------------------------
(***************************************************************************)
(* The linear context is sound: theorems for any names and for bodies of   *)
(* any size and depth, in which nothing is run other than once where it is *)
(* written.                                                                *)
(***************************************************************************)
EXTENDS LinearContext, WellFoundedInduction, TLAPS

(***************************************************************************)
(* The type invariant.                                                     *)
(***************************************************************************)

States == {"unknown", "available", "consumed"}
Entries == {en \in [state : States, kind : Kinds, binding : Bindings \cup {0}] :
              en.state = "available" => en.kind \in Resources}
Deltas == [Names -> Entries]
Envs == [Names -> Types \cup {None}]
Scopes == [Names -> Bindings \cup {0}]
Verdicts == {"checking", "accepted", "LinearUsedTwice", "LinearUnconsumed", "LinearDiscard",
             "LinearBranchMismatch", "LinearCapture", "BorrowEscape"}
Runs == [Bindings -> {"absent", "unused", "once", "wrong"}]

\* The frames: calls of synth and check, with what each keeps for its return.
Frames ==
  [at : {"function"}, introduced : SUBSET Names] \cup
  [at : {"rhs"}, monad : BOOLEAN] \cup
  [at : {"body"}, monad : BOOLEAN, introduced : SUBSET Names, env : Envs, scope : Scopes,
   names : SUBSET Names, holds : BOOLEAN] \cup
  [at : {"arm"}, match : BOOLEAN, arms : Nat, env : Envs, scope : Scopes, delta : Deltas,
   runs : SUBSET Runs, ends : Seq(Deltas), ended : SUBSET Runs, result : Types \cup {None}] \cup
  [at : {"lambda"}, introduced : SUBSET Names, env : Envs, scope : Scopes, delta : Deltas,
   binding : Bindings] \cup
  [at : {"for"}, env : Envs, scope : Scopes, binding : Nat \ {0}] \cup
  [at : {"borrow"}, introduced : SUBSET Names, env : Envs, scope : Scopes] \cup
  [at : {"left"}] \cup
  [at : {"right"}, names : SUBSET Names]

TypeOK ==
  /\ delta \in Deltas
  /\ env \in Envs
  /\ stack \in Seq(Frames)
  /\ value \in Types \cup {None}
  /\ verdict \in [is : Verdicts, name : Names \cup {None}]
  /\ scope \in Scopes
  /\ runs \subseteq Runs
  /\ next \in 1 .. MaxBindings + 1
  /\ nodes \in Nat

(***************************************************************************)
(* The walk seen from a level of the stack.  st is a stack of which the    *)
(* first n frames count, and d, e, s, R are the context, the types, the    *)
(* scope and the runs above them.  A context i is that of a lambda's       *)
(* surroundings, or the innermost, n + 1; a level k is what a frame keeps  *)
(* for its return, or the innermost, n + 1.                                *)
(***************************************************************************)

Scoped == {"body", "arm", "lambda", "for", "borrow"}
Intro(f) == IF f.at \in {"function", "body", "lambda", "borrow"} THEN f.introduced ELSE {}

Ctx(st, n) == {i \in 1 .. n + 1 : i = n + 1 \/ st[i].at = "lambda"}
Levels(st, n) == {k \in 1 .. n + 1 : k = n + 1 \/ st[k].at \in Scoped}

DeltaAt(st, n, d, i) == IF i = n + 1 THEN d ELSE st[i].delta
EnvAt(st, n, e, k) == IF k = n + 1 THEN e ELSE st[k].env
ScopeAt(st, n, s, k) == IF k = n + 1 THEN s ELSE st[k].scope

\* No lambda is between the level k and the context i, which is that of the level.
Inside(st, k, i) == \A m \in k .. i - 1 : st[m].at # "lambda"

\* No frame between them introduces x.
Fresh(st, k, i, x) == \A m \in k .. i - 1 : x \notin Intro(st[m])

Has(st, n, d, i, x) == i \in Ctx(st, n) /\ Available(DeltaAt(st, n, d, i), x)
Bound(st, n, d, i, x) == DeltaAt(st, n, d, i)[x].binding

\* The context i has x, and x denotes it at the level k.
Free(st, n, d, e, k, i, x) ==
  /\ k \in Levels(st, n) /\ k <= i
  /\ Inside(st, k, i) /\ Fresh(st, k, i, x)
  /\ Has(st, n, d, i, x) /\ EnvAt(st, n, e, k)[x] = None

\* The level k hides a resource behind a classical name x.
Hides(st, n, e, s, k, x) ==
  k \in Levels(st, n) /\ EnvAt(st, n, e, k)[x] # None /\ ScopeAt(st, n, s, k)[x] # 0

--------------------------------------------------------------------------------
(* The inductive invariant.                                                    *)

\* What is older has smaller numbers.
Older(st, n, d, s, nx) ==
  /\ \A i \in Ctx(st, n), x \in Names :
       Has(st, n, d, i, x) =>
         Bound(st, n, d, i, x) \in 1 .. (IF i = n + 1 THEN nx ELSE st[i].binding) - 1
  /\ \A k \in Levels(st, n), x \in Names :
       /\ ScopeAt(st, n, s, k)[x] \in 0 .. nx - 1
       /\ k <= n /\ st[k].at = "lambda" => ScopeAt(st, n, s, k)[x] < st[k].binding
  /\ \A k \in 1 .. n : st[k].at = "lambda" => st[k].binding \in 1 .. nx - 1

\* No binding is available twice.
Distinct(st, n, d) ==
  \A i, j \in Ctx(st, n), x, y \in Names :
    /\ Has(st, n, d, i, x) /\ Has(st, n, d, j, y)
    /\ Bound(st, n, d, i, x) = Bound(st, n, d, j, y)
    => i = j /\ x = y

\* What is available has a scope that will ask for it, and the context knows the names of
\* its scopes.
Owned(st, n, d) ==
  \A i \in Ctx(st, n), x \in Names :
    /\ Has(st, n, d, i, x) =>
         \E m \in 1 .. i - 1 : Inside(st, m + 1, i) /\ x \in Intro(st[m])
    /\ \A m \in 1 .. i - 1 :
         Inside(st, m + 1, i) /\ x \in Intro(st[m]) =>
           DeltaAt(st, n, d, i)[x].state # "unknown"

\* What lies deeper: a name once classical remains so, and denotes what it did unless
\* it is bound again.
Nested(st, n, e, s) ==
  \A k, l \in Levels(st, n), x \in Names :
    k <= l /\ EnvAt(st, n, e, l)[x] = None =>
      /\ EnvAt(st, n, e, k)[x] = None
      /\ ScopeAt(st, n, s, k)[x] # 0 => ScopeAt(st, n, s, l)[x] # 0
      /\ Fresh(st, k, l, x) => ScopeAt(st, n, s, l)[x] = ScopeAt(st, n, s, k)[x]

\* What a name denotes is unused; what a classical name hides is another resource, which
\* stays available.
Denoted(st, n, d, e, s, R) ==
  /\ \A k \in Levels(st, n), i \in Ctx(st, n), x \in Names :
       Free(st, n, d, e, k, i, x) =>
         /\ ScopeAt(st, n, s, k)[x] = Bound(st, n, d, i, x)
         /\ \A r \in R : r[Bound(st, n, d, i, x)] = "unused"
  /\ \A k \in Levels(st, n), x \in Names : Hides(st, n, e, s, k, x) =>
       /\ \E i \in Ctx(st, n) :
            /\ Inside(st, k, i) /\ Has(st, n, d, i, x)
            /\ Bound(st, n, d, i, x) = ScopeAt(st, n, s, k)[x]
       /\ \A l \in Levels(st, n), i \in Ctx(st, n), y \in Names :
            Free(st, n, d, e, l, i, y) => Bound(st, n, d, i, y) # ScopeAt(st, n, s, k)[x]

\* A binding is looked for under its own name.
Named(st, n, d, s) ==
  \A k \in Levels(st, n), i \in Ctx(st, n), x, y \in Names :
    /\ Has(st, n, d, i, y)
    /\ ScopeAt(st, n, s, k)[x] = Bound(st, n, d, i, y)
    => y = x

\* What a run has not used, or used wrongly, is available; and what is available is there.
Kept(st, n, d, R) ==
  /\ \A r \in R, b \in Bindings :
       r[b] \in {"unused", "wrong"} =>
         \E i \in Ctx(st, n), x \in Names : Has(st, n, d, i, x) /\ Bound(st, n, d, i, x) = b
  /\ \A r \in R, i \in Ctx(st, n), x \in Names :
       Has(st, n, d, i, x) => r[Bound(st, n, d, i, x)] # "absent"

\* Whatever the arms of a branch bind themselves is gone when they end.
Branches(st, n, d, R) ==
  \A m \in 1 .. n : st[m].at = "arm" =>
    /\ \A i \in Ctx(st, n), x \in Names :
         m <= i /\ Inside(st, m, i) /\ Fresh(st, m, i, x) /\ Has(st, n, d, i, x) =>
           DeltaAt(st, n, d, i)[x] = st[m].delta[x]
    /\ \A x \in Names : Available(st[m].delta, x) =>
         /\ st[m].delta[x].binding \in Bindings
         /\ \A r \in R : r[st[m].delta[x].binding] # "absent"

Good(st, n, d, e, s, R, nx) ==
  /\ Older(st, n, d, s, nx)
  /\ Distinct(st, n, d)
  /\ Owned(st, n, d)
  /\ Nested(st, n, e, s)
  /\ Denoted(st, n, d, e, s, R)
  /\ Named(st, n, d, s)
  /\ Kept(st, n, d, R)
  /\ Branches(st, n, d, R)

\* A run through an arm of the branch at m, which left the context d.
Ended(st, m, d, r, nx) ==
  /\ Good(st, m - 1, d, st[m].env, st[m].scope, {r}, nx)
  /\ \A x \in Names : Available(d, x) => d[x] = st[m].delta[x]
  /\ \A x \in Names : Available(st[m].delta, x) => r[st[m].delta[x].binding] # "absent"

\* The arms of a branch start from what was there, and each has been run through.
BranchGood(st, m, nx) ==
  /\ st[m].runs # {}
  /\ Good(st, m - 1, st[m].delta, st[m].env, st[m].scope, st[m].runs, nx)
  /\ \A r \in st[m].ended : \E j \in DOMAIN st[m].ends : Ended(st, m, st[m].ends[j], r, nx)
  /\ \A j \in DOMAIN st[m].ends : \E r \in st[m].ended : Ended(st, m, st[m].ends[j], r, nx)

\* What may be used at will holds no resource.
Classical(t) == t # None => ~t.holds
ClassicalEnv(e) == \A x \in Names : Classical(e[x])
IntHoldsNothing(t) == t # None /\ ~t.monadic /\ t.kind = "int" => ~t.holds

FrameClassical(f) ==
  /\ f.at \in Scoped => ClassicalEnv(f.env)
  /\ f.at = "arm" => IntHoldsNothing(f.result)

ClassicalInv ==
  /\ ClassicalEnv(env) /\ IntHoldsNothing(value)
  /\ \A k \in 1 .. Len(stack) : FrameClassical(stack[k])

\* The function is the first of the calls, and the only one of its kind.
Shape == stack # <<>> /\ \A k \in DOMAIN stack : stack[k].at = "function" <=> k = 1

WalkGood ==
  /\ runs # {}
  /\ Good(stack, Len(stack), delta, env, scope, runs, next)
  /\ \A m \in 1 .. Len(stack) : stack[m].at = "arm" => BranchGood(stack, m, next)

LinearInv == TypeOK /\ Shape /\ ClassicalInv /\ WalkGood

--------------------------------------------------------------------------------
(* A walk is seen in the same way from stacks that agree.                      *)

Agree(st, st2, n, d, e, s) ==
  /\ Ctx(st2, n) = Ctx(st, n) /\ Levels(st2, n) = Levels(st, n)
  /\ \A i \in Ctx(st, n) : DeltaAt(st2, n, d, i) = DeltaAt(st, n, d, i)
  /\ \A i \in Ctx(st, n), x \in Names : Has(st2, n, d, i, x) <=> Has(st, n, d, i, x)
  /\ \A i \in Ctx(st, n), x \in Names : Bound(st2, n, d, i, x) = Bound(st, n, d, i, x)
  /\ \A k \in Levels(st, n) : /\ EnvAt(st2, n, e, k) = EnvAt(st, n, e, k)
                              /\ ScopeAt(st2, n, s, k) = ScopeAt(st, n, s, k)
  /\ \A k, i \in 1 .. n + 1 : Inside(st2, k, i) <=> Inside(st, k, i)
  /\ \A k, i \in 1 .. n + 1, x \in Names : Fresh(st2, k, i, x) <=> Fresh(st, k, i, x)
  /\ \A k \in Levels(st, n), i \in Ctx(st, n), x \in Names :
       Free(st2, n, d, e, k, i, x) <=> Free(st, n, d, e, k, i, x)
  /\ \A k \in Levels(st, n), x \in Names : Hides(st2, n, e, s, k, x) <=> Hides(st, n, e, s, k, x)

\* The views of the walk only look at the frames that count.
LEMMA SameView ==
  ASSUME NEW st, NEW st2, NEW n \in Nat, \A m \in 1 .. n : st2[m] = st[m],
         NEW d, NEW e, NEW s
  PROVE  Agree(st, st2, n, d, e, s)
<1>1. Ctx(st2, n) = Ctx(st, n) /\ Levels(st2, n) = Levels(st, n)
  BY DEF Ctx, Levels
<1>2. \A i \in Ctx(st, n) : DeltaAt(st2, n, d, i) = DeltaAt(st, n, d, i)
  BY DEF Ctx, DeltaAt
<1>3. \A i \in Ctx(st, n), x \in Names : Has(st2, n, d, i, x) <=> Has(st, n, d, i, x)
  BY <1>1, <1>2 DEF Has
<1>4. \A i \in Ctx(st, n), x \in Names : Bound(st2, n, d, i, x) = Bound(st, n, d, i, x)
  BY <1>2 DEF Bound
<1>5. \A k \in Levels(st, n) : /\ EnvAt(st2, n, e, k) = EnvAt(st, n, e, k)
                               /\ ScopeAt(st2, n, s, k) = ScopeAt(st, n, s, k)
  BY DEF Levels, EnvAt, ScopeAt
<1>6. ASSUME NEW k \in 1 .. n + 1, NEW i \in 1 .. n + 1
      PROVE  /\ Inside(st2, k, i) <=> Inside(st, k, i)
             /\ \A x : Fresh(st2, k, i, x) <=> Fresh(st, k, i, x)
  <2>1. \A m \in k .. i - 1 : m \in 1 .. n
    OBVIOUS
  <2>. QED
    BY <2>1 DEF Inside, Fresh
<1>7. Ctx(st, n) \subseteq 1 .. n + 1 /\ Levels(st, n) \subseteq 1 .. n + 1
  BY DEF Ctx, Levels
<1>8. \A k \in Levels(st, n), i \in Ctx(st, n), x \in Names :
        Free(st2, n, d, e, k, i, x) <=> Free(st, n, d, e, k, i, x)
  BY <1>1, <1>3, <1>5, <1>6, <1>7 DEF Free
<1>9. \A k \in Levels(st, n), x \in Names : Hides(st2, n, e, s, k, x) <=> Hides(st, n, e, s, k, x)
  BY <1>1, <1>5 DEF Hides
<1>. QED
  BY <1>1, <1>2, <1>3, <1>4, <1>5, <1>6, <1>8, <1>9 DEF Agree

\* The invariant of a walk only looks at the frames below it.
LEMMA GoodBelow ==
  ASSUME NEW st, NEW st2, NEW n \in Nat, \A m \in 1 .. n : st2[m] = st[m],
         NEW d, NEW e, NEW s, NEW R, NEW nx,
         Good(st, n, d, e, s, R, nx)
  PROVE  Good(st2, n, d, e, s, R, nx)
<1>0. Agree(st, st2, n, d, e, s)
  BY SameView
<1>1. Ctx(st, n) \subseteq 1 .. n + 1 /\ Levels(st, n) \subseteq 1 .. n + 1
  BY DEF Ctx, Levels
<1>2. Older(st2, n, d, s, nx)
  <2>1. \A i \in Ctx(st, n) : i # n + 1 => st2[i] = st[i]
    BY <1>1
  <2>. QED
    BY <1>0, <1>1, <2>1 DEF Agree, Good, Older
<1>3. Distinct(st2, n, d)
  BY <1>0 DEF Agree, Good, Distinct
<1>4. Owned(st2, n, d)
  <2>. SUFFICES ASSUME NEW i \in Ctx(st, n), NEW x \in Names
                PROVE  /\ Has(st, n, d, i, x) =>
                            \E m \in 1 .. i - 1 : Inside(st2, m + 1, i) /\ x \in Intro(st2[m])
                       /\ \A m \in 1 .. i - 1 :
                            Inside(st2, m + 1, i) /\ x \in Intro(st2[m]) =>
                              DeltaAt(st, n, d, i)[x].state # "unknown"
    BY <1>0 DEF Agree, Owned
  <2>1. \A m \in 1 .. i - 1 : /\ Inside(st2, m + 1, i) <=> Inside(st, m + 1, i)
                              /\ st2[m] = st[m]
    <3>1. \A m \in 1 .. i - 1 : m \in 1 .. n /\ m + 1 \in 1 .. n + 1
      BY <1>1
    <3>. QED
      BY <1>0, <3>1, <1>1 DEF Agree
  <2>. QED
    BY <2>1 DEF Good, Owned
<1>5. Nested(st2, n, e, s)
  BY <1>0, <1>1 DEF Agree, Good, Nested
<1>6. Denoted(st2, n, d, e, s, R)
  <2>1. \A k \in Levels(st, n), i \in Ctx(st, n) : Inside(st2, k, i) <=> Inside(st, k, i)
    BY <1>0, <1>1 DEF Agree
  <2>. QED
    BY <1>0, <2>1 DEF Agree, Good, Denoted
<1>7. Named(st2, n, d, s)
  BY <1>0 DEF Agree, Good, Named
<1>8. Kept(st2, n, d, R)
  BY <1>0 DEF Agree, Good, Kept
<1>9. Branches(st2, n, d, R)
  BY <1>0, <1>1 DEF Agree, Good, Branches
<1>. QED
  BY <1>2, <1>3, <1>4, <1>5, <1>6, <1>7, <1>8, <1>9 DEF Good

--------------------------------------------------------------------------------
(* A frame is pushed.                                                          *)

\* Above the frame, what it introduces has new bindings, and other names denote what
\* they did or are classical; a lambda starts from an empty context.
Pushed(f, d, e, s, R, nx, d2, e2, s2, R2, nx2) ==
  /\ nx \in 1 .. MaxBindings + 1 /\ nx2 \in nx .. MaxBindings + 1
  /\ f.at # "function"
  /\ IF f.at \in Scoped THEN f.env = e /\ f.scope = s ELSE e2 = e /\ s2 = s
  /\ f.at = "lambda" => f.delta = d /\ f.binding = nx /\ nx < nx2
  /\ f.at = "arm" => f.delta = d
  /\ Intro(f) \subseteq Names
  /\ \A x \in Intro(f) :
       /\ s2[x] \in nx .. nx2 - 1 /\ e2[x] = e[x]
       /\ Available(d2, x) /\ d2[x].binding = s2[x]
       /\ f.at # "lambda" => ~Available(d, x)
       /\ \A y \in Intro(f) : s2[x] = s2[y] => x = y
  /\ \A x \in Names \ Intro(f) :
       /\ (e2[x] = e[x] /\ s2[x] = s[x]) \/ (e2[x] # None /\ s2[x] = 0)
       /\ IF f.at = "lambda" THEN d2[x].state = "unknown" ELSE d2[x] = d[x]
  /\ \A q \in R2 : \E r \in R : \A b \in Bindings :
       q[b] = IF \E x \in Intro(f) : s2[x] = b THEN "unused" ELSE r[b]

\* What is seen above the frame was seen below it, or is what the frame introduces.
PushView(st, n, d, e, s, d2, e2, s2) ==
  LET lambda == st[n + 1].at = "lambda"
      X == Intro(st[n + 1])
  IN
  /\ \A i \in Ctx(st, n + 1) : i <= n + 1 =>
       /\ i \in Ctx(st, n) /\ DeltaAt(st, n + 1, d2, i) = DeltaAt(st, n, d, i)
       /\ i = n + 1 => lambda
  /\ \A i \in Ctx(st, n + 1), x \in Names : Has(st, n + 1, d2, i, x) =>
       \/ i = n + 2 /\ x \in X
       \/ i <= n + 1 /\ Has(st, n, d, i, x) /\ Bound(st, n + 1, d2, i, x) = Bound(st, n, d, i, x)
       \/ /\ i = n + 2 /\ ~lambda /\ x \notin X
          /\ Has(st, n, d, n + 1, x) /\ Bound(st, n + 1, d2, i, x) = Bound(st, n, d, n + 1, x)
  /\ \A i \in Ctx(st, n), x \in Names : Has(st, n, d, i, x) =>
       \/ i <= n + 1 /\ (i = n + 1 => lambda) /\ Has(st, n + 1, d2, i, x)
          /\ Bound(st, n + 1, d2, i, x) = Bound(st, n, d, i, x)
       \/ i = n + 1 /\ ~lambda /\ Has(st, n + 1, d2, n + 2, x)
          /\ Bound(st, n + 1, d2, n + 2, x) = Bound(st, n, d, i, x)
  /\ \A x \in X : Has(st, n + 1, d2, n + 2, x) /\ Bound(st, n + 1, d2, n + 2, x) = s2[x]
  /\ \A k \in Levels(st, n + 1) : k <= n + 1 =>
       /\ k \in Levels(st, n)
       /\ EnvAt(st, n + 1, e2, k) = EnvAt(st, n, e, k)
       /\ ScopeAt(st, n + 1, s2, k) = ScopeAt(st, n, s, k)
  /\ \A k, i \in Nat : k <= n + 1 /\ i = n + 2 =>
       /\ Inside(st, k, i) <=> Inside(st, k, n + 1) /\ ~lambda
       /\ \A x : Fresh(st, k, i, x) <=> Fresh(st, k, n + 1, x) /\ x \notin X
  /\ \A k \in Levels(st, n + 1), i \in Ctx(st, n + 1), x \in Names :
       Free(st, n + 1, d2, e2, k, i, x) =>
         \/ i = n + 2 /\ k = n + 2 /\ x \in X
         \/ \E l \in Levels(st, n), j \in Ctx(st, n) :
              /\ Free(st, n, d, e, l, j, x)
              /\ ScopeAt(st, n + 1, s2, k)[x] = ScopeAt(st, n, s, l)[x]
              /\ Bound(st, n + 1, d2, i, x) = Bound(st, n, d, j, x)
  /\ \A k \in Levels(st, n + 1), x \in Names : Hides(st, n + 1, e2, s2, k, x) =>
       \/ k = n + 2 /\ x \in X
       \/ \E l \in Levels(st, n) :
            /\ Hides(st, n, e, s, l, x) /\ (l = k \/ (k = n + 2 /\ l = n + 1))
            /\ ScopeAt(st, n + 1, s2, k)[x] = ScopeAt(st, n, s, l)[x]

\* What a pushed frame changes in the views: the levels and contexts below stay, and
\* what was on top is now what the frame keeps.
LEMMA PushedView ==
  ASSUME NEW st, NEW n \in Nat, NEW d, NEW e, NEW s, NEW R, NEW nx,
         NEW d2, NEW e2, NEW s2, NEW R2, NEW nx2,
         Pushed(st[n + 1], d, e, s, R, nx, d2, e2, s2, R2, nx2)
  PROVE  PushView(st, n, d, e, s, d2, e2, s2)
<1>. DEFINE f == st[n + 1]
            lambda == f.at = "lambda"
            X == Intro(f)
<1>1. \A i \in Ctx(st, n + 1) : i <= n + 1 =>
        /\ i \in Ctx(st, n) /\ DeltaAt(st, n + 1, d2, i) = DeltaAt(st, n, d, i)
        /\ i = n + 1 => lambda
  BY DEF Pushed, Ctx, DeltaAt
<1>2. /\ n + 2 \in Ctx(st, n + 1) /\ n + 1 \in Ctx(st, n)
      /\ n + 2 \in Levels(st, n + 1) /\ n + 1 \in Levels(st, n)
      /\ DeltaAt(st, n + 1, d2, n + 2) = d2 /\ DeltaAt(st, n, d, n + 1) = d
      /\ EnvAt(st, n + 1, e2, n + 2) = e2 /\ EnvAt(st, n, e, n + 1) = e
      /\ ScopeAt(st, n + 1, s2, n + 2) = s2 /\ ScopeAt(st, n, s, n + 1) = s
  BY DEF Ctx, Levels, DeltaAt, EnvAt, ScopeAt
<1>3. \A i \in Ctx(st, n + 1) : i \in 1 .. n + 2
  BY DEF Ctx
<1>4. \A i \in Ctx(st, n) : i \in 1 .. n + 1
  BY DEF Ctx
<1>5. \A x \in Names \ X : Available(d2, x) => ~lambda /\ d2[x] = d[x] /\ Available(d, x)
  BY DEF Pushed, Available
<1>6. ASSUME NEW i \in Ctx(st, n + 1), NEW x \in Names, Has(st, n + 1, d2, i, x)
      PROVE  \/ i = n + 2 /\ x \in X
             \/ i <= n + 1 /\ Has(st, n, d, i, x) /\ Bound(st, n + 1, d2, i, x) = Bound(st, n, d, i, x)
             \/ /\ i = n + 2 /\ ~lambda /\ x \notin X
                /\ Has(st, n, d, n + 1, x) /\ Bound(st, n + 1, d2, i, x) = Bound(st, n, d, n + 1, x)
  <2>1. CASE i <= n + 1
    BY <1>1, <1>6, <2>1 DEF Has, Bound
  <2>2. CASE i = n + 2 /\ x \notin X
    BY <1>2, <1>5, <1>6, <2>2 DEF Has, Bound
  <2>. QED
    BY <1>3, <2>1, <2>2
<1>7. ASSUME NEW i \in Ctx(st, n), NEW x \in Names, Has(st, n, d, i, x)
      PROVE  \/ i <= n + 1 /\ (i = n + 1 => lambda) /\ Has(st, n + 1, d2, i, x)
                /\ Bound(st, n + 1, d2, i, x) = Bound(st, n, d, i, x)
             \/ i = n + 1 /\ ~lambda /\ Has(st, n + 1, d2, n + 2, x)
                /\ Bound(st, n + 1, d2, n + 2, x) = Bound(st, n, d, i, x)
  <2>1. CASE i <= n \/ lambda
    <3>1. i \in Ctx(st, n + 1)
      BY <1>4, <2>1 DEF Ctx
    <3>. QED
      BY <1>1, <1>4, <1>7, <2>1, <3>1 DEF Has, Bound
  <2>2. CASE i = n + 1 /\ ~lambda
    <3>1. Available(d, x)
      BY <1>2, <1>7, <2>2 DEF Has
    <3>2. x \notin X /\ d2[x] = d[x]
      BY <2>2, <3>1 DEF Pushed
    <3>. QED
      BY <1>2, <2>2, <3>1, <3>2 DEF Has, Bound, Available
  <2>. QED
    BY <1>4, <2>1, <2>2
<1>8. \A x \in X : Has(st, n + 1, d2, n + 2, x) /\ Bound(st, n + 1, d2, n + 2, x) = s2[x]
  BY <1>2 DEF Pushed, Has, Bound
<1>9. \A k \in Levels(st, n + 1) : k <= n + 1 =>
        /\ k \in Levels(st, n)
        /\ EnvAt(st, n + 1, e2, k) = EnvAt(st, n, e, k)
        /\ ScopeAt(st, n + 1, s2, k) = ScopeAt(st, n, s, k)
  BY DEF Pushed, Levels, EnvAt, ScopeAt
<1>10. ASSUME NEW k \in Nat, NEW i \in Nat, k <= n + 1, i = n + 2
       PROVE  /\ Inside(st, k, i) <=> Inside(st, k, n + 1) /\ ~lambda
              /\ \A x : Fresh(st, k, i, x) <=> Fresh(st, k, n + 1, x) /\ x \notin X
  <2>1. k .. i - 1 = (k .. n + 1 - 1) \cup {n + 1}
    BY <1>10
  <2>. QED
    BY <2>1 DEF Inside, Fresh
<1>11. \A k \in Levels(st, n + 1) : k \in 1 .. n + 2
  BY DEF Levels
<1>12. \A x \in Names : e2[x] = None => x \in X \/ (e[x] = None /\ s2[x] = s[x])
  BY DEF Pushed
<1>13. ASSUME NEW k \in Levels(st, n + 1), NEW i \in Ctx(st, n + 1), NEW x \in Names,
              Free(st, n + 1, d2, e2, k, i, x)
       PROVE  \/ i = n + 2 /\ k = n + 2 /\ x \in X
              \/ \E l \in Levels(st, n), j \in Ctx(st, n) :
                   /\ Free(st, n, d, e, l, j, x)
                   /\ ScopeAt(st, n + 1, s2, k)[x] = ScopeAt(st, n, s, l)[x]
                   /\ Bound(st, n + 1, d2, i, x) = Bound(st, n, d, j, x)
  <2>0. /\ k <= i /\ Inside(st, k, i) /\ Fresh(st, k, i, x)
        /\ Has(st, n + 1, d2, i, x) /\ EnvAt(st, n + 1, e2, k)[x] = None
    BY <1>13 DEF Free
  <2>1. CASE i <= n + 1
    <3>1. Has(st, n, d, i, x) /\ Bound(st, n + 1, d2, i, x) = Bound(st, n, d, i, x)
      BY <1>6, <2>0, <2>1
    <3>2. k <= n + 1 /\ i \in Ctx(st, n)
      BY <1>1, <1>3, <1>11, <2>0, <2>1
    <3>. QED
      BY <1>9, <2>0, <3>1, <3>2 DEF Free
  <2>2. CASE i = n + 2 /\ k <= n + 1
    <3>1. Inside(st, k, n + 1) /\ Fresh(st, k, n + 1, x) /\ x \notin X
      BY <1>10, <1>11, <2>0, <2>2
    <3>2. Has(st, n, d, n + 1, x) /\ Bound(st, n + 1, d2, i, x) = Bound(st, n, d, n + 1, x)
      BY <1>6, <2>0, <2>2, <3>1
    <3>. QED
      BY <1>2, <1>9, <2>0, <2>2, <3>1, <3>2 DEF Free
  <2>3. CASE i = n + 2 /\ k = n + 2 /\ x \notin X
    <3>1. e[x] = None /\ s2[x] = s[x]
      BY <1>2, <1>12, <2>0, <2>3
    <3>2. Has(st, n, d, n + 1, x) /\ Bound(st, n + 1, d2, i, x) = Bound(st, n, d, n + 1, x)
      BY <1>6, <2>0, <2>3
    <3>3. Inside(st, n + 1, n + 1) /\ Fresh(st, n + 1, n + 1, x)
      BY DEF Inside, Fresh
    <3>4. Free(st, n, d, e, n + 1, n + 1, x)
      BY <1>2, <3>1, <3>2, <3>3 DEF Free
    <3>. QED
      BY <1>2, <2>3, <3>1, <3>2, <3>4
  <2>. QED
    BY <1>3, <1>11, <2>1, <2>2, <2>3
<1>14. ASSUME NEW k \in Levels(st, n + 1), NEW x \in Names, Hides(st, n + 1, e2, s2, k, x)
       PROVE  \/ k = n + 2 /\ x \in X
              \/ \E l \in Levels(st, n) :
                   /\ Hides(st, n, e, s, l, x) /\ (l = k \/ (k = n + 2 /\ l = n + 1))
                   /\ ScopeAt(st, n + 1, s2, k)[x] = ScopeAt(st, n, s, l)[x]
  <2>1. CASE k <= n + 1
    BY <1>9, <1>14, <2>1 DEF Hides
  <2>2. CASE k = n + 2 /\ x \notin X
    <3>1. e2[x] # None /\ s2[x] # 0
      BY <1>2, <1>14, <2>2 DEF Hides
    <3>2. e[x] # None /\ s2[x] = s[x]
      BY <2>2, <3>1 DEF Pushed
    <3>. QED
      BY <1>2, <2>2, <3>1, <3>2 DEF Hides
  <2>. QED
    BY <1>11, <2>1, <2>2
<1>. QED
  BY <1>1, <1>6, <1>7, <1>8, <1>9, <1>10, <1>13, <1>14 DEF PushView

\* A frame is pushed: the walk is good above it if it was below.
LEMMA GoodPush ==
  ASSUME NEW st, NEW n \in Nat, NEW d, NEW e, NEW s, NEW R, NEW nx,
         NEW d2, NEW e2, NEW s2, NEW R2, NEW nx2,
         Good(st, n, d, e, s, R, nx),
         Pushed(st[n + 1], d, e, s, R, nx, d2, e2, s2, R2, nx2)
  PROVE  Good(st, n + 1, d2, e2, s2, R2, nx2)
<1>. DEFINE f == st[n + 1]
            lambda == f.at = "lambda"
            X == Intro(f)
<1>0. PushView(st, n, d, e, s, d2, e2, s2)
  BY PushedView
<1>1. /\ n + 2 \in Ctx(st, n + 1) /\ n + 1 \in Ctx(st, n)
      /\ n + 2 \in Levels(st, n + 1) /\ n + 1 \in Levels(st, n)
      /\ DeltaAt(st, n + 1, d2, n + 2) = d2 /\ DeltaAt(st, n, d, n + 1) = d
      /\ EnvAt(st, n + 1, e2, n + 2) = e2 /\ EnvAt(st, n, e, n + 1) = e
      /\ ScopeAt(st, n + 1, s2, n + 2) = s2 /\ ScopeAt(st, n, s, n + 1) = s
  BY DEF Ctx, Levels, DeltaAt, EnvAt, ScopeAt
<1>2. /\ Ctx(st, n + 1) \subseteq 1 .. n + 2 /\ Levels(st, n + 1) \subseteq 1 .. n + 2
      /\ Ctx(st, n) \subseteq 1 .. n + 1 /\ Levels(st, n) \subseteq 1 .. n + 1
  BY DEF Ctx, Levels
<1>3. /\ nx \in 1 .. MaxBindings + 1 /\ nx2 \in nx .. MaxBindings + 1 /\ MaxBindings \in Nat
      /\ X \subseteq Names
      /\ \A x \in X : s2[x] \in nx .. nx2 - 1 /\ e2[x] = e[x]
      /\ \A x, y \in X : s2[x] = s2[y] => x = y
  BY LinearAssumption DEF Pushed
\* Old bindings are smaller than new ones, and runs have not changed there.
<1>4. \A i \in Ctx(st, n), x \in Names : Has(st, n, d, i, x) =>
        /\ Bound(st, n, d, i, x) \in 1 .. nx - 1 /\ Bound(st, n, d, i, x) \in Bindings
        /\ i <= n => Bound(st, n, d, i, x) < st[i].binding
  <2>. SUFFICES ASSUME NEW i \in Ctx(st, n), NEW x \in Names, Has(st, n, d, i, x)
                PROVE  /\ Bound(st, n, d, i, x) \in 1 .. nx - 1
                       /\ i <= n => Bound(st, n, d, i, x) < st[i].binding
    BY <1>3 DEF Bindings
  <2>1. Bound(st, n, d, i, x) \in 1 .. (IF i = n + 1 THEN nx ELSE st[i].binding) - 1
    BY DEF Good, Older
  <2>2. i # n + 1 => i \in 1 .. n /\ st[i].at = "lambda"
    BY DEF Ctx
  <2>3. i # n + 1 => st[i].binding \in 1 .. nx - 1
    BY <2>2 DEF Good, Older
  <2>. QED
    BY <1>2, <1>3, <2>1, <2>3
<1>5. \A q \in R2 : \E r \in R :
        /\ \A b \in Bindings : b < nx => q[b] = r[b]
        /\ \A b \in Bindings : (\A x \in X : s2[x] # b) => q[b] = r[b]
  BY <1>3 DEF Pushed, Bindings
<1>6. \A q \in R2 : \A x \in X : s2[x] \in Bindings /\ q[s2[x]] = "unused"
  BY <1>3 DEF Pushed, Bindings
<1>7. \A k \in Levels(st, n), x \in Names :
        /\ ScopeAt(st, n, s, k)[x] \in 0 .. nx - 1
        /\ k <= n /\ st[k].at = "lambda" => ScopeAt(st, n, s, k)[x] < st[k].binding
  BY DEF Good, Older
<1>8. \A x \in Names \ X : \/ e2[x] = e[x] /\ s2[x] = s[x]
                           \/ e2[x] # None /\ s2[x] = 0
  BY DEF Pushed
<1>9. lambda => f.binding = nx /\ nx < nx2
  BY DEF Pushed
<1>10. Older(st, n + 1, d2, s2, nx2)
  <2>1. ASSUME NEW i \in Ctx(st, n + 1), NEW x \in Names, Has(st, n + 1, d2, i, x)
        PROVE  Bound(st, n + 1, d2, i, x)
                 \in 1 .. (IF i = n + 2 THEN nx2 ELSE st[i].binding) - 1
    <3>1. CASE i = n + 2 /\ x \in X
      BY <1>0, <1>3, <3>1 DEF PushView
    <3>2. CASE /\ i <= n + 1 /\ Has(st, n, d, i, x)
               /\ Bound(st, n + 1, d2, i, x) = Bound(st, n, d, i, x)
      <4>1. i \in Ctx(st, n) /\ (i = n + 1 => lambda)
        BY <1>0, <3>2 DEF PushView
      <4>2. i <= n => st[i].at = "lambda" /\ i \in 1 .. n
        BY <1>2, <4>1 DEF Ctx
      <4>3. i <= n => st[i].binding \in 1 .. nx - 1
        BY <4>2 DEF Good, Older
      <4>. QED
        BY <1>2, <1>3, <1>4, <1>9, <3>2, <4>1, <4>3
    <3>3. CASE /\ i = n + 2 /\ Has(st, n, d, n + 1, x)
               /\ Bound(st, n + 1, d2, i, x) = Bound(st, n, d, n + 1, x)
      BY <1>1, <1>3, <1>4, <3>3
    <3>. QED
      BY <1>0, <2>1, <3>1, <3>2, <3>3 DEF PushView
  <2>2. ASSUME NEW k \in Levels(st, n + 1), NEW x \in Names
        PROVE  /\ ScopeAt(st, n + 1, s2, k)[x] \in 0 .. nx2 - 1
               /\ k <= n + 1 /\ st[k].at = "lambda" =>
                    ScopeAt(st, n + 1, s2, k)[x] < st[k].binding
    <3>1. CASE k <= n + 1
      <4>1. k \in Levels(st, n) /\ ScopeAt(st, n + 1, s2, k)[x] = ScopeAt(st, n, s, k)[x]
        BY <1>0, <3>1 DEF PushView
      <4>. QED
        BY <1>2, <1>3, <1>7, <1>9, <3>1, <4>1
    <3>2. CASE k = n + 2
      <4>1. s[x] \in 0 .. nx - 1
        BY <1>1, <1>7
      <4>. QED
        BY <1>1, <1>3, <1>8, <3>2, <4>1
    <3>. QED
      BY <1>2, <3>1, <3>2
  <2>3. ASSUME NEW k \in 1 .. n + 1, st[k].at = "lambda"
        PROVE  st[k].binding \in 1 .. nx2 - 1
    <3>1. k \in 1 .. n => st[k].binding \in 1 .. nx - 1
      BY <2>3 DEF Good, Older
    <3>. QED
      BY <1>3, <1>9, <2>3, <3>1
  <2>. QED
    BY <2>1, <2>2, <2>3 DEF Older
<1>11. Distinct(st, n + 1, d2)
  <2>. SUFFICES ASSUME NEW i \in Ctx(st, n + 1), NEW j \in Ctx(st, n + 1),
                       NEW x \in Names, NEW y \in Names,
                       Has(st, n + 1, d2, i, x), Has(st, n + 1, d2, j, y),
                       Bound(st, n + 1, d2, i, x) = Bound(st, n + 1, d2, j, y)
                PROVE  i = j /\ x = y
    BY DEF Distinct
  <2>. DEFINE Old(c, z) == \E c0 \in Ctx(st, n) :
                /\ Has(st, n, d, c0, z) /\ Bound(st, n + 1, d2, c, z) = Bound(st, n, d, c0, z)
                /\ \/ c <= n + 1 /\ c0 = c /\ (c = n + 1 => lambda)
                   \/ c = n + 2 /\ c0 = n + 1 /\ ~lambda
              New(c, z) == c = n + 2 /\ z \in X /\ Bound(st, n + 1, d2, c, z) = s2[z]
  <2>1. ASSUME NEW c \in Ctx(st, n + 1), NEW z \in Names, Has(st, n + 1, d2, c, z)
        PROVE  Old(c, z) \/ New(c, z)
    BY <1>0, <1>1, <2>1 DEF PushView
  <2>2. ASSUME NEW c \in Ctx(st, n + 1), NEW z \in Names, Old(c, z)
        PROVE  Bound(st, n + 1, d2, c, z) \in 1 .. nx - 1
    BY <1>4, <2>2
  <2>3. CASE Old(i, x) /\ Old(j, y)
    <3>1. PICK i0 \in Ctx(st, n) :
                /\ Has(st, n, d, i0, x) /\ Bound(st, n + 1, d2, i, x) = Bound(st, n, d, i0, x)
                /\ \/ i <= n + 1 /\ i0 = i /\ (i = n + 1 => lambda)
                   \/ i = n + 2 /\ i0 = n + 1 /\ ~lambda
      BY <2>3
    <3>2. PICK j0 \in Ctx(st, n) :
                /\ Has(st, n, d, j0, y) /\ Bound(st, n + 1, d2, j, y) = Bound(st, n, d, j0, y)
                /\ \/ j <= n + 1 /\ j0 = j /\ (j = n + 1 => lambda)
                   \/ j = n + 2 /\ j0 = n + 1 /\ ~lambda
      BY <2>3
    <3>3. i0 = j0 /\ x = y
      BY <3>1, <3>2 DEF Good, Distinct
    <3>. QED
      BY <1>2, <3>1, <3>2, <3>3
  <2>4. CASE New(i, x) /\ New(j, y)
    BY <1>3, <2>4
  <2>5. CASE Old(i, x) /\ New(j, y)
    BY <1>3, <2>2, <2>5
  <2>6. CASE New(i, x) /\ Old(j, y)
    BY <1>3, <2>2, <2>6
  <2>. QED
    BY <2>1, <2>3, <2>4, <2>5, <2>6
<1>12. Owned(st, n + 1, d2)
  <2>. SUFFICES ASSUME NEW i \in Ctx(st, n + 1), NEW x \in Names
                PROVE  /\ Has(st, n + 1, d2, i, x) =>
                            \E m \in 1 .. i - 1 : Inside(st, m + 1, i) /\ x \in Intro(st[m])
                       /\ \A m \in 1 .. i - 1 :
                            Inside(st, m + 1, i) /\ x \in Intro(st[m]) =>
                              DeltaAt(st, n + 1, d2, i)[x].state # "unknown"
    BY DEF Owned
  <2>0. /\ \A c \in Ctx(st, n) : Has(st, n, d, c, x) =>
             \E m \in 1 .. c - 1 : Inside(st, m + 1, c) /\ x \in Intro(st[m])
        /\ \A c \in Ctx(st, n) : \A m \in 1 .. c - 1 :
             Inside(st, m + 1, c) /\ x \in Intro(st[m]) => DeltaAt(st, n, d, c)[x].state # "unknown"
    BY DEF Good, Owned
  <2>1. CASE i <= n + 1
    <3>1. i \in Ctx(st, n) /\ DeltaAt(st, n + 1, d2, i) = DeltaAt(st, n, d, i)
      BY <1>0, <2>1 DEF PushView
    <3>. QED
      BY <2>0, <3>1, <1>1 DEF Has
  <2>2. CASE i = n + 2 /\ x \in X
    <3>1. Inside(st, n + 1 + 1, i)
      BY <2>2 DEF Inside
    <3>2. d2[x].state # "unknown"
      BY <2>2 DEF Pushed, Available
    <3>. QED
      BY <1>1, <2>2, <3>1, <3>2
  <2>3. CASE i = n + 2 /\ x \notin X
    <3>0. \A m \in 1 .. n : Inside(st, m + 1, i) <=> Inside(st, m + 1, n + 1) /\ ~lambda
      BY <1>0, <2>3 DEF PushView
    <3>1. ASSUME Has(st, n + 1, d2, i, x)
          PROVE  \E m \in 1 .. i - 1 : Inside(st, m + 1, i) /\ x \in Intro(st[m])
      <4>1. Has(st, n, d, n + 1, x) /\ ~lambda
        BY <1>0, <1>1, <2>3, <3>1 DEF PushView
      <4>2. PICK m \in 1 .. n : Inside(st, m + 1, n + 1) /\ x \in Intro(st[m])
        BY <1>1, <2>0, <4>1
      <4>. QED
        BY <2>3, <3>0, <4>1, <4>2
    <3>2. ASSUME NEW m \in 1 .. i - 1, Inside(st, m + 1, i), x \in Intro(st[m])
          PROVE  d2[x].state # "unknown"
      <4>1. m \in 1 .. n
        BY <2>3, <3>2
      <4>2. Inside(st, m + 1, n + 1) /\ ~lambda
        BY <3>0, <3>2, <4>1
      <4>3. d[x].state # "unknown"
        BY <1>1, <2>0, <3>2, <4>1, <4>2
      <4>. QED
        BY <2>3, <4>2, <4>3 DEF Pushed
    <3>. QED
      BY <1>1, <2>3, <3>1, <3>2
  <2>. QED
    BY <1>2, <2>1, <2>2, <2>3
<1>13. Nested(st, n + 1, e2, s2)
  <2>. SUFFICES ASSUME NEW k \in Levels(st, n + 1), NEW l \in Levels(st, n + 1), NEW x \in Names,
                       k <= l, EnvAt(st, n + 1, e2, l)[x] = None
                PROVE  /\ EnvAt(st, n + 1, e2, k)[x] = None
                       /\ ScopeAt(st, n + 1, s2, k)[x] # 0 => ScopeAt(st, n + 1, s2, l)[x] # 0
                       /\ Fresh(st, k, l, x) =>
                            ScopeAt(st, n + 1, s2, l)[x] = ScopeAt(st, n + 1, s2, k)[x]
    BY DEF Nested
  <2>0. \A k0, l0 \in Levels(st, n) :
          k0 <= l0 /\ EnvAt(st, n, e, l0)[x] = None =>
            /\ EnvAt(st, n, e, k0)[x] = None
            /\ ScopeAt(st, n, s, k0)[x] # 0 => ScopeAt(st, n, s, l0)[x] # 0
            /\ Fresh(st, k0, l0, x) => ScopeAt(st, n, s, l0)[x] = ScopeAt(st, n, s, k0)[x]
    BY DEF Good, Nested
  <2>1. CASE l <= n + 1
    BY <1>0, <1>2, <2>0, <2>1 DEF PushView
  <2>2. CASE l = n + 2 /\ k = n + 2
    BY <2>2
  <2>3. CASE l = n + 2 /\ k <= n + 1
    <3>1. /\ k \in Levels(st, n) /\ EnvAt(st, n + 1, e2, k) = EnvAt(st, n, e, k)
          /\ ScopeAt(st, n + 1, s2, k) = ScopeAt(st, n, s, k)
      BY <1>0, <2>3 DEF PushView
    <3>2. e[x] = None /\ (s2[x] = s[x] \/ s2[x] \in nx .. nx2 - 1)
      BY <1>1, <1>3, <1>8, <2>3
    <3>3. Fresh(st, k, l, x) => x \notin X /\ Fresh(st, k, n + 1, x)
      BY <1>0, <1>2, <2>3 DEF PushView
    <3>4. x \notin X => s2[x] = s[x]
      BY <1>1, <1>8, <2>3
    <3>. QED
      BY <1>1, <1>2, <1>3, <2>0, <2>3, <3>1, <3>2, <3>3, <3>4
  <2>. QED
    BY <1>2, <2>1, <2>2, <2>3
<1>14. Denoted(st, n + 1, d2, e2, s2, R2)
  <2>1. ASSUME NEW k \in Levels(st, n + 1), NEW i \in Ctx(st, n + 1), NEW x \in Names,
               Free(st, n + 1, d2, e2, k, i, x)
        PROVE  /\ ScopeAt(st, n + 1, s2, k)[x] = Bound(st, n + 1, d2, i, x)
               /\ \A r \in R2 : r[Bound(st, n + 1, d2, i, x)] = "unused"
    <3>1. CASE i = n + 2 /\ k = n + 2 /\ x \in X
      BY <1>0, <1>1, <1>6, <3>1 DEF PushView
    <3>2. ASSUME NEW l \in Levels(st, n), NEW j \in Ctx(st, n), Free(st, n, d, e, l, j, x),
                 ScopeAt(st, n + 1, s2, k)[x] = ScopeAt(st, n, s, l)[x],
                 Bound(st, n + 1, d2, i, x) = Bound(st, n, d, j, x)
          PROVE  /\ ScopeAt(st, n + 1, s2, k)[x] = Bound(st, n + 1, d2, i, x)
                 /\ \A r \in R2 : r[Bound(st, n + 1, d2, i, x)] = "unused"
      <4>1. /\ ScopeAt(st, n, s, l)[x] = Bound(st, n, d, j, x)
            /\ \A r \in R : r[Bound(st, n, d, j, x)] = "unused"
        BY <3>2 DEF Good, Denoted
      <4>2. Bound(st, n, d, j, x) \in Bindings /\ Bound(st, n, d, j, x) < nx
        BY <1>3, <1>4, <3>2 DEF Free
      <4>. QED
        BY <1>5, <3>2, <4>1, <4>2
    <3>. QED
      BY <1>0, <2>1, <3>1, <3>2 DEF PushView
  <2>2. ASSUME NEW k \in Levels(st, n + 1), NEW x \in Names, Hides(st, n + 1, e2, s2, k, x)
        PROVE  \E i \in Ctx(st, n + 1) :
                 /\ Inside(st, k, i) /\ Has(st, n + 1, d2, i, x)
                 /\ Bound(st, n + 1, d2, i, x) = ScopeAt(st, n + 1, s2, k)[x]
    <3>1. CASE k = n + 2 /\ x \in X
      <4>1. Inside(st, k, n + 2)
        BY <3>1 DEF Inside
      <4>. QED
        BY <1>0, <1>1, <3>1, <4>1 DEF PushView
    <3>2. ASSUME NEW l \in Levels(st, n), Hides(st, n, e, s, l, x),
                 l = k \/ (k = n + 2 /\ l = n + 1),
                 ScopeAt(st, n + 1, s2, k)[x] = ScopeAt(st, n, s, l)[x]
          PROVE  \E i \in Ctx(st, n + 1) :
                   /\ Inside(st, k, i) /\ Has(st, n + 1, d2, i, x)
                   /\ Bound(st, n + 1, d2, i, x) = ScopeAt(st, n + 1, s2, k)[x]
      <4>1. PICK j \in Ctx(st, n) :
                   /\ Inside(st, l, j) /\ Has(st, n, d, j, x)
                   /\ Bound(st, n, d, j, x) = ScopeAt(st, n, s, l)[x]
        BY <3>2 DEF Good, Denoted
      <4>2. CASE /\ j <= n + 1 /\ Has(st, n + 1, d2, j, x)
                 /\ Bound(st, n + 1, d2, j, x) = Bound(st, n, d, j, x)
        <5>1. j \in Ctx(st, n + 1)
          BY <4>2 DEF Has
        <5>2. Inside(st, k, j)
          <6>1. CASE l = k
            BY <4>1, <6>1
          <6>2. CASE k = n + 2
            BY <1>2, <4>2, <6>2 DEF Inside
          <6>. QED
            BY <3>2, <6>1, <6>2
        <5>. QED
          BY <3>2, <4>1, <4>2, <5>1, <5>2
      <4>3. CASE /\ j = n + 1 /\ ~lambda /\ Has(st, n + 1, d2, n + 2, x)
                 /\ Bound(st, n + 1, d2, n + 2, x) = Bound(st, n, d, j, x)
        <5>1. Inside(st, k, n + 2)
          <6>1. CASE l = k
            BY <1>0, <1>2, <4>1, <4>3, <6>1 DEF PushView
          <6>2. CASE k = n + 2
            BY <6>2 DEF Inside
          <6>. QED
            BY <3>2, <6>1, <6>2
        <5>. QED
          BY <1>1, <3>2, <4>1, <4>3, <5>1
      <4>. QED
        BY <1>0, <4>1, <4>2, <4>3 DEF PushView
    <3>. QED
      BY <1>0, <2>2, <3>1, <3>2 DEF PushView
  <2>3. ASSUME NEW k \in Levels(st, n + 1), NEW x \in Names, Hides(st, n + 1, e2, s2, k, x),
               NEW l \in Levels(st, n + 1), NEW i \in Ctx(st, n + 1), NEW y \in Names,
               Free(st, n + 1, d2, e2, l, i, y)
        PROVE  Bound(st, n + 1, d2, i, y) # ScopeAt(st, n + 1, s2, k)[x]
    <3>. DEFINE OldHid == \E k0 \in Levels(st, n) :
                  /\ Hides(st, n, e, s, k0, x)
                  /\ ScopeAt(st, n + 1, s2, k)[x] = ScopeAt(st, n, s, k0)[x]
                NewHid == k = n + 2 /\ x \in X
                OldFree == \E l0 \in Levels(st, n), i0 \in Ctx(st, n) :
                  Free(st, n, d, e, l0, i0, y) /\ Bound(st, n + 1, d2, i, y) = Bound(st, n, d, i0, y)
                NewFree == i = n + 2 /\ l = n + 2 /\ y \in X
    <3>1. (OldHid \/ NewHid) /\ (OldFree \/ NewFree)
      BY <1>0, <2>3 DEF PushView
    <3>2. OldHid => ScopeAt(st, n + 1, s2, k)[x] \in 0 .. nx - 1
      BY <1>7
    <3>3. OldFree => Bound(st, n + 1, d2, i, y) \in 1 .. nx - 1
      BY <1>4 DEF Free
    <3>4. NewHid => ScopeAt(st, n + 1, s2, k)[x] = s2[x] /\ s2[x] \in nx .. nx2 - 1 /\ e[x] # None
      BY <1>1, <1>3, <2>3 DEF Hides
    <3>5. NewFree => Bound(st, n + 1, d2, i, y) = s2[y] /\ s2[y] \in nx .. nx2 - 1 /\ e[y] = None
      BY <1>0, <1>1, <1>3, <2>3 DEF Free, PushView
    <3>6. OldHid /\ OldFree => Bound(st, n + 1, d2, i, y) # ScopeAt(st, n + 1, s2, k)[x]
      BY DEF Good, Denoted
    <3>7. NewHid /\ NewFree => Bound(st, n + 1, d2, i, y) # ScopeAt(st, n + 1, s2, k)[x]
      BY <1>3, <3>4, <3>5
    <3>8. OldHid /\ NewFree => Bound(st, n + 1, d2, i, y) # ScopeAt(st, n + 1, s2, k)[x]
      BY <1>3, <3>2, <3>5
    <3>9. NewHid /\ OldFree => Bound(st, n + 1, d2, i, y) # ScopeAt(st, n + 1, s2, k)[x]
      BY <1>3, <3>3, <3>4
    <3>. HIDE DEF OldHid, NewHid, OldFree, NewFree
    <3>. QED
      BY <3>1, <3>6, <3>7, <3>8, <3>9
  <2>. QED
    BY <2>1, <2>2, <2>3 DEF Denoted
<1>15. Named(st, n + 1, d2, s2)
  <2>. SUFFICES ASSUME NEW k \in Levels(st, n + 1), NEW i \in Ctx(st, n + 1),
                       NEW x \in Names, NEW y \in Names, Has(st, n + 1, d2, i, y),
                       ScopeAt(st, n + 1, s2, k)[x] = Bound(st, n + 1, d2, i, y)
                PROVE  y = x
    BY DEF Named
  <2>. DEFINE b == Bound(st, n + 1, d2, i, y)
              OldB == \E j \in Ctx(st, n) : Has(st, n, d, j, y) /\ b = Bound(st, n, d, j, y)
              OldS == \E l \in Levels(st, n) : b = ScopeAt(st, n, s, l)[x]
  <2>1. OldB \/ (y \in X /\ b = s2[y])
    BY <1>0, <1>1 DEF PushView
  <2>2. b # 0
    <3>1. OldB => b # 0
      BY <1>4
    <3>. QED
      BY <1>3, <2>1, <3>1
  <2>3. OldS \/ (x \in X /\ b = s2[x])
    <3>1. CASE k <= n + 1
      BY <1>0, <3>1 DEF PushView
    <3>2. CASE k = n + 2 /\ x \notin X
      <4>1. b = s2[x]
        BY <1>1, <3>2
      <4>2. s2[x] = s[x]
        BY <1>8, <2>2, <3>2, <4>1
      <4>. QED
        BY <1>1, <4>1, <4>2
    <3>3. CASE k = n + 2 /\ x \in X
      BY <1>1, <3>3
    <3>. QED
      BY <1>2, <3>1, <3>2, <3>3
  <2>4. OldB /\ OldS => y = x
    BY DEF Good, Named
  <2>5. OldB => b \in 1 .. nx - 1
    BY <1>4
  <2>6. OldS => b \in 0 .. nx - 1
    BY <1>7
  <2>. HIDE DEF OldB, OldS
  <2>. QED
    BY <1>3, <2>1, <2>3, <2>4, <2>5, <2>6
<1>16. Kept(st, n + 1, d2, R2)
  <2>1. ASSUME NEW q \in R2, NEW b \in Bindings, q[b] \in {"unused", "wrong"}
        PROVE  \E i \in Ctx(st, n + 1), x \in Names :
                 Has(st, n + 1, d2, i, x) /\ Bound(st, n + 1, d2, i, x) = b
    <3>1. CASE \E x \in X : s2[x] = b
      BY <1>0, <1>1, <1>3, <3>1 DEF PushView
    <3>2. CASE \A x \in X : s2[x] # b
      <4>1. PICK r \in R : q[b] = r[b]
        BY <1>5, <3>2
      <4>2. PICK j \in Ctx(st, n), x \in Names : Has(st, n, d, j, x) /\ Bound(st, n, d, j, x) = b
        BY <2>1, <4>1 DEF Good, Kept
      <4>. QED
        BY <1>0, <1>1, <4>2 DEF PushView, Has
    <3>. QED
      BY <3>1, <3>2
  <2>2. ASSUME NEW q \in R2, NEW i \in Ctx(st, n + 1), NEW x \in Names, Has(st, n + 1, d2, i, x)
        PROVE  q[Bound(st, n + 1, d2, i, x)] # "absent"
    <3>1. CASE i = n + 2 /\ x \in X
      BY <1>0, <1>6, <3>1 DEF PushView
    <3>2. ASSUME NEW j \in Ctx(st, n), Has(st, n, d, j, x),
                 Bound(st, n + 1, d2, i, x) = Bound(st, n, d, j, x)
          PROVE  q[Bound(st, n + 1, d2, i, x)] # "absent"
      <4>1. PICK r \in R : \A b \in Bindings : b < nx => q[b] = r[b]
        BY <1>5
      <4>2. r[Bound(st, n, d, j, x)] # "absent"
        BY <3>2 DEF Good, Kept
      <4>. QED
        BY <1>3, <1>4, <3>2, <4>1, <4>2
    <3>. QED
      BY <1>0, <1>1, <2>2, <3>1, <3>2 DEF PushView, Has
  <2>. QED
    BY <2>1, <2>2 DEF Kept
<1>17. Branches(st, n + 1, d2, R2)
  <2>. SUFFICES ASSUME NEW m \in 1 .. n + 1, st[m].at = "arm"
                PROVE  /\ \A i \in Ctx(st, n + 1), x \in Names :
                            /\ m <= i /\ Inside(st, m, i) /\ Fresh(st, m, i, x)
                            /\ Has(st, n + 1, d2, i, x)
                            => DeltaAt(st, n + 1, d2, i)[x] = st[m].delta[x]
                       /\ \A x \in Names : Available(st[m].delta, x) =>
                            /\ st[m].delta[x].binding \in Bindings
                            /\ \A q \in R2 : q[st[m].delta[x].binding] # "absent"
    BY DEF Branches
  <2>0. \A x \in Names \ X : Available(d2, x) => d2[x] = d[x]
    BY DEF Pushed, Available
  <2>1. CASE m \in 1 .. n
    <3>1. ASSUME NEW i \in Ctx(st, n + 1), NEW x \in Names,
                 m <= i, Inside(st, m, i), Fresh(st, m, i, x), Has(st, n + 1, d2, i, x)
          PROVE  DeltaAt(st, n + 1, d2, i)[x] = st[m].delta[x]
      <4>1. CASE i <= n + 1
        <5>1. i \in Ctx(st, n) /\ DeltaAt(st, n + 1, d2, i) = DeltaAt(st, n, d, i)
          BY <1>0, <4>1 DEF PushView
        <5>. QED
          BY <2>1, <3>1, <5>1 DEF Good, Branches, Has
      <4>2. CASE i = n + 2
        <5>1. Inside(st, m, n + 1) /\ Fresh(st, m, n + 1, x) /\ x \notin X /\ ~lambda
          BY <1>0, <2>1, <3>1, <4>2 DEF PushView
        <5>2. Has(st, n, d, n + 1, x)
          BY <1>0, <3>1, <4>2, <5>1 DEF PushView
        <5>3. d[x] = st[m].delta[x]
          BY <1>1, <2>1, <5>1, <5>2 DEF Good, Branches
        <5>4. d2[x] = d[x]
          BY <1>1, <2>0, <3>1, <4>2, <5>1 DEF Has
        <5>. QED
          BY <1>1, <4>2, <5>3, <5>4
      <4>. QED
        BY <1>2, <4>1, <4>2
    <3>2. ASSUME NEW x \in Names, Available(st[m].delta, x), NEW q \in R2
          PROVE  q[st[m].delta[x].binding] # "absent"
      <4>1. /\ st[m].delta[x].binding \in Bindings
            /\ \A r \in R : r[st[m].delta[x].binding] # "absent"
        BY <2>1, <3>2 DEF Good, Branches
      <4>. QED
        BY <4>1 DEF Pushed
    <3>. QED
      BY <2>1, <3>1, <3>2 DEF Good, Branches
  <2>2. CASE m = n + 1
    <3>1. X = {} /\ ~lambda /\ f.delta = d
      BY <2>2 DEF Intro, Pushed
    <3>2. ASSUME NEW i \in Ctx(st, n + 1), NEW x \in Names,
                 m <= i, Inside(st, m, i), Has(st, n + 1, d2, i, x)
          PROVE  DeltaAt(st, n + 1, d2, i)[x] = st[m].delta[x]
      <4>1. i = n + 2
        BY <1>0, <1>2, <2>2, <3>1, <3>2 DEF PushView
      <4>. QED
        BY <1>1, <2>0, <2>2, <3>1, <3>2, <4>1 DEF Has
    <3>3. ASSUME NEW x \in Names, Available(st[m].delta, x)
          PROVE  /\ st[m].delta[x].binding \in Bindings
                 /\ \A q \in R2 : q[st[m].delta[x].binding] # "absent"
      <4>1. Has(st, n, d, n + 1, x) /\ Bound(st, n, d, n + 1, x) = st[m].delta[x].binding
        BY <1>1, <2>2, <3>1, <3>3 DEF Has, Bound
      <4>2. \A r \in R : r[st[m].delta[x].binding] # "absent"
        BY <1>1, <4>1 DEF Good, Kept
      <4>. QED
        BY <1>1, <1>3, <1>4, <1>5, <4>1, <4>2
    <3>. QED
      BY <3>2, <3>3
  <2>. QED
    BY <2>1, <2>2
<1>. QED
  BY <1>10, <1>11, <1>12, <1>13, <1>14, <1>15, <1>16, <1>17 DEF Good

--------------------------------------------------------------------------------
(* A frame is left.                                                            *)

\* Nothing the frame introduced is available, and what it keeps comes back.
Leaves(f, d, e, s, e2, s2) ==
  /\ f.at \notin {"function", "lambda"}
  /\ \A x \in Intro(f) : ~Available(d, x)
  /\ IF f.at \in Scoped THEN e2 = f.env /\ s2 = f.scope ELSE e2 = e /\ s2 = s

\* What is seen below the frame was seen above it.
PopView(st, n, d, e, s, e2, s2) ==
  LET Up(i) == IF i = n + 1 THEN n + 2 ELSE i
      Lv(k) == IF k = n + 1 /\ st[n + 1].at \notin Scoped THEN n + 2 ELSE k
  IN
  /\ \A i \in Ctx(st, n) :
       /\ i \in 1 .. n + 1 /\ Up(i) \in Ctx(st, n + 1)
       /\ DeltaAt(st, n, d, i) = DeltaAt(st, n + 1, d, Up(i))
       /\ \A x \in Names : Has(st, n, d, i, x) <=> Has(st, n + 1, d, Up(i), x)
       /\ \A x \in Names : Bound(st, n, d, i, x) = Bound(st, n + 1, d, Up(i), x)
  /\ \A j \in Ctx(st, n + 1) : \E i \in Ctx(st, n) : j = Up(i)
  /\ \A k \in Levels(st, n) :
       /\ k \in 1 .. n + 1 /\ Lv(k) \in Levels(st, n + 1)
       /\ EnvAt(st, n, e2, k) = EnvAt(st, n + 1, e, Lv(k))
       /\ ScopeAt(st, n, s2, k) = ScopeAt(st, n + 1, s, Lv(k))
  /\ \A m \in 1 .. n + 1, i \in Ctx(st, n) :
       /\ Inside(st, m, i) <=> Inside(st, m, Up(i))
       /\ \A x : Has(st, n, d, i, x) => (Fresh(st, m, i, x) <=> Fresh(st, m, Up(i), x))
  /\ \A k \in Levels(st, n), i \in Ctx(st, n) : Inside(st, k, i) <=> Inside(st, Lv(k), Up(i))
  /\ \A k \in Levels(st, n), i \in Ctx(st, n), x \in Names :
       Free(st, n, d, e2, k, i, x) => Free(st, n + 1, d, e, Lv(k), Up(i), x)
  /\ \A k \in Levels(st, n), x \in Names :
       Hides(st, n, e2, s2, k, x) <=> Hides(st, n + 1, e, s, Lv(k), x)

\* What a frame that returns changes in the views.
LEMMA LeftView ==
  ASSUME NEW st, NEW n \in Nat, NEW d, NEW e, NEW s, NEW e2, NEW s2,
         Leaves(st[n + 1], d, e, s, e2, s2)
  PROVE  PopView(st, n, d, e, s, e2, s2)
<1>. DEFINE Up(i) == IF i = n + 1 THEN n + 2 ELSE i
            Lv(k) == IF k = n + 1 /\ st[n + 1].at \notin Scoped THEN n + 2 ELSE k
<1>1. \A i \in Ctx(st, n) :
        /\ i \in 1 .. n + 1 /\ Up(i) \in Ctx(st, n + 1)
        /\ DeltaAt(st, n, d, i) = DeltaAt(st, n + 1, d, Up(i))
  <2>. TAKE i \in Ctx(st, n)
  <2>1. CASE i = n + 1
    BY <2>1 DEF Ctx, DeltaAt
  <2>2. CASE i # n + 1
    <3>1. i \in 1 .. n /\ st[i].at = "lambda" /\ Up(i) = i
      BY <2>2 DEF Ctx
    <3>. QED
      BY <3>1 DEF Ctx, DeltaAt
  <2>. QED
    BY <2>1, <2>2
<1>2. \A i \in Ctx(st, n), x \in Names :
        /\ Has(st, n, d, i, x) <=> Has(st, n + 1, d, Up(i), x)
        /\ Bound(st, n, d, i, x) = Bound(st, n + 1, d, Up(i), x)
  BY <1>1 DEF Has, Bound
<1>3. ASSUME NEW j \in Ctx(st, n + 1) PROVE \E i \in Ctx(st, n) : j = Up(i)
  <2>1. j \in 1 .. n + 2 /\ j # n + 1
    BY DEF Ctx, Leaves
  <2>2. CASE j = n + 2
    BY <2>2 DEF Ctx
  <2>3. CASE j \in 1 .. n
    BY <2>3 DEF Ctx
  <2>. QED
    BY <2>1, <2>2, <2>3
<1>4. \A k \in Levels(st, n) :
        /\ k \in 1 .. n + 1 /\ Lv(k) \in Levels(st, n + 1)
        /\ EnvAt(st, n, e2, k) = EnvAt(st, n + 1, e, Lv(k))
        /\ ScopeAt(st, n, s2, k) = ScopeAt(st, n + 1, s, Lv(k))
  BY DEF Levels, EnvAt, ScopeAt, Leaves
<1>5. \A x : Has(st, n, d, n + 1, x) => x \notin Intro(st[n + 1])
  BY DEF Has, DeltaAt, Leaves
<1>6. ASSUME NEW m \in 1 .. n + 1, NEW i \in Ctx(st, n)
      PROVE  /\ Inside(st, m, i) <=> Inside(st, m, Up(i))
             /\ \A x : Has(st, n, d, i, x) => (Fresh(st, m, i, x) <=> Fresh(st, m, Up(i), x))
  <2>1. CASE i = n + 1
    <3>1. m .. Up(i) - 1 = (m .. i - 1) \cup {n + 1}
      BY <2>1
    <3>. QED
      BY <1>5, <2>1, <3>1 DEF Inside, Fresh, Leaves
  <2>2. CASE i # n + 1
    BY <2>2
  <2>. QED
    BY <2>1, <2>2
<1>7. ASSUME NEW k \in Levels(st, n), NEW i \in Ctx(st, n)
      PROVE  /\ Inside(st, k, i) <=> Inside(st, Lv(k), Up(i))
             /\ k <= i => Lv(k) <= Up(i)
             /\ \A x : Has(st, n, d, i, x) /\ Fresh(st, k, i, x) => Fresh(st, Lv(k), Up(i), x)
  <2>1. CASE k = n + 1 /\ st[n + 1].at \notin Scoped
    <3>1. Inside(st, k, i) /\ Inside(st, Lv(k), Up(i)) /\ \A x : Fresh(st, Lv(k), Up(i), x)
      BY <1>1, <2>1 DEF Inside, Fresh
    <3>2. k <= i => Lv(k) <= Up(i)
      <4>1. i \in 1 .. n + 1
        BY <1>1
      <4>. QED
        BY <2>1, <4>1
    <3>. QED
      BY <3>1, <3>2
  <2>2. CASE Lv(k) = k
    <3>1. k \in 1 .. n + 1
      BY <1>4
    <3>2. k <= i => Lv(k) <= Up(i)
      <4>1. i \in 1 .. n + 1
        BY <1>1
      <4>. QED
        BY <2>2, <3>1, <4>1
    <3>. HIDE DEF Up, Lv
    <3>. QED
      BY <1>6, <2>2, <3>1, <3>2
  <2>. QED
    BY <2>1, <2>2
<1>8. \A k \in Levels(st, n), i \in Ctx(st, n), x \in Names :
        Free(st, n, d, e2, k, i, x) => Free(st, n + 1, d, e, Lv(k), Up(i), x)
  <2>. HIDE DEF Up, Lv
  <2>. QED
    BY <1>2, <1>4, <1>7 DEF Free
<1>9. \A k \in Levels(st, n), x \in Names :
        Hides(st, n, e2, s2, k, x) <=> Hides(st, n + 1, e, s, Lv(k), x)
  BY <1>4 DEF Hides
<1>. QED
  BY <1>1, <1>2, <1>3, <1>4, <1>6, <1>7, <1>8, <1>9 DEF PopView

\* A frame returns, what it introduced being spent: the walk is good below it.
LEMMA GoodPop ==
  ASSUME NEW st, NEW n \in Nat, NEW d, NEW e, NEW s, NEW R, NEW nx, NEW e2, NEW s2,
         Good(st, n + 1, d, e, s, R, nx),
         Leaves(st[n + 1], d, e, s, e2, s2)
  PROVE  Good(st, n, d, e2, s2, R, nx)
<1>. DEFINE Up(i) == IF i = n + 1 THEN n + 2 ELSE i
            Lv(k) == IF k = n + 1 /\ st[n + 1].at \notin Scoped THEN n + 2 ELSE k
<1>0. PopView(st, n, d, e, s, e2, s2)
  BY LeftView
<1>1. \A i \in Ctx(st, n) :
        /\ i \in 1 .. n + 1 /\ Up(i) \in Ctx(st, n + 1)
        /\ DeltaAt(st, n, d, i) = DeltaAt(st, n + 1, d, Up(i))
        /\ \A x \in Names : Has(st, n, d, i, x) <=> Has(st, n + 1, d, Up(i), x)
        /\ \A x \in Names : Bound(st, n, d, i, x) = Bound(st, n + 1, d, Up(i), x)
  BY <1>0 DEF PopView
<1>2. \A j \in Ctx(st, n + 1) : \E i \in Ctx(st, n) : j = Up(i)
  BY <1>0 DEF PopView
<1>3. \A k \in Levels(st, n) :
        /\ k \in 1 .. n + 1 /\ Lv(k) \in Levels(st, n + 1)
        /\ EnvAt(st, n, e2, k) = EnvAt(st, n + 1, e, Lv(k))
        /\ ScopeAt(st, n, s2, k) = ScopeAt(st, n + 1, s, Lv(k))
  BY <1>0 DEF PopView
<1>4. \A m \in 1 .. n + 1, i \in Ctx(st, n) :
        /\ Inside(st, m, i) <=> Inside(st, m, Up(i))
        /\ \A x : Has(st, n, d, i, x) => (Fresh(st, m, i, x) <=> Fresh(st, m, Up(i), x))
  BY <1>0 DEF PopView
<1>5. \A k \in Levels(st, n), i \in Ctx(st, n) : Inside(st, k, i) <=> Inside(st, Lv(k), Up(i))
  BY <1>0 DEF PopView
<1>6. \A k \in Levels(st, n), i \in Ctx(st, n), x \in Names :
        Free(st, n, d, e2, k, i, x) => Free(st, n + 1, d, e, Lv(k), Up(i), x)
  BY <1>0 DEF PopView
<1>7. \A k \in Levels(st, n), x \in Names :
        Hides(st, n, e2, s2, k, x) <=> Hides(st, n + 1, e, s, Lv(k), x)
  BY <1>0 DEF PopView
<1>8. Older(st, n, d, s2, nx)
  <2>1. ASSUME NEW i \in Ctx(st, n), NEW x \in Names, Has(st, n, d, i, x)
        PROVE  Bound(st, n, d, i, x) \in 1 .. (IF i = n + 1 THEN nx ELSE st[i].binding) - 1
    <3>1. \A j \in Ctx(st, n + 1) : Has(st, n + 1, d, j, x) =>
            Bound(st, n + 1, d, j, x) \in 1 .. (IF j = n + 2 THEN nx ELSE st[j].binding) - 1
      BY DEF Good, Older
    <3>2. /\ Up(i) \in Ctx(st, n + 1) /\ Has(st, n + 1, d, Up(i), x)
          /\ Bound(st, n, d, i, x) = Bound(st, n + 1, d, Up(i), x)
      BY <1>1, <2>1
    <3>3. Bound(st, n, d, i, x) \in 1 .. (IF Up(i) = n + 2 THEN nx ELSE st[Up(i)].binding) - 1
      BY <3>1, <3>2
    <3>4. i \in 1 .. n + 1
      BY <1>1
    <3>. QED
      BY <3>3, <3>4
  <2>2. ASSUME NEW k \in Levels(st, n), NEW x \in Names
        PROVE  /\ ScopeAt(st, n, s2, k)[x] \in 0 .. nx - 1
               /\ k <= n /\ st[k].at = "lambda" => ScopeAt(st, n, s2, k)[x] < st[k].binding
    <3>1. k <= n => Lv(k) = k
      BY <1>3
    <3>. QED
      BY <1>3, <3>1 DEF Good, Older
  <2>3. \A k \in 1 .. n : st[k].at = "lambda" => st[k].binding \in 1 .. nx - 1
    BY DEF Good, Older
  <2>. QED
    BY <2>1, <2>2, <2>3 DEF Older
<1>9. Distinct(st, n, d)
  <2>. SUFFICES ASSUME NEW i \in Ctx(st, n), NEW j \in Ctx(st, n), NEW x \in Names, NEW y \in Names,
                       Has(st, n, d, i, x), Has(st, n, d, j, y),
                       Bound(st, n, d, i, x) = Bound(st, n, d, j, y)
                PROVE  i = j /\ x = y
    BY DEF Distinct
  <2>1. Up(i) = Up(j) /\ x = y
    BY <1>1 DEF Good, Distinct
  <2>. QED
    BY <1>1, <2>1
<1>10. Owned(st, n, d)
  <2>. SUFFICES ASSUME NEW i \in Ctx(st, n), NEW x \in Names
                PROVE  /\ Has(st, n, d, i, x) =>
                            \E m \in 1 .. i - 1 : Inside(st, m + 1, i) /\ x \in Intro(st[m])
                       /\ \A m \in 1 .. i - 1 :
                            Inside(st, m + 1, i) /\ x \in Intro(st[m]) =>
                              DeltaAt(st, n, d, i)[x].state # "unknown"
    BY DEF Owned
  <2>1. ASSUME Has(st, n, d, i, x)
        PROVE  \E m \in 1 .. i - 1 : Inside(st, m + 1, i) /\ x \in Intro(st[m])
    <3>1. Up(i) \in Ctx(st, n + 1) /\ Has(st, n + 1, d, Up(i), x)
      BY <1>1, <2>1
    <3>2. PICK m \in 1 .. Up(i) - 1 : Inside(st, m + 1, Up(i)) /\ x \in Intro(st[m])
      BY <3>1 DEF Good, Owned
    <3>3. m # n + 1
      <4>1. m = n + 1 => i = n + 1
        BY <1>1, <3>2
      <4>2. i = n + 1 => Available(d, x)
        BY <2>1 DEF Has, DeltaAt
      <4>. QED
        BY <3>2, <4>1, <4>2 DEF Leaves
    <3>4. m \in 1 .. i - 1 /\ m + 1 \in 1 .. n + 1
      BY <1>1, <3>2, <3>3
    <3>. QED
      BY <1>4, <3>2, <3>4
  <2>2. ASSUME NEW m \in 1 .. i - 1, Inside(st, m + 1, i), x \in Intro(st[m])
        PROVE  DeltaAt(st, n, d, i)[x].state # "unknown"
    <3>1. m \in 1 .. Up(i) - 1 /\ m + 1 \in 1 .. n + 1 /\ Up(i) \in Ctx(st, n + 1)
      BY <1>1, <2>2
    <3>2. Inside(st, m + 1, Up(i))
      BY <1>4, <2>2, <3>1
    <3>. QED
      BY <1>1, <2>2, <3>1, <3>2 DEF Good, Owned
  <2>. QED
    BY <2>1, <2>2
<1>11. Nested(st, n, e2, s2)
  <2>. SUFFICES ASSUME NEW k \in Levels(st, n), NEW l \in Levels(st, n), NEW x \in Names,
                       k <= l, EnvAt(st, n, e2, l)[x] = None
                PROVE  /\ EnvAt(st, n, e2, k)[x] = None
                       /\ ScopeAt(st, n, s2, k)[x] # 0 => ScopeAt(st, n, s2, l)[x] # 0
                       /\ Fresh(st, k, l, x) =>
                            ScopeAt(st, n, s2, l)[x] = ScopeAt(st, n, s2, k)[x]
    BY DEF Nested
  <2>0. k \in 1 .. n + 1 /\ l \in 1 .. n + 1
    BY <1>3
  <2>1. Lv(k) <= Lv(l)
    BY <2>0
  <2>2. Fresh(st, k, l, x) => Fresh(st, Lv(k), Lv(l), x)
    <3>1. CASE l = n + 1 /\ st[n + 1].at \notin Scoped /\ k # n + 1
      <4>1. Lv(k) .. Lv(l) - 1 = (k .. l - 1) \cup {n + 1}
        BY <1>3, <3>1
      <4>2. x \notin Intro(st[n + 1])
        BY <3>1 DEF Scoped, Intro, Leaves
      <4>. QED
        BY <4>1, <4>2 DEF Fresh
    <3>2. CASE l = n + 1 /\ st[n + 1].at \notin Scoped /\ k = n + 1
      BY <3>2 DEF Fresh
    <3>3. CASE Lv(l) = l
      BY <1>3, <3>3
    <3>. QED
      BY <3>1, <3>2, <3>3
  <2>. HIDE DEF Lv
  <2>. QED
    BY <1>3, <2>1, <2>2 DEF Good, Nested
<1>12. Denoted(st, n, d, e2, s2, R)
  <2>. HIDE DEF Lv, Up
  <2>1. ASSUME NEW k \in Levels(st, n), NEW i \in Ctx(st, n), NEW x \in Names,
               Free(st, n, d, e2, k, i, x)
        PROVE  /\ ScopeAt(st, n, s2, k)[x] = Bound(st, n, d, i, x)
               /\ \A r \in R : r[Bound(st, n, d, i, x)] = "unused"
    BY <1>1, <1>3, <1>6, <2>1 DEF Good, Denoted
  <2>2. ASSUME NEW k \in Levels(st, n), NEW x \in Names, Hides(st, n, e2, s2, k, x)
        PROVE  \E i \in Ctx(st, n) :
                 /\ Inside(st, k, i) /\ Has(st, n, d, i, x)
                 /\ Bound(st, n, d, i, x) = ScopeAt(st, n, s2, k)[x]
    <3>1. PICK j \in Ctx(st, n + 1) :
                 /\ Inside(st, Lv(k), j) /\ Has(st, n + 1, d, j, x)
                 /\ Bound(st, n + 1, d, j, x) = ScopeAt(st, n + 1, s, Lv(k))[x]
      BY <1>3, <1>7, <2>2 DEF Good, Denoted
    <3>2. PICK i \in Ctx(st, n) : j = Up(i)
      BY <1>2
    <3>. QED
      BY <1>1, <1>3, <1>5, <3>1, <3>2
  <2>3. ASSUME NEW k \in Levels(st, n), NEW x \in Names, Hides(st, n, e2, s2, k, x),
               NEW l \in Levels(st, n), NEW i \in Ctx(st, n), NEW y \in Names,
               Free(st, n, d, e2, l, i, y)
        PROVE  Bound(st, n, d, i, y) # ScopeAt(st, n, s2, k)[x]
    <3>1. Hides(st, n + 1, e, s, Lv(k), x) /\ Free(st, n + 1, d, e, Lv(l), Up(i), y)
      BY <1>6, <1>7, <2>3
    <3>. QED
      BY <1>1, <1>3, <3>1 DEF Good, Denoted
  <2>. QED
    BY <2>1, <2>2, <2>3 DEF Denoted
<1>13. Named(st, n, d, s2)
  <2>. HIDE DEF Lv, Up
  <2>. QED
    BY <1>1, <1>3 DEF Good, Named
<1>14. Kept(st, n, d, R)
  <2>. HIDE DEF Lv, Up
  <2>1. ASSUME NEW r \in R, NEW b \in Bindings, r[b] \in {"unused", "wrong"}
        PROVE  \E i \in Ctx(st, n), x \in Names : Has(st, n, d, i, x) /\ Bound(st, n, d, i, x) = b
    <3>1. PICK j \in Ctx(st, n + 1), x \in Names :
                 Has(st, n + 1, d, j, x) /\ Bound(st, n + 1, d, j, x) = b
      BY <2>1 DEF Good, Kept
    <3>. QED
      BY <1>1, <1>2, <3>1
  <2>2. \A r \in R, i \in Ctx(st, n), x \in Names :
          Has(st, n, d, i, x) => r[Bound(st, n, d, i, x)] # "absent"
    BY <1>1 DEF Good, Kept
  <2>. QED
    BY <2>1, <2>2 DEF Kept
<1>15. Branches(st, n, d, R)
  <2>. SUFFICES ASSUME NEW m \in 1 .. n, st[m].at = "arm"
                PROVE  /\ \A i \in Ctx(st, n), x \in Names :
                            m <= i /\ Inside(st, m, i) /\ Fresh(st, m, i, x) /\ Has(st, n, d, i, x) =>
                              DeltaAt(st, n, d, i)[x] = st[m].delta[x]
                       /\ \A x \in Names : Available(st[m].delta, x) =>
                            /\ st[m].delta[x].binding \in Bindings
                            /\ \A r \in R : r[st[m].delta[x].binding] # "absent"
    BY DEF Branches
  <2>1. ASSUME NEW i \in Ctx(st, n), NEW x \in Names,
               m <= i, Inside(st, m, i), Fresh(st, m, i, x), Has(st, n, d, i, x)
        PROVE  DeltaAt(st, n, d, i)[x] = st[m].delta[x]
    <3>1. /\ Up(i) \in Ctx(st, n + 1) /\ m <= Up(i)
          /\ Inside(st, m, Up(i)) /\ Fresh(st, m, Up(i), x) /\ Has(st, n + 1, d, Up(i), x)
      BY <1>1, <1>4, <2>1
    <3>2. DeltaAt(st, n + 1, d, Up(i))[x] = st[m].delta[x]
      BY <3>1 DEF Good, Branches
    <3>. QED
      BY <1>1, <3>2
  <2>2. m \in 1 .. n + 1
    OBVIOUS
  <2>. QED
    BY <2>1, <2>2 DEF Good, Branches
<1>. QED
  BY <1>8, <1>9, <1>10, <1>11, <1>12, <1>13, <1>14, <1>15 DEF Good

\* A lambda is left: all that its body had is spent.
LEMMA GoodClose ==
  ASSUME NEW st, NEW n \in Nat, NEW d, NEW e, NEW s, NEW R, NEW nx \in Nat,
         Good(st, n + 1, d, e, s, R, nx),
         st[n + 1].at = "lambda", \A x \in Intro(st[n + 1]) : ~Available(d, x)
  PROVE  Good(st, n, st[n + 1].delta, st[n + 1].env, st[n + 1].scope, R, nx)
<1>. DEFINE d2 == st[n + 1].delta
            e2 == st[n + 1].env
            s2 == st[n + 1].scope
<1>1. ASSUME NEW x \in Names, Has(st, n + 1, d, n + 2, x) PROVE FALSE
  <2>1. n + 2 \in Ctx(st, n + 1) /\ Available(d, x)
    BY <1>1 DEF Has, DeltaAt
  <2>2. PICK m \in 1 .. n + 1 : Inside(st, m + 1, n + 2) /\ x \in Intro(st[m])
    BY <1>1, <2>1 DEF Good, Owned
  <2>3. m = n + 1
    BY <2>2 DEF Inside
  <2>. QED
    BY <2>1, <2>2, <2>3
<1>2. \A i \in Ctx(st, n) :
        /\ i \in 1 .. n + 1 /\ i \in Ctx(st, n + 1)
        /\ DeltaAt(st, n, d2, i) = DeltaAt(st, n + 1, d, i)
        /\ i # n + 1 => st[i].at = "lambda"
  BY DEF Ctx, DeltaAt
<1>3. \A k \in Levels(st, n) :
        /\ k \in 1 .. n + 1 /\ k \in Levels(st, n + 1)
        /\ EnvAt(st, n, e2, k) = EnvAt(st, n + 1, e, k)
        /\ ScopeAt(st, n, s2, k) = ScopeAt(st, n + 1, s, k)
  BY DEF Levels, EnvAt, ScopeAt, Scoped
<1>4. \A i \in Ctx(st, n), x \in Names :
        /\ Has(st, n, d2, i, x) <=> Has(st, n + 1, d, i, x)
        /\ Bound(st, n, d2, i, x) = Bound(st, n + 1, d, i, x)
  BY <1>2 DEF Has, Bound
<1>5. \A i \in Ctx(st, n + 1), x \in Names : Has(st, n + 1, d, i, x) => i \in Ctx(st, n)
  BY <1>1 DEF Ctx
<1>6. \A k \in Levels(st, n), i \in Ctx(st, n), x \in Names :
        Free(st, n, d2, e2, k, i, x) => Free(st, n + 1, d, e, k, i, x)
  BY <1>3, <1>4 DEF Free
<1>7. \A k \in Levels(st, n), x \in Names :
        Hides(st, n, e2, s2, k, x) => Hides(st, n + 1, e, s, k, x)
  BY <1>3 DEF Hides
<1>8. Older(st, n, d2, s2, nx)
  <2>0. st[n + 1].binding \in 1 .. nx - 1
    BY DEF Good, Older
  <2>1. ASSUME NEW i \in Ctx(st, n), NEW x \in Names, Has(st, n, d2, i, x)
        PROVE  Bound(st, n, d2, i, x) \in 1 .. (IF i = n + 1 THEN nx ELSE st[i].binding) - 1
    <3>1. \A j \in Ctx(st, n + 1) : Has(st, n + 1, d, j, x) =>
            Bound(st, n + 1, d, j, x) \in 1 .. (IF j = n + 2 THEN nx ELSE st[j].binding) - 1
      BY DEF Good, Older
    <3>2. Bound(st, n, d2, i, x) \in 1 .. st[i].binding - 1
      BY <1>2, <1>4, <2>1, <3>1
    <3>. QED
      BY <2>0, <3>2
  <2>2. \A k \in Levels(st, n), x \in Names :
          /\ ScopeAt(st, n, s2, k)[x] \in 0 .. nx - 1
          /\ k <= n /\ st[k].at = "lambda" => ScopeAt(st, n, s2, k)[x] < st[k].binding
    BY <1>3 DEF Good, Older
  <2>3. \A k \in 1 .. n : st[k].at = "lambda" => st[k].binding \in 1 .. nx - 1
    BY DEF Good, Older
  <2>. QED
    BY <2>1, <2>2, <2>3 DEF Older
<1>. HIDE DEF d2, e2, s2
<1>9. Distinct(st, n, d2)
  BY <1>2, <1>4 DEF Good, Distinct
<1>10. Owned(st, n, d2)
  BY <1>2, <1>4 DEF Good, Owned
<1>11. Nested(st, n, e2, s2)
  BY <1>3 DEF Good, Nested
<1>12. Denoted(st, n, d2, e2, s2, R)
  <2>1. ASSUME NEW k \in Levels(st, n), NEW i \in Ctx(st, n), NEW x \in Names,
               Free(st, n, d2, e2, k, i, x)
        PROVE  /\ ScopeAt(st, n, s2, k)[x] = Bound(st, n, d2, i, x)
               /\ \A r \in R : r[Bound(st, n, d2, i, x)] = "unused"
    BY <1>2, <1>3, <1>4, <1>6, <2>1 DEF Good, Denoted
  <2>2. ASSUME NEW k \in Levels(st, n), NEW x \in Names, Hides(st, n, e2, s2, k, x)
        PROVE  \E i \in Ctx(st, n) :
                 /\ Inside(st, k, i) /\ Has(st, n, d2, i, x)
                 /\ Bound(st, n, d2, i, x) = ScopeAt(st, n, s2, k)[x]
    <3>1. PICK i \in Ctx(st, n + 1) :
                 /\ Inside(st, k, i) /\ Has(st, n + 1, d, i, x)
                 /\ Bound(st, n + 1, d, i, x) = ScopeAt(st, n + 1, s, k)[x]
      BY <1>3, <1>7, <2>2 DEF Good, Denoted
    <3>. QED
      BY <1>3, <1>4, <1>5, <3>1
  <2>3. ASSUME NEW k \in Levels(st, n), NEW x \in Names, Hides(st, n, e2, s2, k, x),
               NEW l \in Levels(st, n), NEW i \in Ctx(st, n), NEW y \in Names,
               Free(st, n, d2, e2, l, i, y)
        PROVE  Bound(st, n, d2, i, y) # ScopeAt(st, n, s2, k)[x]
    BY <1>2, <1>3, <1>4, <1>6, <1>7, <2>3 DEF Good, Denoted
  <2>. QED
    BY <2>1, <2>2, <2>3 DEF Denoted
<1>13. Named(st, n, d2, s2)
  BY <1>2, <1>3, <1>4 DEF Good, Named
<1>14. Kept(st, n, d2, R)
  <2>1. ASSUME NEW r \in R, NEW b \in Bindings, r[b] \in {"unused", "wrong"}
        PROVE  \E i \in Ctx(st, n), x \in Names : Has(st, n, d2, i, x) /\ Bound(st, n, d2, i, x) = b
    <3>1. PICK i \in Ctx(st, n + 1), x \in Names :
                 Has(st, n + 1, d, i, x) /\ Bound(st, n + 1, d, i, x) = b
      BY <2>1 DEF Good, Kept
    <3>. QED
      BY <1>4, <1>5, <3>1
  <2>2. \A r \in R, i \in Ctx(st, n), x \in Names :
          Has(st, n, d2, i, x) => r[Bound(st, n, d2, i, x)] # "absent"
    BY <1>2, <1>4 DEF Good, Kept
  <2>. QED
    BY <2>1, <2>2 DEF Kept
<1>15. Branches(st, n, d2, R)
  <2>1. \A m \in 1 .. n : m \in 1 .. n + 1
    OBVIOUS
  <2>. QED
    BY <1>2, <1>4, <2>1 DEF Good, Branches
<1>. QED
  BY <1>8, <1>9, <1>10, <1>11, <1>12, <1>13, <1>14, <1>15 DEF Good, d2, e2, s2

--------------------------------------------------------------------------------
(* Uses, joins.                                                                *)

\* The runs after a use of the binding b.
Uses(R, R2, b) ==
  \A q \in R2 : \E r \in R : \A c \in Bindings :
    IF c = b THEN q[c] \in {"once", "wrong"} ELSE q[c] = r[c]

\* A name that denotes an available resource denotes what is unused.
FreeUse(st, n, d, s, R, x) ==
  /\ s[x] \in Bindings /\ s[x] = Bound(st, n, d, n + 1, x)
  /\ \A r \in R : r[s[x]] = "unused"

\* FreeUse, where the walk is good.
LEMMA FreeIsUnused ==
  ASSUME NEW st, NEW n \in Nat, NEW d, NEW e, NEW s, NEW R, NEW nx \in 1 .. MaxBindings + 1,
         Good(st, n, d, e, s, R, nx), NEW x \in Names, e[x] = None, Available(d, x)
  PROVE  FreeUse(st, n, d, s, R, x)
<1>1. /\ n + 1 \in Ctx(st, n) /\ n + 1 \in Levels(st, n)
      /\ DeltaAt(st, n, d, n + 1) = d /\ EnvAt(st, n, e, n + 1) = e /\ ScopeAt(st, n, s, n + 1) = s
  BY DEF Ctx, Levels, DeltaAt, EnvAt, ScopeAt
<1>2. Free(st, n, d, e, n + 1, n + 1, x)
  BY <1>1 DEF Free, Inside, Fresh, Has
<1>3. s[x] = Bound(st, n, d, n + 1, x) /\ \A r \in R : r[s[x]] = "unused"
  BY <1>1, <1>2 DEF Good, Denoted
<1>4. s[x] \in Bindings
  <2>1. s[x] \in 1 .. nx - 1
    BY <1>1, <1>2, <1>3 DEF Good, Older, Free
  <2>. QED
    BY <2>1, LinearAssumption DEF Bindings
<1>. QED
  BY <1>3, <1>4 DEF FreeUse

\* A name that denotes an available resource is used: that resource is spent.
Spend(d, x) == [d EXCEPT ![x].state = "consumed"]
Spent(R, R2, b) ==
  \A q \in R2 : \E r \in R : \A c \in Bindings : q[c] = IF c = b THEN "once" ELSE r[c]

\* The walk is good after that use.
LEMMA GoodSpend ==
  ASSUME NEW st, NEW n \in Nat, NEW d \in Deltas, NEW e, NEW s, NEW R,
         NEW nx \in 1 .. MaxBindings + 1,
         Good(st, n, d, e, s, R, nx), NEW x \in Names, e[x] = None, Available(d, x),
         NEW R2, Spent(R, R2, s[x])
  PROVE  Good(st, n, Spend(d, x), e, s, R2, nx)
<1>. DEFINE d2 == [d EXCEPT ![x].state = "consumed"]
            b == s[x]
<1>0. \A q \in R2 : \E r \in R : \A c \in Bindings : q[c] = IF c = s[x] THEN "once" ELSE r[c]
  BY DEF Spent
<1>1. /\ n + 1 \in Ctx(st, n) /\ n + 1 \in Levels(st, n)
      /\ DeltaAt(st, n, d, n + 1) = d /\ EnvAt(st, n, e, n + 1) = e /\ ScopeAt(st, n, s, n + 1) = s
      /\ DeltaAt(st, n, d2, n + 1) = d2
  BY DEF Ctx, Levels, DeltaAt, EnvAt, ScopeAt
<1>2. Free(st, n, d, e, n + 1, n + 1, x)
  BY <1>1 DEF Free, Inside, Fresh, Has
<1>3. FreeUse(st, n, d, s, R, x)
  BY FreeIsUnused
<1>4. b = Bound(st, n, d, n + 1, x) /\ b \in Bindings /\ \A r \in R : r[b] = "unused"
  BY <1>3 DEF FreeUse
<1>5. /\ d2 \in Deltas /\ d2[x].state = "consumed"
      /\ \A y \in Names : y # x => d2[y] = d[y]
  BY DEF Deltas, Entries, States
<1>6. \A i \in Ctx(st, n), y \in Names : Has(st, n, d2, i, y) =>
        /\ Has(st, n, d, i, y) /\ ~(i = n + 1 /\ y = x)
        /\ DeltaAt(st, n, d2, i)[y] = DeltaAt(st, n, d, i)[y]
  BY <1>5 DEF Has, DeltaAt, Available
<1>7. \A i \in Ctx(st, n), y \in Names : Has(st, n, d, i, y) /\ ~(i = n + 1 /\ y = x) =>
        /\ Has(st, n, d2, i, y) /\ Bound(st, n, d2, i, y) = Bound(st, n, d, i, y)
  BY <1>5 DEF Has, DeltaAt, Available, Bound
<1>8. \A i \in Ctx(st, n), y \in Names : Has(st, n, d2, i, y) =>
        Bound(st, n, d2, i, y) = Bound(st, n, d, i, y) /\ Bound(st, n, d, i, y) # b
  <2>. SUFFICES ASSUME NEW i \in Ctx(st, n), NEW y \in Names, Has(st, n, d2, i, y)
                PROVE  Bound(st, n, d2, i, y) = Bound(st, n, d, i, y) /\ Bound(st, n, d, i, y) # b
    OBVIOUS
  <2>1. Has(st, n, d, i, y) /\ ~(i = n + 1 /\ y = x)
    BY <1>6
  <2>2. Has(st, n, d, n + 1, x)
    BY <1>2 DEF Free
  <2>3. Bound(st, n, d, i, y) # Bound(st, n, d, n + 1, x)
    BY <1>1, <2>1, <2>2 DEF Good, Distinct
  <2>. QED
    BY <1>4, <1>6, <2>3 DEF Bound
<1>. HIDE DEF d2, b
<1>9. \A k \in Levels(st, n), i \in Ctx(st, n), y \in Names :
        Free(st, n, d2, e, k, i, y) => Free(st, n, d, e, k, i, y) /\ Has(st, n, d2, i, y)
  BY <1>6 DEF Free
<1>10. Older(st, n, d2, s, nx)
  BY <1>6, <1>8 DEF Good, Older
<1>11. Distinct(st, n, d2)
  BY <1>6, <1>8 DEF Good, Distinct
<1>12. Owned(st, n, d2)
  <2>1. \A i \in Ctx(st, n), y \in Names :
          DeltaAt(st, n, d, i)[y].state # "unknown" => DeltaAt(st, n, d2, i)[y].state # "unknown"
    BY <1>5 DEF DeltaAt
  <2>. QED
    BY <1>6, <2>1 DEF Good, Owned
<1>13. Denoted(st, n, d2, e, s, R2)
  <2>1. ASSUME NEW k \in Levels(st, n), NEW i \in Ctx(st, n), NEW y \in Names,
               Free(st, n, d2, e, k, i, y)
        PROVE  /\ ScopeAt(st, n, s, k)[y] = Bound(st, n, d2, i, y)
               /\ \A q \in R2 : q[Bound(st, n, d2, i, y)] = "unused"
    <3>1. Free(st, n, d, e, k, i, y) /\ Has(st, n, d2, i, y) /\ Has(st, n, d, i, y)
      BY <1>6, <1>9, <2>1
    <3>2. /\ ScopeAt(st, n, s, k)[y] = Bound(st, n, d, i, y)
          /\ \A r \in R : r[Bound(st, n, d, i, y)] = "unused"
      BY <3>1 DEF Good, Denoted
    <3>3. Bound(st, n, d, i, y) \in Bindings
      <4>1. Bound(st, n, d, i, y) \in 1 .. nx - 1
        <5>1. Bound(st, n, d, i, y) \in 1 .. (IF i = n + 1 THEN nx ELSE st[i].binding) - 1
          BY <3>1 DEF Good, Older
        <5>2. i # n + 1 => st[i].binding \in 1 .. nx - 1
          BY DEF Good, Older, Ctx
        <5>. QED
          BY <5>1, <5>2
      <4>. QED
        BY <4>1, LinearAssumption DEF Bindings
    <3>. QED
      BY <1>0, <1>8, <3>1, <3>2, <3>3 DEF b
  <2>2. ASSUME NEW k \in Levels(st, n), NEW y \in Names, Hides(st, n, e, s, k, y)
        PROVE  \E i \in Ctx(st, n) :
                 /\ Inside(st, k, i) /\ Has(st, n, d2, i, y)
                 /\ Bound(st, n, d2, i, y) = ScopeAt(st, n, s, k)[y]
    <3>1. PICK i \in Ctx(st, n) :
                 /\ Inside(st, k, i) /\ Has(st, n, d, i, y)
                 /\ Bound(st, n, d, i, y) = ScopeAt(st, n, s, k)[y]
      BY <2>2 DEF Good, Denoted
    <3>2. ~(i = n + 1 /\ y = x)
      <4>1. k <= n + 1
        BY DEF Levels
      <4>2. EnvAt(st, n, e, k)[x] = None
        BY <1>1, <4>1 DEF Good, Nested
      <4>. QED
        BY <2>2, <4>2 DEF Hides
    <3>. QED
      BY <1>7, <3>1, <3>2
  <2>3. ASSUME NEW k \in Levels(st, n), NEW y \in Names, Hides(st, n, e, s, k, y),
               NEW l \in Levels(st, n), NEW i \in Ctx(st, n), NEW z \in Names,
               Free(st, n, d2, e, l, i, z)
        PROVE  Bound(st, n, d2, i, z) # ScopeAt(st, n, s, k)[y]
    BY <1>8, <1>9, <2>3 DEF Good, Denoted
  <2>. QED
    BY <2>1, <2>2, <2>3 DEF Denoted
<1>14. Named(st, n, d2, s)
  BY <1>6, <1>8 DEF Good, Named
<1>15. Kept(st, n, d2, R2)
  <2>1. ASSUME NEW q \in R2, NEW c \in Bindings, q[c] \in {"unused", "wrong"}
        PROVE  \E i \in Ctx(st, n), y \in Names : Has(st, n, d2, i, y) /\ Bound(st, n, d2, i, y) = c
    <3>1. c # b /\ \E r \in R : q[c] = r[c]
      BY <1>0, <2>1 DEF b
    <3>2. PICK i \in Ctx(st, n), y \in Names : Has(st, n, d, i, y) /\ Bound(st, n, d, i, y) = c
      BY <2>1, <3>1 DEF Good, Kept
    <3>. QED
      BY <1>4, <1>7, <3>1, <3>2
  <2>2. ASSUME NEW q \in R2, NEW i \in Ctx(st, n), NEW y \in Names, Has(st, n, d2, i, y)
        PROVE  q[Bound(st, n, d2, i, y)] # "absent"
    <3>0. Has(st, n, d, i, y)
      BY <1>6, <2>2
    <3>1. Bound(st, n, d, i, y) \in Bindings
      <4>1. Bound(st, n, d, i, y) \in 1 .. nx - 1
        <5>1. Bound(st, n, d, i, y) \in 1 .. (IF i = n + 1 THEN nx ELSE st[i].binding) - 1
          BY <3>0 DEF Good, Older
        <5>2. i # n + 1 => st[i].binding \in 1 .. nx - 1
          BY DEF Good, Older, Ctx
        <5>. QED
          BY <5>1, <5>2
      <4>. QED
        BY <4>1, LinearAssumption DEF Bindings
    <3>2. \A r \in R : r[Bound(st, n, d, i, y)] # "absent"
      BY <3>0 DEF Good, Kept
    <3>. QED
      BY <1>0, <1>8, <2>2, <3>1, <3>2 DEF b
  <2>. QED
    BY <2>1, <2>2 DEF Kept
<1>16. Branches(st, n, d2, R2)
  <2>1. \A q \in R2 : \A c \in Bindings : q[c] = "once" \/ \E r \in R : q[c] = r[c]
    BY <1>0 DEF b
  <2>2. \A m \in 1 .. n : st[m].at = "arm" =>
          \A y \in Names : Available(st[m].delta, y) =>
            /\ st[m].delta[y].binding \in Bindings
            /\ \A q \in R2 : q[st[m].delta[y].binding] # "absent"
    BY <2>1 DEF Good, Branches
  <2>3. \A m \in 1 .. n : st[m].at = "arm" =>
          \A i \in Ctx(st, n), y \in Names :
            m <= i /\ Inside(st, m, i) /\ Fresh(st, m, i, y) /\ Has(st, n, d2, i, y) =>
              DeltaAt(st, n, d2, i)[y] = st[m].delta[y]
    BY <1>6 DEF Good, Branches
  <2>. QED
    BY <2>2, <2>3 DEF Branches
<1>17. Good(st, n, d2, e, s, R2, nx)
  BY <1>10, <1>11, <1>12, <1>13, <1>14, <1>15, <1>16 DEF Good
<1>. QED
  BY <1>17 DEF d2, Spend

\* A classical name is used where it hides a resource: that resource stays available.
LEMMA GoodMisuse ==
  ASSUME NEW st, NEW n \in Nat, NEW d, NEW e, NEW s, NEW R, NEW nx \in 1 .. MaxBindings + 1,
         Good(st, n, d, e, s, R, nx),
         NEW x \in Names, e[x] # None, s[x] # 0, NEW R2, Uses(R, R2, s[x])
  PROVE  Good(st, n, d, e, s, R2, nx)
<1>. DEFINE b == s[x]
<1>1. /\ n + 1 \in Ctx(st, n) /\ n + 1 \in Levels(st, n)
      /\ EnvAt(st, n, e, n + 1) = e /\ ScopeAt(st, n, s, n + 1) = s
  BY DEF Ctx, Levels, EnvAt, ScopeAt
<1>2. Hides(st, n, e, s, n + 1, x)
  BY <1>1 DEF Hides
<1>3. \E i \in Ctx(st, n) : Has(st, n, d, i, x) /\ Bound(st, n, d, i, x) = b
  BY <1>1, <1>2 DEF Good, Denoted
<1>4. \A l \in Levels(st, n), i \in Ctx(st, n), y \in Names :
        Free(st, n, d, e, l, i, y) => Bound(st, n, d, i, y) # b
  BY <1>1, <1>2 DEF Good, Denoted
<1>. HIDE DEF b
<1>5. \A i \in Ctx(st, n), y \in Names : Has(st, n, d, i, y) => Bound(st, n, d, i, y) \in Bindings
  <2>. SUFFICES ASSUME NEW i \in Ctx(st, n), NEW y \in Names, Has(st, n, d, i, y)
                PROVE  Bound(st, n, d, i, y) \in 1 .. nx - 1
    BY LinearAssumption DEF Bindings
  <2>1. Bound(st, n, d, i, y) \in 1 .. (IF i = n + 1 THEN nx ELSE st[i].binding) - 1
    BY DEF Good, Older
  <2>2. i # n + 1 => st[i].binding \in 1 .. nx - 1
    BY DEF Good, Older, Ctx
  <2>. QED
    BY <2>1, <2>2
<1>6. \A q \in R2 : \A c \in Bindings :
        (c = b /\ q[c] \in {"once", "wrong"}) \/ (c # b /\ \E r \in R : q[c] = r[c])
  BY DEF Uses, b
<1>7. Denoted(st, n, d, e, s, R2)
  <2>1. \A k \in Levels(st, n), i \in Ctx(st, n), y \in Names :
          Free(st, n, d, e, k, i, y) => \A r \in R2 : r[Bound(st, n, d, i, y)] = "unused"
    <3>. SUFFICES ASSUME NEW k \in Levels(st, n), NEW i \in Ctx(st, n), NEW y \in Names,
                         Free(st, n, d, e, k, i, y), NEW q \in R2
                  PROVE  q[Bound(st, n, d, i, y)] = "unused"
      OBVIOUS
    <3>1. \A r \in R : r[Bound(st, n, d, i, y)] = "unused"
      BY DEF Good, Denoted
    <3>2. Bound(st, n, d, i, y) \in Bindings /\ Bound(st, n, d, i, y) # b
      BY <1>4, <1>5 DEF Free
    <3>. QED
      BY <1>6, <3>1, <3>2
  <2>. QED
    BY <2>1 DEF Good, Denoted
<1>8. Kept(st, n, d, R2)
  <2>1. ASSUME NEW q \in R2, NEW c \in Bindings, q[c] \in {"unused", "wrong"}
        PROVE  \E i \in Ctx(st, n), y \in Names : Has(st, n, d, i, y) /\ Bound(st, n, d, i, y) = c
    BY <1>3, <1>6, <2>1 DEF Good, Kept
  <2>2. \A q \in R2, i \in Ctx(st, n), y \in Names :
          Has(st, n, d, i, y) => q[Bound(st, n, d, i, y)] # "absent"
    BY <1>5, <1>6 DEF Good, Kept
  <2>. QED
    BY <2>1, <2>2 DEF Kept
<1>9. Branches(st, n, d, R2)
  BY <1>6 DEF Good, Branches
<1>. QED
  BY <1>7, <1>8, <1>9 DEF Good

\* Two ways that leave the same resources are joined.
Same(d, d3) ==
  \A x \in Names : /\ Available(d3, x) <=> Available(d, x)
                   /\ Available(d, x) => d3[x] = d[x]
Joins(st, n, d, e, s, R, nx) ==
  \A r \in R : \E d3 : Good(st, n, d3, e, s, {r}, nx) /\ Same(d, d3)

\* Runs that are each good with one context are good together.
LEMMA GoodJoin ==
  ASSUME NEW st, NEW n \in Nat, NEW d, NEW e, NEW s, NEW R, NEW nx,
         Good(st, n, d, e, s, {}, nx),
         Joins(st, n, d, e, s, R, nx)
  PROVE  Good(st, n, d, e, s, R, nx)
<1>1. ASSUME NEW r \in R
      PROVE  /\ Denoted(st, n, d, e, s, {r}) /\ Kept(st, n, d, {r}) /\ Branches(st, n, d, {r})
  <2>0. PICK d3 : Good(st, n, d3, e, s, {r}, nx) /\ Same(d, d3)
    BY <1>1 DEF Joins
  <2>1. /\ Good(st, n, d3, e, s, {r}, nx)
        /\ \A x \in Names : Available(d3, x) <=> Available(d, x)
        /\ \A x \in Names : Available(d, x) => d3[x] = d[x]
    BY <2>0 DEF Same
  <2>2. \A i \in Ctx(st, n), x \in Names :
          /\ Has(st, n, d3, i, x) <=> Has(st, n, d, i, x)
          /\ Has(st, n, d, i, x) => DeltaAt(st, n, d3, i)[x] = DeltaAt(st, n, d, i)[x]
    BY <2>1 DEF Has, DeltaAt
  <2>3. \A i \in Ctx(st, n), x \in Names :
          Has(st, n, d, i, x) => Bound(st, n, d3, i, x) = Bound(st, n, d, i, x)
    BY <2>2 DEF Bound
  <2>4. \A k \in Levels(st, n), i \in Ctx(st, n), x \in Names :
          Free(st, n, d, e, k, i, x) => Free(st, n, d3, e, k, i, x) /\ Has(st, n, d, i, x)
    BY <2>2 DEF Free
  <2>5. Denoted(st, n, d, e, s, {r})
    BY <2>1, <2>3, <2>4 DEF Good, Denoted
  <2>6. Kept(st, n, d, {r})
    <3>1. ASSUME NEW b \in Bindings, r[b] \in {"unused", "wrong"}
          PROVE  \E i \in Ctx(st, n), x \in Names : Has(st, n, d, i, x) /\ Bound(st, n, d, i, x) = b
      <4>1. PICK i \in Ctx(st, n), x \in Names : Has(st, n, d3, i, x) /\ Bound(st, n, d3, i, x) = b
        BY <2>1, <3>1 DEF Good, Kept
      <4>. QED
        BY <2>2, <2>3, <4>1
    <3>2. \A i \in Ctx(st, n), x \in Names : Has(st, n, d, i, x) => r[Bound(st, n, d, i, x)] # "absent"
      BY <2>1, <2>2, <2>3 DEF Good, Kept
    <3>. QED
      BY <3>1, <3>2 DEF Kept
  <2>7. Branches(st, n, d, {r})
    BY <2>1, <2>2 DEF Good, Branches
  <2>. QED
    BY <2>5, <2>6, <2>7
<1>2. Denoted(st, n, d, e, s, R)
  <2>1. \A k \in Levels(st, n), i \in Ctx(st, n), x \in Names :
          Free(st, n, d, e, k, i, x) => \A r \in R : r[Bound(st, n, d, i, x)] = "unused"
    <3>. SUFFICES ASSUME NEW k \in Levels(st, n), NEW i \in Ctx(st, n), NEW x \in Names,
                         Free(st, n, d, e, k, i, x), NEW r \in R
                  PROVE  r[Bound(st, n, d, i, x)] = "unused"
      OBVIOUS
    <3>1. Denoted(st, n, d, e, s, {r}) /\ r \in {r}
      BY <1>1
    <3>. QED
      BY <3>1 DEF Denoted
  <2>. QED
    BY <2>1 DEF Good, Denoted
<1>3. Kept(st, n, d, R)
  BY <1>1 DEF Kept
<1>4. Branches(st, n, d, R)
  <2>1. \A m \in 1 .. n : st[m].at = "arm" =>
          \A x \in Names : Available(st[m].delta, x) =>
            /\ st[m].delta[x].binding \in Bindings
            /\ \A r \in R : r[st[m].delta[x].binding] # "absent"
    BY <1>1 DEF Good, Branches
  <2>. QED
    BY <2>1 DEF Good, Branches
<1>. QED
  BY <1>2, <1>3, <1>4 DEF Good

\* The invariant holds of some of the runs, and of later bindings.
LEMMA GoodWeaken ==
  ASSUME NEW st, NEW n \in Nat, NEW d, NEW e, NEW s, NEW R, NEW nx \in Nat,
         Good(st, n, d, e, s, R, nx),
         NEW R2 \in SUBSET R, NEW nx2 \in Nat, nx <= nx2
  PROVE  Good(st, n, d, e, s, R2, nx2)
<1>1. Older(st, n, d, s, nx2)
  <2>1. \A i \in Ctx(st, n), x \in Names : Has(st, n, d, i, x) =>
          Bound(st, n, d, i, x) \in 1 .. (IF i = n + 1 THEN nx2 ELSE st[i].binding) - 1
    BY DEF Good, Older
  <2>2. \A k \in Levels(st, n), x \in Names :
          /\ ScopeAt(st, n, s, k)[x] \in 0 .. nx2 - 1
          /\ k <= n /\ st[k].at = "lambda" => ScopeAt(st, n, s, k)[x] < st[k].binding
    BY DEF Good, Older
  <2>3. \A k \in 1 .. n : st[k].at = "lambda" => st[k].binding \in 1 .. nx2 - 1
    BY DEF Good, Older
  <2>. QED
    BY <2>1, <2>2, <2>3 DEF Older
<1>2. Denoted(st, n, d, e, s, R2) /\ Kept(st, n, d, R2) /\ Branches(st, n, d, R2)
  BY DEF Good, Denoted, Kept, Branches
<1>. QED
  BY <1>1, <1>2 DEF Good

--------------------------------------------------------------------------------
(* The stack.                                                                  *)

\* What a frame keeps.
LEMMA FrameTypes ==
  ASSUME NEW f \in Frames
  PROVE  /\ f.at \in {"function", "rhs", "body", "arm", "lambda", "for", "borrow", "left", "right"}
         /\ f.at \in Scoped => f.env \in Envs /\ f.scope \in Scopes
         /\ Intro(f) \subseteq Names
         /\ f.at \in {"function", "body", "lambda", "borrow"} => f.introduced = Intro(f)
         /\ f.at \in {"rhs", "body"} => f.monad \in BOOLEAN
         /\ f.at = "body" => f.names \in SUBSET Names /\ f.holds \in BOOLEAN
         /\ f.at = "arm" => /\ f.match \in BOOLEAN /\ f.arms \in Nat /\ f.delta \in Deltas
                            /\ f.runs \in SUBSET Runs /\ f.ends \in Seq(Deltas)
                            /\ f.ended \in SUBSET Runs /\ f.result \in Types \cup {None}
         /\ f.at = "lambda" => f.delta \in Deltas /\ f.binding \in Bindings
         /\ f.at = "right" => f.names \in SUBSET Names
<1>1. CASE f \in [at : {"function"}, introduced : SUBSET Names]
  BY <1>1 DEF Intro, Scoped
<1>2. CASE f \in [at : {"rhs"}, monad : BOOLEAN]
  BY <1>2 DEF Intro, Scoped
<1>3. CASE f \in [at : {"body"}, monad : BOOLEAN, introduced : SUBSET Names, env : Envs,
                  scope : Scopes, names : SUBSET Names, holds : BOOLEAN]
  BY <1>3 DEF Intro, Scoped
<1>4. CASE f \in [at : {"arm"}, match : BOOLEAN, arms : Nat, env : Envs, scope : Scopes,
                  delta : Deltas, runs : SUBSET Runs, ends : Seq(Deltas), ended : SUBSET Runs,
                  result : Types \cup {None}]
  BY <1>4 DEF Intro, Scoped
<1>5. CASE f \in [at : {"lambda"}, introduced : SUBSET Names, env : Envs, scope : Scopes,
                  delta : Deltas, binding : Bindings]
  BY <1>5 DEF Intro, Scoped
<1>6. CASE f \in [at : {"for"}, env : Envs, scope : Scopes, binding : Nat \ {0}]
  BY <1>6 DEF Intro, Scoped
<1>7. CASE f \in [at : {"borrow"}, introduced : SUBSET Names, env : Envs, scope : Scopes]
  BY <1>7 DEF Intro, Scoped
<1>8. CASE f \in [at : {"left"}]
  BY <1>8 DEF Intro, Scoped
<1>9. CASE f \in [at : {"right"}, names : SUBSET Names]
  BY <1>9 DEF Intro, Scoped
<1>. QED
  BY <1>1, <1>2, <1>3, <1>4, <1>5, <1>6, <1>7, <1>8, <1>9 DEF Frames

\* Pushing, popping and replacing the innermost frame leave those below.
LEMMA StackTypes ==
  ASSUME stack \in Seq(Frames), stack # <<>>
  PROVE  /\ Len(stack) \in Nat \ {0} /\ DOMAIN stack = 1 .. Len(stack)
         /\ Top = stack[Len(stack)] /\ Top \in Frames
         /\ \A m \in 1 .. Len(stack) : stack[m] \in Frames
         /\ Popped \in Seq(Frames) /\ Len(Popped) = Len(stack) - 1
         /\ \A m \in 1 .. Len(stack) - 1 : Popped[m] = stack[m]
         /\ \A f \in Frames :
              /\ Push(f) \in Seq(Frames) /\ Len(Push(f)) = Len(stack) + 1
              /\ \A m \in 1 .. Len(stack) : Push(f)[m] = stack[m]
              /\ Push(f)[Len(stack) + 1] = f
              /\ Replace(f) \in Seq(Frames) /\ Len(Replace(f)) = Len(stack)
              /\ \A m \in 1 .. Len(stack) - 1 : Replace(f)[m] = stack[m]
              /\ Replace(f)[Len(stack)] = f
<1>1. Len(stack) \in Nat \ {0} /\ DOMAIN stack = 1 .. Len(stack)
  OBVIOUS
<1>2. Top = stack[Len(stack)] /\ Top \in Frames /\ \A m \in 1 .. Len(stack) : stack[m] \in Frames
  BY <1>1 DEF Top
<1>3. /\ Popped \in Seq(Frames) /\ Len(Popped) = Len(stack) - 1
      /\ \A m \in 1 .. Len(stack) - 1 : Popped[m] = stack[m]
  BY <1>1 DEF Popped
<1>4. ASSUME NEW f \in Frames
      PROVE  /\ Push(f) \in Seq(Frames) /\ Len(Push(f)) = Len(stack) + 1
             /\ \A m \in 1 .. Len(stack) : Push(f)[m] = stack[m]
             /\ Push(f)[Len(stack) + 1] = f
  BY <1>1 DEF Push
<1>5. ASSUME NEW f \in Frames
      PROVE  /\ Replace(f) \in Seq(Frames) /\ Len(Replace(f)) = Len(stack)
             /\ \A m \in 1 .. Len(stack) - 1 : Replace(f)[m] = stack[m]
             /\ Replace(f)[Len(stack)] = f
  <2>1. PICK p \in Seq(Frames) : p = Popped
    BY <1>3
  <2>2. /\ Append(p, f) \in Seq(Frames) /\ Len(Append(p, f)) = Len(p) + 1
        /\ \A m \in 1 .. Len(p) : Append(p, f)[m] = p[m]
        /\ Append(p, f)[Len(p) + 1] = f
    OBVIOUS
  <2>3. PICK q : q = Append(p, f)
    OBVIOUS
  <2>4. Replace(f) = q
    BY <2>1, <2>3 DEF Replace
  <2>5. Len(p) = Len(stack) - 1 /\ \A m \in 1 .. Len(stack) - 1 : p[m] = stack[m]
    BY <1>3, <2>1
  <2>6. /\ q \in Seq(Frames) /\ Len(q) = Len(p) + 1
        /\ \A m \in 1 .. Len(p) : q[m] = p[m]
        /\ q[Len(p) + 1] = f
    BY <2>2, <2>3
  <2>7. /\ q \in Seq(Frames) /\ Len(q) = Len(stack)
        /\ \A m \in 1 .. Len(stack) - 1 : q[m] = stack[m]
        /\ q[Len(stack)] = f
    <3>1. Len(p) + 1 = Len(stack)
      BY <1>1, <2>5
    <3>. QED
      BY <2>5, <2>6, <3>1
  <2>. QED
    BY <2>4, <2>7
<1>. QED
  BY <1>1, <1>2, <1>3, <1>4, <1>5

\* The branches below a frame stay what they were.
LEMMA BranchBelow ==
  ASSUME NEW st, NEW st2, NEW m \in Nat \ {0}, \A j \in 1 .. m : st2[j] = st[j],
         NEW nx \in Nat, NEW nx2 \in Nat, nx <= nx2, BranchGood(st, m, nx)
  PROVE  BranchGood(st2, m, nx2)
<1>1. m - 1 \in Nat /\ \A j \in 1 .. m - 1 : st2[j] = st[j]
  OBVIOUS
<1>2. st2[m] = st[m]
  OBVIOUS
<1>3. ASSUME NEW d, NEW R, Good(st, m - 1, d, st[m].env, st[m].scope, R, nx)
      PROVE  Good(st2, m - 1, d, st[m].env, st[m].scope, R, nx2)
  <2>1. Good(st2, m - 1, d, st[m].env, st[m].scope, R, nx)
    BY <1>1, <1>3, GoodBelow
  <2>2. R \in SUBSET R
    OBVIOUS
  <2>. QED
    BY <1>1, <2>1, <2>2, GoodWeaken
<1>4. \A d, r : Ended(st, m, d, r, nx) => Ended(st2, m, d, r, nx2)
  BY <1>2, <1>3 DEF Ended
<1>. QED
  BY <1>2, <1>3, <1>4 DEF BranchGood

\* What a binding or an arm does to the runs.
LEMMA RunTypes ==
  ASSUME runs \subseteq Runs, NEW b, NEW bs
  PROVE  /\ UseOf(b) \subseteq Runs /\ Owed(bs) \subseteq Runs
         /\ runs # {} => UseOf(b) # {} /\ Owed(bs) # {}
<1>1. \A r \in Runs : [r EXCEPT ![b] = AfterUse(r[b], b)] \in Runs
  BY DEF Runs, AfterUse
<1>2. \A r \in Runs : [c \in Bindings |-> IF c \in bs THEN "unused" ELSE r[c]] \in Runs
  BY DEF Runs
<1>. QED
  BY <1>1, <1>2 DEF UseOf, Owed

--------------------------------------------------------------------------------
(* The types of the walk.                                                      *)

\* The types of the stack, and its shape, after each of its operations.
LEMMA PushTypes ==
  ASSUME TypeOK, Shape, NEW f \in Frames, f.at # "function", stack' = Push(f)
  PROVE  stack' \in Seq(Frames) /\ Shape'
<1>1. stack \in Seq(Frames) /\ stack # <<>>
  BY DEF TypeOK, Shape
<1>2. /\ Len(stack) \in Nat \ {0} /\ DOMAIN stack = 1 .. Len(stack)
      /\ stack' \in Seq(Frames) /\ Len(stack') = Len(stack) + 1
      /\ \A m \in 1 .. Len(stack) : stack'[m] = stack[m]
      /\ stack'[Len(stack) + 1] = f
  BY <1>1, StackTypes
<1>3. DOMAIN stack' = 1 .. Len(stack) + 1 /\ stack' # <<>>
  BY <1>2
<1>. QED
  BY <1>2, <1>3 DEF Shape

\* A replaced frame.
LEMMA ReplaceTypes ==
  ASSUME TypeOK, Shape, NEW f \in Frames, Top.at # "function", f.at # "function",
         stack' = Replace(f)
  PROVE  stack' \in Seq(Frames) /\ Shape'
<1>1. stack \in Seq(Frames) /\ stack # <<>>
  BY DEF TypeOK, Shape
<1>2. /\ Len(stack) \in Nat \ {0} /\ DOMAIN stack = 1 .. Len(stack) /\ Top = stack[Len(stack)]
      /\ stack' \in Seq(Frames) /\ Len(stack') = Len(stack)
      /\ \A m \in 1 .. Len(stack) - 1 : stack'[m] = stack[m]
      /\ stack'[Len(stack)] = f
  BY <1>1, StackTypes
<1>3. DOMAIN stack' = 1 .. Len(stack) /\ stack' # <<>>
  BY <1>2
<1>. QED
  BY <1>2, <1>3 DEF Shape

\* A popped frame.
LEMMA PopTypes ==
  ASSUME TypeOK, Shape, Top.at # "function", stack' = Popped
  PROVE  stack' \in Seq(Frames) /\ Shape'
<1>1. stack \in Seq(Frames) /\ stack # <<>>
  BY DEF TypeOK, Shape
<1>2. /\ Len(stack) \in Nat \ {0} /\ DOMAIN stack = 1 .. Len(stack) /\ Top = stack[Len(stack)]
      /\ stack' \in Seq(Frames) /\ Len(stack') = Len(stack) - 1
      /\ \A m \in 1 .. Len(stack) - 1 : stack'[m] = stack[m]
  BY <1>1, StackTypes
<1>3. Len(stack) # 1
  BY <1>2 DEF Shape
<1>4. DOMAIN stack' = 1 .. Len(stack) - 1 /\ stack' # <<>>
  BY <1>2, <1>3
<1>. QED
  BY <1>2, <1>3, <1>4 DEF Shape

\* The slots of a pattern, and the bindings its names get.
PatternView(pat, t) ==
  /\ Len(pat) \in {1, 2} /\ DOMAIN pat = 1 .. Len(pat)
  /\ \A j \in DOMAIN pat : pat[j] \in Names \cup {None}
  /\ Len(pat) = 2 => t.kind = "reg" /\ ~t.monadic
  /\ Introduced(pat, t) \subseteq Names
  /\ Introduced(pat, t) # {} => IsLinear(t)
  /\ \A x \in Introduced(pat, t) :
       /\ \E j \in DOMAIN pat : pat[j] = x /\ BindingOf(pat, x) = next - 1 + j
       /\ BindingOf(pat, x) \in next .. next + Len(pat) - 1
  /\ \A x, y \in Introduced(pat, t) : BindingOf(pat, x) = BindingOf(pat, y) => x = y

\* The patterns of a type are so.
LEMMA PatternTypes ==
  ASSUME next \in Nat, NEW t \in Types, NEW pat \in Patterns(t)
  PROVE  PatternView(pat, t)
<1>1. /\ Len(pat) \in {1, 2} /\ DOMAIN pat = 1 .. Len(pat)
      /\ \A j \in DOMAIN pat : pat[j] \in Names \cup {None}
      /\ Len(pat) = 2 => t.kind = "reg" /\ ~t.monadic
  <2>1. CASE \E x \in Names \cup {None} : pat = <<x>>
    BY <2>1
  <2>2. CASE t.kind = "reg" /\ ~t.monadic /\ \E x, y \in Names \cup {None} : pat = <<x, y>>
    BY <2>2
  <2>. QED
    BY <2>1, <2>2 DEF Patterns
<1>2. Introduced(pat, t) \subseteq Names /\ (Introduced(pat, t) # {} => IsLinear(t))
  BY <1>1 DEF Introduced
<1>3. ASSUME NEW x \in Introduced(pat, t)
      PROVE  /\ \E j \in DOMAIN pat : pat[j] = x /\ BindingOf(pat, x) = next - 1 + j
             /\ BindingOf(pat, x) \in next .. next + Len(pat) - 1
  <2>. DEFINE c == CHOOSE j \in DOMAIN pat : pat[j] = x
  <2>1. \E j \in DOMAIN pat : pat[j] = x
    BY <1>3 DEF Introduced
  <2>2. c \in DOMAIN pat /\ pat[c] = x
    BY <2>1
  <2>3. BindingOf(pat, x) = next - 1 + c
    BY DEF BindingOf
  <2>. HIDE DEF c
  <2>. QED
    BY <1>1, <2>2, <2>3
<1>4. ASSUME NEW x \in Introduced(pat, t), NEW y \in Introduced(pat, t),
             BindingOf(pat, x) = BindingOf(pat, y)
      PROVE  x = y
  <2>1. PICK i \in DOMAIN pat : pat[i] = x /\ BindingOf(pat, x) = next - 1 + i
    BY <1>3
  <2>2. PICK j \in DOMAIN pat : pat[j] = y /\ BindingOf(pat, y) = next - 1 + j
    BY <1>3
  <2>3. i \in Nat /\ j \in Nat
    BY <1>1
  <2>4. next - 1 + i = next - 1 + j
    BY <1>4, <2>1, <2>2
  <2>5. i = j
    BY <2>3, <2>4
  <2>. QED
    BY <2>1, <2>2, <2>5
<1>. QED
  BY <1>1, <1>2, <1>3, <1>4 DEF PatternView

\* The entries the code makes are well typed.
LEMMA EntryTypes ==
  /\ Unknown \in Entries
  /\ \A kind \in Resources, b \in Bindings : Entry(kind, b) \in Entries
  BY DEF Unknown, Entry, Entries, States, Kinds, Resources

\* Binding a pattern keeps the types.
LEMMA BindTypes ==
  ASSUME TypeOK, NEW t \in Types, NEW pat \in Patterns(t), BindPattern(pat, t)
  PROVE  /\ delta' \in Deltas /\ env' \in Envs /\ scope' \in Scopes /\ runs' \subseteq Runs
         /\ next' \in 1 .. MaxBindings + 1 /\ next' = next + Len(pat)
<1>1. PatternView(pat, t)
  BY PatternTypes DEF TypeOK
<1>2. next \in 1 .. MaxBindings + 1 /\ MaxBindings \in Nat
  BY LinearAssumption DEF TypeOK
<1>3. next' \in 1 .. MaxBindings + 1 /\ next' = next + Len(pat)
  BY <1>1, <1>2 DEF BindPattern, PatternView
<1>4. \A x \in Introduced(pat, t) : BindingOf(pat, x) \in Bindings
  BY <1>1, <1>2 DEF BindPattern, PatternView, Bindings
<1>5. runs' \subseteq Runs
  BY RunTypes DEF BindPattern, TypeOK
<1>6. delta' \in Deltas
  <2>1. delta \in Deltas /\ (IsLinear(t) => SlotKind(pat, t) \in Resources)
    BY DEF TypeOK, SlotKind, IsLinear, Types, Resources
  <2>2. \A x \in Introduced(pat, t) :
          IsLinear(t) => Entry(SlotKind(pat, t), BindingOf(pat, x)) \in Entries
    BY <1>4, <2>1, EntryTypes
  <2>. QED
    BY <2>1, <2>2 DEF BindPattern, Deltas
<1>7. env' \in Envs
  BY DEF BindPattern, Envs, TypeOK
<1>8. scope' \in Scopes
  <2>1. next \in Bindings
    BY <1>1, <1>2 DEF BindPattern, PatternView, Bindings
  <2>. QED
    BY <1>4, <2>1 DEF BindPattern, Scopes, TypeOK
<1>. QED
  BY <1>3, <1>5, <1>6, <1>7, <1>8

\* The first slot that is refused.
LEMMA FirstBadSlot ==
  ASSUME NEW t \in Types, NEW pat, PatternView(pat, t), BadSlots(pat, t) # {}
  PROVE  LET j == CHOOSE i \in BadSlots(pat, t) : \A k \in BadSlots(pat, t) : i <= k
         IN j \in BadSlots(pat, t) /\ pat[j] \in Names \cup {None}
<1>1. BadSlots(pat, t) \subseteq {1, 2} /\ \A j \in BadSlots(pat, t) : pat[j] \in Names \cup {None}
  BY DEF PatternView, BadSlots
<1>2. \E i \in BadSlots(pat, t) : \A k \in BadSlots(pat, t) : i <= k
  <2>1. CASE 1 \in BadSlots(pat, t)
    BY <1>1, <2>1
  <2>2. CASE 1 \notin BadSlots(pat, t)
    BY <1>1, <2>2
  <2>. QED
    BY <2>1, <2>2
<1>. QED
  BY <1>1, <1>2

\* The types at the start.
LEMMA InitTypes ==
  ASSUME Init
  PROVE  TypeOK /\ Shape
<1>1. PICK params \in [Names -> Kinds \cup {None}], order \in [Names -> Bindings \cup {0}],
           count \in Bindings \cup {0} :
        LET linear == {x \in Names : params[x] \in Resources}
        IN /\ \A x \in Names : order[x] = 0 <=> x \notin linear
           /\ \A x, y \in linear : order[x] = order[y] => x = y
           /\ {order[x] : x \in linear} = 1 .. count
           /\ delta = [x \in Names |-> IF x \in linear THEN Entry(params[x], order[x]) ELSE Unknown]
           /\ env = [x \in Names |-> IF params[x] = "int" THEN Pure("int") ELSE None]
           /\ stack = <<[at |-> "function", introduced |-> linear]>>
           /\ scope = order
           /\ runs = {[b \in Bindings |-> IF b <= count THEN "unused" ELSE "absent"]}
           /\ next = count + 1
  BY ZenonT(60) DEF Init
<1>. DEFINE linear == {x \in Names : params[x] \in Resources}
<1>2. delta \in Deltas
  <2>1. \A x \in linear : params[x] \in Resources /\ order[x] \in Bindings
    BY <1>1
  <2>. QED
    BY <1>1, <2>1, EntryTypes DEF Deltas
<1>3. env \in Envs
  BY <1>1 DEF Envs, Pure, Type, Types, Kinds
<1>4. stack \in Seq(Frames) /\ Shape
  <2>1. [at |-> "function", introduced |-> linear] \in Frames
    BY DEF Frames
  <2>2. stack = <<[at |-> "function", introduced |-> linear]>>
    BY <1>1
  <2>. QED
    BY <2>1, <2>2 DEF Shape
<1>5. scope \in Scopes /\ runs \subseteq Runs /\ next \in 1 .. MaxBindings + 1
  BY <1>1, LinearAssumption DEF Scopes, Runs, Bindings
<1>6. value = None /\ nodes = 0 /\ verdict = [is |-> "checking", name |-> None]
  BY DEF Init
<1>7. /\ value \in Types \cup {None} /\ nodes \in Nat
      /\ verdict \in [is : Verdicts, name : Names \cup {None}]
  BY <1>6 DEF Verdicts
<1>. QED
  BY <1>2, <1>3, <1>4, <1>5, <1>7 DEF TypeOK

\* A step that only rejects, or only gives a value, leaves the stack.
LEMMA RejectTypes ==
  ASSUME TypeOK, Shape, NEW error \in Verdicts, NEW x \in Names \cup {None}, Reject(error, x)
  PROVE  TypeOK' /\ Shape'
  BY DEF TypeOK, Shape, Reject

\* A step that changes neither the stack nor the scope.
LEMMA ValueTypes ==
  ASSUME TypeOK, Shape, UNCHANGED <<env, stack, scope, next>>,
         delta' \in Deltas, value' \in Types \cup {None}, runs' \subseteq Runs,
         verdict' \in [is : Verdicts, name : Names \cup {None}], nodes' \in Nat
  PROVE  TypeOK' /\ Shape'
  BY DEF TypeOK, Shape

\* The innermost frame, and the frames below it.
LEMMA TopTypes ==
  ASSUME TypeOK, Shape
  PROVE  /\ Top \in Frames /\ (Top.at = "function" <=> Len(stack) = 1)
         /\ Len(stack) \in Nat \ {0} /\ Top = stack[Len(stack)] /\ DOMAIN stack = 1 .. Len(stack)
         /\ \E n \in Nat : n = Len(stack) - 1 /\ Len(stack) = n + 1
<1>1. stack \in Seq(Frames) /\ stack # <<>>
  BY DEF TypeOK, Shape
<1>2. /\ Top \in Frames /\ Len(stack) \in Nat \ {0} /\ Top = stack[Len(stack)]
      /\ DOMAIN stack = 1 .. Len(stack)
  BY <1>1, StackTypes
<1>3. \E n \in Nat : n = Len(stack) - 1 /\ Len(stack) = n + 1
  <2>1. Len(stack) - 1 \in Nat /\ Len(stack) = (Len(stack) - 1) + 1
    BY <1>2
  <2>. QED
    BY <2>1
<1>4. Top.at = "function" <=> Len(stack) = 1
  BY <1>2 DEF Shape
<1>. QED
  BY <1>2, <1>3, <1>4

\* A scope is left.
LEMMA LeaveTypes ==
  ASSUME TypeOK, Shape, Top.at \in Scoped, Leave(Top)
  PROVE  env' \in Envs /\ scope' \in Scopes /\ stack' \in Seq(Frames) /\ Shape'
<1>1. Top \in Frames
  BY TopTypes
<1>2. Top.env \in Envs /\ Top.scope \in Scopes
  BY <1>1, FrameTypes
<1>3. Top.at # "function"
  BY DEF Scoped
<1>. QED
  BY <1>2, <1>3, PopTypes DEF Leave

\* A frame is opened.
LEMMA OpenTypes ==
  ASSUME TypeOK, Shape, NEW f \in Frames, f.at # "function", Open(f)
  PROVE  /\ stack' \in Seq(Frames) /\ Shape' /\ value' \in Types \cup {None}
         /\ verdict' \in [is : Verdicts, name : Names \cup {None}] /\ nodes' \in Nat
<1>1. stack' \in Seq(Frames) /\ Shape'
  BY PushTypes DEF Open
<1>. QED
  BY <1>1 DEF Open, Walk, TypeOK

\* An Int is a type that holds nothing.
LEMMA IntType ==
  Pure("int") \in Types /\ Pure("int") # None /\ Classical(Pure("int"))
<1>1. Pure("int") \in Types /\ ~Pure("int").holds
  BY DEF Pure, Type, Types, Kinds
<1>. QED
  BY <1>1, LinearAssumption DEF Classical

\* The steps on an expression of one node keep the types.
LEMMA WalkTypes ==
  ASSUME TypeOK, Shape,
         \/ Literal \/ Gate \/ Allocate
         \/ \E x \in Names : UseUnrestricted(x) \/ UseLinear(x) \/ UsedTwice(x) \/ Capture(x)
         \/ Measure \/ Reset \/ Return
  PROVE  TypeOK' /\ Shape'
<1>. USE DEF TypeOK
<1>1. CASE Literal \/ Gate \/ Allocate
  <2>1. \A kind \in Kinds, monadic \in BOOLEAN : Type(kind, monadic, FALSE, {}) \in Types
    BY DEF Type, Types
  <2>2. value' \in Types
    BY <1>1, <2>1 DEF Literal, Gate, Allocate, Give, Pure, Kinds
  <2>3. Walk(0) /\ UNCHANGED <<delta, env, stack, verdict, scope, runs, next>>
    BY <1>1 DEF Literal, Gate, Allocate, Give
  <2>4. nodes' \in Nat
    BY <2>3 DEF Walk
  <2>. QED
    BY <2>2, <2>3, <2>4, ValueTypes
<1>2. ASSUME NEW x \in Names, UseUnrestricted(x)
      PROVE  TypeOK' /\ Shape'
  <2>1. value' \in Types
    BY <1>2 DEF UseUnrestricted, Give, Mentioned, Types, Envs
  <2>2. runs' \subseteq Runs
    BY <1>2, RunTypes DEF UseUnrestricted
  <2>3. delta' \in Deltas /\ nodes' \in Nat /\ verdict' = verdict
        /\ UNCHANGED <<env, stack, scope, next>>
    BY <1>2 DEF UseUnrestricted, Give, Walk
  <2>. QED
    BY <2>1, <2>2, <2>3, ValueTypes
<1>3. ASSUME NEW x \in Names, UseLinear(x)
      PROVE  TypeOK' /\ Shape'
  <2>1. value' \in Types
    BY <1>3 DEF UseLinear, Mentioned, Types, Type, Deltas, Entries
  <2>2. runs' \subseteq Runs
    BY <1>3, RunTypes DEF UseLinear
  <2>3. delta' \in Deltas
    BY <1>3 DEF UseLinear, Deltas, Entries, States
  <2>4. nodes' \in Nat /\ verdict' = verdict /\ UNCHANGED <<env, stack, scope, next>>
    BY <1>3 DEF UseLinear, Walk
  <2>. QED
    BY <2>1, <2>2, <2>3, <2>4, ValueTypes
<1>4. ASSUME NEW x \in Names, UsedTwice(x) \/ Capture(x)
      PROVE  TypeOK' /\ Shape'
  BY <1>4, RejectTypes DEF UsedTwice, Capture, Verdicts
<1>5. CASE Measure \/ Reset
  <2>1. value \in Types
    BY <1>5 DEF Measure, Reset, Returned
  <2>. QED
    BY <1>5, <2>1, ValueTypes DEF Measure, Reset, Types, Kinds
<1>6. CASE Return
  <2>1. value \in Types
    BY <1>6 DEF Return, Returned
  <2>2. CASE value' = [value EXCEPT !.monadic = TRUE]
             /\ UNCHANGED <<delta, env, stack, verdict, scope, runs, next, nodes>>
    BY <2>1, <2>2, ValueTypes DEF Types
  <2>3. ASSUME NEW x \in value.names, Reject("BorrowEscape", x)
        PROVE  TypeOK' /\ Shape'
    BY <2>1, <2>3, RejectTypes DEF Types, Verdicts
  <2>. QED
    BY <1>6, <2>2, <2>3 DEF Return
<1>. QED
  BY <1>1, <1>2, <1>3, <1>4, <1>5, <1>6

\* What a bind gives is well typed.
LEMMA PayloadTypes ==
  ASSUME NEW t \in Types
  PROVE  /\ Payload(t) \in Types /\ Payload(t).kind = t.kind /\ ~Payload(t).monadic
         /\ Payload(t).holds <=> t.kind \in Resources
<1>1. (t.kind \in Resources) \in BOOLEAN
  OBVIOUS
<1>2. PICK h \in BOOLEAN : h = (t.kind \in Resources)
  BY <1>1
<1>3. Payload(t) = [t EXCEPT !.monadic = FALSE, !.holds = h]
  BY <1>2 DEF Payload
<1>4. [t EXCEPT !.monadic = FALSE, !.holds = h] \in Types
  BY DEF Types
<1>. QED
  BY <1>2, <1>3, <1>4 DEF Types

\* let and <- keep the types.
LEMMA BindingTypes ==
  ASSUME TypeOK, Shape, OpenRhs \/ CloseRhs \/ CloseBody
  PROVE  TypeOK' /\ Shape'
<1>0. Top \in Frames
  BY TopTypes
<1>1. CASE OpenRhs
  <2>1. PICK monad \in BOOLEAN : Open([at |-> "rhs", monad |-> monad])
    BY <1>1 DEF OpenRhs
  <2>2. [at |-> "rhs", monad |-> monad] \in Frames
    BY DEF Frames
  <2>. QED
    BY <1>1, <2>1, <2>2, OpenTypes DEF OpenRhs, TypeOK
<1>2. CASE CloseRhs
  <2>. DEFINE t == IF Top.monad THEN Payload(value) ELSE value
  <2>1. value \in Types /\ Top.at = "rhs" /\ Top.monad \in BOOLEAN
    BY <1>0, <1>2, FrameTypes DEF CloseRhs, Returned, TypeOK
  <2>2. t \in Types
    BY <2>1, PayloadTypes
  <2>3. PICK pat \in Patterns(t) :
          IF BadSlots(pat, t) = {}
          THEN /\ BindPattern(pat, t)
               /\ stack' = Replace([at |-> "body", monad |-> Top.monad,
                                    introduced |-> Introduced(pat, t),
                                    env |-> env, scope |-> scope,
                                    names |-> value.names,
                                    holds |-> Top.monad /\ value.holds])
               /\ value' = None
               /\ UNCHANGED <<verdict, nodes>>
          ELSE LET j == CHOOSE i \in BadSlots(pat, t) : \A k \in BadSlots(pat, t) : i <= k
               IN Reject(IF pat[j] = None THEN "LinearDiscard" ELSE "LinearUnconsumed", pat[j])
    BY <1>2 DEF CloseRhs
  <2>4. PatternView(pat, t)
    <3>. HIDE DEF t
    <3>. QED
      BY <2>2, PatternTypes DEF TypeOK
  <2>5. CASE BadSlots(pat, t) = {}
    <3>. DEFINE f == [at |-> "body", monad |-> Top.monad, introduced |-> Introduced(pat, t),
                      env |-> env, scope |-> scope, names |-> value.names,
                      holds |-> Top.monad /\ value.holds]
    <3>1. BindPattern(pat, t) /\ stack' = Replace(f) /\ value' = None /\ UNCHANGED <<verdict, nodes>>
      BY <2>3, <2>5
    <3>2. f \in Frames /\ f.at = "body"
      <4>1. Introduced(pat, t) \in SUBSET Names
        BY <2>4 DEF PatternView
      <4>2. value.names \in SUBSET Names /\ (Top.monad /\ value.holds) \in BOOLEAN
        BY <2>1 DEF Types
      <4>. HIDE DEF t
      <4>. QED
        BY <2>1, <4>1, <4>2 DEF Frames, TypeOK
    <3>. HIDE DEF t, f
    <3>3. /\ delta' \in Deltas /\ env' \in Envs /\ scope' \in Scopes /\ runs' \subseteq Runs
          /\ next' \in 1 .. MaxBindings + 1
      BY <2>2, <3>1, BindTypes
    <3>4. stack' \in Seq(Frames) /\ Shape'
      BY <2>1, <3>1, <3>2, ReplaceTypes
    <3>. QED
      BY <3>1, <3>3, <3>4 DEF TypeOK
  <2>6. CASE BadSlots(pat, t) # {}
    <3>. DEFINE j == CHOOSE i \in BadSlots(pat, t) : \A k \in BadSlots(pat, t) : i <= k
    <3>1. Reject(IF pat[j] = None THEN "LinearDiscard" ELSE "LinearUnconsumed", pat[j])
      BY <2>3, <2>6
    <3>. HIDE DEF t
    <3>2. pat[j] \in Names \cup {None}
      BY <2>2, <2>4, <2>6, FirstBadSlot
    <3>. HIDE DEF j
    <3>. QED
      BY <3>1, <3>2, RejectTypes DEF Verdicts
  <2>. QED
    BY <2>5, <2>6
<1>3. CASE CloseBody
  <2>1. Top.at = "body" /\ Top.names \subseteq Names /\ Top.holds \in BOOLEAN /\ value \in Types
        /\ Top.introduced \subseteq Names
    BY <1>0, <1>3, FrameTypes DEF CloseBody, Returned, TypeOK
  <2>2. CASE /\ Leave(Top)
             /\ value' = [value EXCEPT !.names = @ \cup Top.names,
                                       !.holds = @ \/ (value.monadic /\ Top.holds)]
             /\ UNCHANGED <<delta, verdict, runs, next, nodes>>
    <3>1. value' \in Types
      BY <2>1, <2>2 DEF Types
    <3>2. env' \in Envs /\ scope' \in Scopes /\ stack' \in Seq(Frames) /\ Shape'
      BY <2>1, <2>2, LeaveTypes DEF Scoped
    <3>. QED
      BY <2>2, <3>1, <3>2 DEF TypeOK
  <2>3. ASSUME NEW x \in Left(Top), Reject("LinearUnconsumed", x)
        PROVE  TypeOK' /\ Shape'
    BY <2>1, <2>3, RejectTypes DEF Left, Verdicts
  <2>. QED
    BY <1>3, <2>2, <2>3 DEF CloseBody
<1>. QED
  BY <1>1, <1>2, <1>3

\* What an arm gives.
LEMMA JoinedTypes ==
  ASSUME NEW t \in Types, Top.match \in BOOLEAN, Top.result \in Types \cup {None}
  PROVE  Joined(t) \in Types
<1>1. CASE Top.result = None
  BY <1>1 DEF Joined, Types
<1>2. CASE Top.result \in Types
  BY <1>2 DEF Joined, Types
<1>. QED
  BY <1>1, <1>2

\* if and match keep the types.
LEMMA BranchTypes ==
  ASSUME TypeOK, Shape, OpenBranch \/ NextArm \/ Merge
  PROVE  TypeOK' /\ Shape'
<1>0. Top \in Frames
  BY TopTypes
<1>1. CASE OpenBranch
  <2>1. PICK match \in BOOLEAN, arms \in 1 .. MaxArms :
          /\ Open([at |-> "arm", match |-> match, arms |-> arms, env |-> env, scope |-> scope,
                   delta |-> delta, runs |-> runs, ends |-> <<>>, ended |-> {}, result |-> None])
          /\ \E x \in Names \cup {None} : BindArm(x)
    BY <1>1 DEF OpenBranch
  <2>. DEFINE f == [at |-> "arm", match |-> match, arms |-> arms, env |-> env, scope |-> scope,
                    delta |-> delta, runs |-> runs, ends |-> <<>>, ended |-> {}, result |-> None]
  <2>2. f \in Frames /\ f.at = "arm"
    <3>1. <<>> \in Seq(Deltas) /\ arms \in Nat
      BY LinearAssumption
    <3>. QED
      BY <3>1 DEF Frames, TypeOK
  <2>3. Open(f)
    BY <2>1
  <2>4. PICK x \in Names \cup {None} : BindArm(x)
    BY <2>1
  <2>5. env' \in Envs /\ scope' \in Scopes
    BY <2>4, IntType DEF BindArm, TypeOK, Envs, Scopes
  <2>. HIDE DEF f
  <2>. QED
    BY <1>1, <2>2, <2>3, <2>5, OpenTypes DEF OpenBranch, TypeOK
<1>2. CASE NextArm \/ Merge
  <2>0. value \in Types /\ Top.at = "arm"
    BY <1>2 DEF NextArm, Merge, Returned, TypeOK
  <2>1. /\ Top.match \in BOOLEAN /\ Top.arms \in Nat /\ Top.delta \in Deltas
        /\ Top.runs \in SUBSET Runs /\ Top.ends \in Seq(Deltas)
        /\ Top.ended \in SUBSET Runs /\ Top.result \in Types \cup {None}
        /\ Top.env \in Envs /\ Top.scope \in Scopes
    BY <1>0, <2>0, FrameTypes DEF Scoped
  <2>2. Joined(value) \in Types
    BY <2>0, <2>1, JoinedTypes
  <2>3. CASE NextArm
    <3>. DEFINE f == [Top EXCEPT !.ends = Append(@, delta), !.ended = @ \cup runs,
                                 !.result = Joined(value)]
    <3>1. f \in Frames /\ f.at = "arm"
      <4>1. delta \in Deltas /\ runs \in SUBSET Runs
        BY DEF TypeOK
      <4>2. Top \in [at : {"arm"}, match : BOOLEAN, arms : Nat, env : Envs, scope : Scopes,
                     delta : Deltas, runs : SUBSET Runs, ends : Seq(Deltas),
                     ended : SUBSET Runs, result : Types \cup {None}]
        BY <1>0, <2>0 DEF Frames
      <4>3. Append(Top.ends, delta) \in Seq(Deltas)
        BY <4>1, <4>2
      <4>. QED
        BY <2>2, <4>1, <4>2, <4>3 DEF Frames
    <3>2. stack' = Replace(f)
      BY <2>3 DEF NextArm
    <3>. HIDE DEF f
    <3>3. stack' \in Seq(Frames) /\ Shape'
      BY <2>0, <3>1, <3>2, ReplaceTypes
    <3>4. env' \in Envs /\ scope' \in Scopes
      BY <2>1, <2>3, IntType DEF NextArm, Envs, Scopes
    <3>. QED
      BY <2>1, <2>3, <3>3, <3>4 DEF NextArm, ArmContext, TypeOK
  <2>4. CASE Merge
    <3>. DEFINE ends == Append(Top.ends, delta)
    <3>1. CASE /\ Leave(Top)
               /\ delta' = ends[1] /\ runs' = Top.ended \cup runs /\ value' = Joined(value)
               /\ UNCHANGED <<verdict, next, nodes>>
      <4>1. ends[1] \in Deltas
        <5>1. delta \in Deltas /\ ends \in Seq(Deltas) /\ 1 \in DOMAIN ends
          BY <2>1 DEF TypeOK
        <5>. QED
          BY <5>1
      <4>2. env' \in Envs /\ scope' \in Scopes /\ stack' \in Seq(Frames) /\ Shape'
        BY <2>0, <3>1, LeaveTypes DEF Scoped
      <4>3. runs' \subseteq Runs
        BY <2>1, <3>1 DEF TypeOK
      <4>. HIDE DEF ends
      <4>. QED
        BY <2>2, <3>1, <4>1, <4>2, <4>3 DEF TypeOK
    <3>2. ASSUME NEW x \in Names, Reject("LinearBranchMismatch", x)
          PROVE  TypeOK' /\ Shape'
      BY <3>2, RejectTypes DEF Verdicts
    <3>. QED
      BY <2>4, <3>1, <3>2 DEF Merge, Residual
  <2>. QED
    BY <1>2, <2>3, <2>4
<1>. QED
  BY <1>1, <1>2

\* Lambdas, loops, borrow blocks and pairs keep the types.
LEMMA ScopeTypes ==
  ASSUME TypeOK, Shape,
         \/ OpenLambda \/ CloseLambda \/ OpenFor \/ CloseFor \/ OpenBorrow \/ CloseBorrow
         \/ OpenPair \/ CloseLeft \/ CloseRight
         \/ CloseFunction
  PROVE  TypeOK' /\ Shape'
<1>0. Top \in Frames /\ next \in Nat \ {0} /\ MaxBindings \in Nat
  BY TopTypes, LinearAssumption DEF TypeOK
<1>1. CASE OpenLambda
  <2>1. PICK x \in Names, kind \in {"int", "lin"} :
          /\ Open([at |-> "lambda", introduced |-> IF kind = "lin" THEN {x} ELSE {},
                   env |-> env, scope |-> scope, delta |-> delta, binding |-> next])
          /\ delta' = [y \in Names |-> IF kind = "lin" /\ y = x THEN Entry(kind, next) ELSE Unknown]
          /\ env' = IF kind = "lin" THEN env ELSE [env EXCEPT ![x] = Pure("int")]
          /\ scope' = [scope EXCEPT ![x] = IF kind = "lin" THEN next ELSE 0]
          /\ runs' = Owed(IF kind = "lin" THEN {next} ELSE {})
          /\ next' = next + 1
    BY <1>1 DEF OpenLambda
  <2>. DEFINE f == [at |-> "lambda", introduced |-> IF kind = "lin" THEN {x} ELSE {},
                    env |-> env, scope |-> scope, delta |-> delta, binding |-> next]
  <2>2. next \in Bindings /\ next' \in 1 .. MaxBindings + 1
    BY <1>0, <1>1, <2>1 DEF OpenLambda, Bindings
  <2>3. f \in Frames /\ f.at = "lambda"
    BY <2>2 DEF Frames, TypeOK
  <2>4. Open(f)
    BY <2>1
  <2>5. delta' \in Deltas
    BY <2>1, <2>2, EntryTypes DEF Deltas, Resources
  <2>6. env' \in Envs /\ scope' \in Scopes
    BY <2>1, <2>2 DEF Envs, Scopes, Pure, Type, Types, Kinds, TypeOK
  <2>7. runs' \subseteq Runs
    BY <2>1, RunTypes DEF TypeOK
  <2>. HIDE DEF f
  <2>. QED
    BY <2>2, <2>3, <2>4, <2>5, <2>6, <2>7, OpenTypes DEF TypeOK
<1>2. CASE CloseLambda
  <2>1. Top.at = "lambda" /\ Top.delta \in Deltas /\ Top.introduced \subseteq Names
    BY <1>0, <1>2, FrameTypes DEF CloseLambda
  <2>2. CASE /\ Leave(Top)
             /\ delta' = Top.delta /\ value' = Pure("int")
             /\ UNCHANGED <<verdict, runs, next, nodes>>
    <3>1. env' \in Envs /\ scope' \in Scopes /\ stack' \in Seq(Frames) /\ Shape'
      BY <2>1, <2>2, LeaveTypes DEF Scoped
    <3>2. value' \in Types
      BY <2>2 DEF Pure, Type, Types, Kinds
    <3>. QED
      BY <2>1, <2>2, <3>1, <3>2 DEF TypeOK
  <2>3. ASSUME NEW x \in Left(Top), Reject("LinearUnconsumed", x)
        PROVE  TypeOK' /\ Shape'
    BY <2>1, <2>3, RejectTypes DEF Left, Verdicts
  <2>. QED
    BY <1>2, <2>2, <2>3 DEF CloseLambda
<1>3. CASE OpenFor
  <2>1. PICK x \in Names :
          /\ Open([at |-> "for", env |-> env, scope |-> scope, binding |-> next])
          /\ BindArm(x)
    BY <1>3 DEF OpenFor
  <2>2. [at |-> "for", env |-> env, scope |-> scope, binding |-> next] \in Frames
    BY <1>0 DEF Frames, TypeOK
  <2>3. env' \in Envs /\ scope' \in Scopes
    BY <2>1, IntType DEF BindArm, TypeOK, Envs, Scopes
  <2>. QED
    BY <1>3, <2>1, <2>2, <2>3, OpenTypes DEF OpenFor, TypeOK
<1>4. CASE CloseFor
  <2>1. Top.at = "for" /\ value \in Types
    BY <1>4 DEF CloseFor, Returned, TypeOK
  <2>2. env' \in Envs /\ scope' \in Scopes /\ stack' \in Seq(Frames) /\ Shape'
    BY <1>4, <2>1, LeaveTypes DEF Scoped, CloseFor
  <2>3. value' \in Types
    BY <1>4, <2>1 DEF CloseFor, Types
  <2>. QED
    BY <1>4, <2>2, <2>3 DEF CloseFor, TypeOK
<1>5. CASE OpenBorrow
  <2>1. PICK x \in Names :
          IF Available(delta, x) THEN Reject("LinearUnconsumed", x)
          ELSE /\ next <= MaxBindings
               /\ Open([at |-> "borrow", introduced |-> {x}, env |-> env, scope |-> scope])
               /\ delta' = [delta EXCEPT ![x] = Entry("lin", next)]
               /\ scope' = [scope EXCEPT ![x] = next]
               /\ runs' = Owed({next})
               /\ next' = next + 1
               /\ UNCHANGED env
    BY <1>5 DEF OpenBorrow
  <2>2. CASE Available(delta, x)
    BY <2>1, <2>2, RejectTypes DEF Verdicts
  <2>3. CASE ~Available(delta, x)
    <3>1. next \in Bindings /\ next' \in 1 .. MaxBindings + 1
      BY <1>0, <2>1, <2>3 DEF Bindings
    <3>2. [at |-> "borrow", introduced |-> {x}, env |-> env, scope |-> scope] \in Frames
      BY DEF Frames, TypeOK
    <3>3. delta' \in Deltas
      BY <2>1, <2>3, <3>1, EntryTypes DEF Deltas, Resources, TypeOK
    <3>4. scope' \in Scopes
      BY <2>1, <2>3, <3>1 DEF Scopes, TypeOK
    <3>5. runs' \subseteq Runs
      BY <2>1, <2>3, RunTypes DEF TypeOK
    <3>. QED
      BY <2>1, <2>3, <3>1, <3>2, <3>3, <3>4, <3>5, OpenTypes DEF TypeOK
  <2>. QED
    BY <2>2, <2>3
<1>6. CASE CloseBorrow
  <2>1. Top.at = "borrow" /\ Top.introduced \subseteq Names /\ value \in Types
    BY <1>0, <1>6, FrameTypes DEF CloseBorrow, Returned, TypeOK
  <2>2. CASE /\ Leave(Top)
             /\ value' = [value EXCEPT !.names = {}]
             /\ UNCHANGED <<delta, verdict, runs, next, nodes>>
    <3>1. env' \in Envs /\ scope' \in Scopes /\ stack' \in Seq(Frames) /\ Shape'
      BY <2>1, <2>2, LeaveTypes DEF Scoped
    <3>2. value' \in Types
      BY <2>1, <2>2 DEF Types
    <3>. QED
      BY <2>2, <3>1, <3>2 DEF TypeOK
  <2>3. ASSUME NEW x \in Left(Top), Reject("LinearUnconsumed", x)
        PROVE  TypeOK' /\ Shape'
    BY <2>1, <2>3, RejectTypes DEF Left, Verdicts
  <2>. QED
    BY <1>6, <2>2, <2>3 DEF CloseBorrow
<1>7. CASE OpenPair
  <2>1. [at |-> "left"] \in Frames
    BY DEF Frames
  <2>. QED
    BY <1>7, <2>1, OpenTypes DEF OpenPair, TypeOK
<1>8. CASE CloseLeft
  <2>1. value \in Types /\ value.names \subseteq Names /\ Top.at = "left"
    BY <1>8 DEF CloseLeft, Returned, TypeOK, Types
  <2>2. [at |-> "right", names |-> value.names] \in Frames
    BY <2>1 DEF Frames
  <2>3. stack' \in Seq(Frames) /\ Shape'
    BY <1>8, <2>1, <2>2, ReplaceTypes DEF CloseLeft
  <2>. QED
    BY <1>8, <2>3 DEF CloseLeft, TypeOK
<1>9. CASE CloseRight
  <2>1. Top.at = "right" /\ Top.names \subseteq Names /\ value \in Types
    BY <1>0, <1>9, FrameTypes DEF CloseRight, Returned, TypeOK
  <2>2. stack' \in Seq(Frames) /\ Shape'
    BY <1>9, <2>1, PopTypes DEF CloseRight
  <2>3. value' \in Types
    BY <1>9, <2>1 DEF CloseRight, Types, Kinds
  <2>. QED
    BY <1>9, <2>2, <2>3 DEF CloseRight, TypeOK
<1>10. CASE CloseFunction
  <2>1. Top.at = "function" /\ Top.introduced \subseteq Names
    BY <1>0, <1>10, FrameTypes DEF CloseFunction
  <2>2. ASSUME NEW x \in Left(Top), Reject("LinearUnconsumed", x)
        PROVE  TypeOK' /\ Shape'
    BY <2>1, <2>2, RejectTypes DEF Left, Verdicts
  <2>3. CASE /\ verdict' = [is |-> "accepted", name |-> None]
             /\ UNCHANGED <<delta, env, stack, value, scope, runs, next, nodes>>
    BY <2>3 DEF TypeOK, Shape, Verdicts
  <2>. QED
    BY <1>10, <2>2, <2>3 DEF CloseFunction
<1>. QED
  BY <1>1, <1>2, <1>3, <1>4, <1>5, <1>6, <1>7, <1>8, <1>9, <1>10

\* Every step keeps the types and the shape.
LEMMA NextTypes ==
  ASSUME TypeOK, Shape, [Next]_vars
  PROVE  TypeOK' /\ Shape'
<1>1. CASE UNCHANGED vars
  BY <1>1 DEF vars, TypeOK, Shape
<1>2. CASE Next
  BY <1>2, WalkTypes, BindingTypes, BranchTypes, ScopeTypes DEF Next
<1>. QED
  BY <1>1, <1>2

\* Type correctness.
THEOREM TypeCorrect == Spec => []TypeOK
<1>1. Init => TypeOK /\ Shape
  BY InitTypes
<1>2. TypeOK /\ Shape /\ [Next]_vars => (TypeOK /\ Shape)'
  BY NextTypes
<1>. QED
  BY <1>1, <1>2, PTL DEF Spec

--------------------------------------------------------------------------------
(* What a step does to the walk.                                               *)

\* The branches below a frame that is pushed, left or replaced.
LEMMA BranchesBelow ==
  ASSUME TypeOK, Shape, TypeOK', WalkGood, NEW n \in 0 .. Len(stack),
         \A m \in 1 .. n : stack'[m] = stack[m], next <= next'
  PROVE  \A m \in 1 .. n : stack'[m].at = "arm" => BranchGood(stack', m, next')
<1>. SUFFICES ASSUME NEW m \in 1 .. n, stack'[m].at = "arm"
              PROVE  BranchGood(stack', m, next')
  OBVIOUS
<1>0. Len(stack) \in Nat
  BY TopTypes
<1>1. m \in Nat \ {0} /\ m \in 1 .. Len(stack) /\ \A j \in 1 .. m : stack'[j] = stack[j]
  BY <1>0
<1>2. BranchGood(stack, m, next)
  BY <1>1 DEF WalkGood
<1>3. next \in Nat /\ next' \in Nat
  BY DEF TypeOK
<1>. QED
  BY <1>1, <1>2, <1>3, BranchBelow

\* A frame is pushed.
LEMMA PushWalk ==
  ASSUME TypeOK, Shape, TypeOK', WalkGood, NEW f \in Frames, stack' = Push(f), runs' # {},
         Pushed(f, delta, env, scope, runs, next, delta', env', scope', runs', next'),
         f.at = "arm" => /\ f.delta = delta /\ f.env = env /\ f.scope = scope /\ f.runs = runs
                         /\ f.ends = <<>> /\ f.ended = {}
  PROVE  WalkGood'
<1>. DEFINE n == Len(stack)
<1>0. stack \in Seq(Frames) /\ stack # <<>>
  BY DEF TypeOK, Shape
<1>1. /\ n \in Nat /\ Len(stack') = n + 1 /\ stack'[n + 1] = f
      /\ \A m \in 1 .. n : stack'[m] = stack[m]
  BY <1>0, StackTypes
<1>2. Good(stack, n, delta, env, scope, runs, next)
  BY DEF WalkGood
<1>3. next \in Nat /\ next' \in Nat /\ next <= next'
  BY DEF TypeOK, Pushed
<1>. HIDE DEF n
<1>4. Good(stack', n, delta, env, scope, runs, next)
  BY <1>1, <1>2, GoodBelow
<1>5. Good(stack', n + 1, delta', env', scope', runs', next')
  BY <1>1, <1>4, GoodPush
<1>6. \A m \in 1 .. n : stack'[m].at = "arm" => BranchGood(stack', m, next')
  BY <1>1, <1>3, BranchesBelow DEF n
<1>7. f.at = "arm" => BranchGood(stack', n + 1, next')
  <2>1. Good(stack', n, delta, env, scope, runs, next')
    <3>1. runs \in SUBSET runs
      OBVIOUS
    <3>. QED
      BY <1>1, <1>3, <1>4, <3>1, GoodWeaken
  <2>2. n + 1 - 1 = n
    BY <1>1
  <2>3. runs # {}
    BY DEF WalkGood
  <2>. QED
    BY <1>1, <2>1, <2>2, <2>3 DEF BranchGood
<1>8. \A m \in 1 .. n + 1 : m = n + 1 \/ m \in 1 .. n
  BY <1>1
<1>9. \A m \in 1 .. n + 1 : stack'[m].at = "arm" => BranchGood(stack', m, next')
  BY <1>1, <1>6, <1>7, <1>8
<1>. QED
  BY <1>1, <1>5, <1>9 DEF WalkGood

\* A frame is left.
LEMMA PopGood ==
  ASSUME TypeOK, Shape, WalkGood, NEW e, NEW s, Leaves(Top, delta, env, scope, e, s)
  PROVE  Good(stack, Len(stack) - 1, delta, e, s, runs, next)
<1>1. PICK n \in Nat : n = Len(stack) - 1
  BY TopTypes
<1>2. Len(stack) = n + 1 /\ Top = stack[n + 1]
  BY <1>1, TopTypes
<1>3. Good(stack, n + 1, delta, env, scope, runs, next)
  BY <1>2 DEF WalkGood
<1>4. Good(stack, n, delta, e, s, runs, next)
  BY <1>2, <1>3, GoodPop
<1>. QED
  BY <1>1, <1>4

\* A frame returns: the walk is good below it.
LEMMA PopWalk ==
  ASSUME TypeOK, Shape, TypeOK', WalkGood, stack' = Popped,
         Leaves(Top, delta, env, scope, env', scope'), UNCHANGED <<delta, runs, next>>
  PROVE  WalkGood'
<1>0. stack \in Seq(Frames) /\ stack # <<>> /\ next \in Nat
  BY DEF TypeOK, Shape
<1>1. PICK n \in Nat : n = Len(stack) - 1
  BY TopTypes
<1>2. Len(stack') = n /\ \A m \in 1 .. n : stack'[m] = stack[m]
  BY <1>0, <1>1, StackTypes
<1>3. Good(stack, n, delta, env', scope', runs, next)
  BY <1>1, PopGood
<1>4. Good(stack', n, delta, env', scope', runs, next)
  BY <1>2, <1>3, GoodBelow
<1>5. \A m \in 1 .. n : stack'[m].at = "arm" => BranchGood(stack', m, next')
  <2>1. n \in 0 .. Len(stack) /\ next <= next'
    BY <1>0, <1>1, TopTypes
  <2>. QED
    BY <1>2, <2>1, BranchesBelow
<1>. QED
  BY <1>2, <1>4, <1>5 DEF WalkGood

\* One frame is left and another is pushed.
LEMMA ReplaceWalk ==
  ASSUME TypeOK, Shape, TypeOK', WalkGood, NEW f \in Frames, f.at # "arm",
         stack' = Replace(f), runs' # {}, NEW e, NEW s,
         Leaves(Top, delta, env, scope, e, s),
         Pushed(f, delta, e, s, runs, next, delta', env', scope', runs', next')
  PROVE  WalkGood'
<1>0. stack \in Seq(Frames) /\ stack # <<>>
  BY DEF TypeOK, Shape
<1>1. PICK n \in Nat : n = Len(stack) - 1
  BY TopTypes
<1>2. /\ Len(stack') = n + 1 /\ stack'[n + 1] = f /\ \A m \in 1 .. n : stack'[m] = stack[m]
  <2>1. Len(stack) = n + 1
    BY <1>1, TopTypes
  <2>. QED
    BY <1>0, <1>1, <2>1, StackTypes
<1>3. Good(stack, n, delta, e, s, runs, next)
  BY <1>1, PopGood
<1>4. Good(stack', n, delta, e, s, runs, next)
  BY <1>2, <1>3, GoodBelow
<1>5. Good(stack', n + 1, delta', env', scope', runs', next')
  BY <1>2, <1>4, GoodPush
<1>6. \A m \in 1 .. n : stack'[m].at = "arm" => BranchGood(stack', m, next')
  <2>1. n \in 0 .. Len(stack)
    BY <1>1, TopTypes
  <2>2. next <= next'
    BY DEF Pushed, TypeOK
  <2>. QED
    BY <1>2, <2>1, <2>2, BranchesBelow
<1>7. \A m \in 1 .. n + 1 : m = n + 1 \/ m \in 1 .. n
  OBVIOUS
<1>8. \A m \in 1 .. n + 1 : stack'[m].at = "arm" => BranchGood(stack', m, next')
  BY <1>2, <1>6, <1>7
<1>. QED
  BY <1>2, <1>5, <1>8 DEF WalkGood

\* A lambda is left: what surrounds it comes back.
LEMMA CloseWalk ==
  ASSUME TypeOK, Shape, TypeOK', WalkGood, Top.at = "lambda", stack' = Popped,
         \A x \in Intro(Top) : ~Available(delta, x),
         delta' = Top.delta, env' = Top.env, scope' = Top.scope, UNCHANGED <<runs, next>>
  PROVE  WalkGood'
<1>0. stack \in Seq(Frames) /\ stack # <<>> /\ next \in Nat
  BY DEF TypeOK, Shape
<1>1. PICK n \in Nat : n = Len(stack) - 1 /\ Len(stack) = n + 1
  BY TopTypes
<1>2. Len(stack') = n /\ (\A m \in 1 .. n : stack'[m] = stack[m]) /\ Top = stack[n + 1]
  BY <1>0, <1>1, StackTypes
<1>3. Good(stack, n + 1, delta, env, scope, runs, next)
  BY <1>1 DEF WalkGood
<1>4. Good(stack, n, delta', env', scope', runs, next)
  BY <1>0, <1>2, <1>3, GoodClose
<1>5. Good(stack', n, delta', env', scope', runs, next)
  BY <1>2, <1>4, GoodBelow
<1>6. \A m \in 1 .. n : stack'[m].at = "arm" => BranchGood(stack', m, next')
  <2>1. n \in 0 .. Len(stack) /\ next <= next'
    BY <1>0, <1>1
  <2>. QED
    BY <1>2, <2>1, BranchesBelow
<1>. QED
  BY <1>2, <1>5, <1>6 DEF WalkGood

\* The runs through the arm that ends.
LEMMA ArmEnds ==
  ASSUME TypeOK, Shape, WalkGood, Top.at = "arm", NEW r \in runs
  PROVE  Ended(stack, Len(stack), delta, r, next)
<1>1. PICK n \in Nat : n = Len(stack) - 1 /\ Len(stack) = n + 1
  BY TopTypes
<1>2. Top = stack[n + 1] /\ next \in Nat
  BY <1>1, TopTypes DEF TypeOK
<1>3. Leaves(Top, delta, env, scope, Top.env, Top.scope)
  BY DEF Leaves, Scoped, Intro
<1>4. Good(stack, n, delta, Top.env, Top.scope, runs, next)
  BY <1>1, <1>3, PopGood
<1>5. Good(stack, n, delta, Top.env, Top.scope, {r}, next)
  <2>1. {r} \in SUBSET runs /\ next <= next
    BY <1>2
  <2>. QED
    BY <1>2, <1>4, <2>1, GoodWeaken
<1>6. Branches(stack, n + 1, delta, runs)
  BY <1>1 DEF WalkGood, Good
<1>7. n + 1 \in 1 .. n + 1 /\ stack[n + 1].at = "arm"
  BY <1>2
<1>8. \A x \in Names : Available(stack[n + 1].delta, x) => r[stack[n + 1].delta[x].binding] # "absent"
  BY <1>6, <1>7 DEF Branches
<1>9. ASSUME NEW x \in Names, Available(delta, x)
      PROVE  delta[x] = stack[n + 1].delta[x]
  <2>1. n + 2 \in Ctx(stack, n + 1) /\ DeltaAt(stack, n + 1, delta, n + 2) = delta
    BY DEF Ctx, DeltaAt
  <2>2. Inside(stack, n + 1, n + 2) /\ Fresh(stack, n + 1, n + 2, x)
    <3>1. \A m \in n + 1 .. n + 2 - 1 : m = n + 1
      OBVIOUS
    <3>. QED
      BY <1>7, <3>1 DEF Inside, Fresh, Intro
  <2>3. Has(stack, n + 1, delta, n + 2, x)
    BY <1>9, <2>1 DEF Has
  <2>4. n + 1 <= n + 2
    OBVIOUS
  <2>. QED
    BY <1>6, <1>7, <2>1, <2>2, <2>3, <2>4 DEF Branches
<1>10. n + 1 - 1 = n
  OBVIOUS
<1>. QED
  BY <1>1, <1>2, <1>5, <1>8, <1>9, <1>10 DEF Ended

\* What the frame of the branch keeps for the runs that have ended.
LEMMA EndedSame ==
  ASSUME NEW st, NEW st2, NEW n \in Nat, \A j \in 1 .. n : st2[j] = st[j],
         st2[n + 1].env = st[n + 1].env, st2[n + 1].scope = st[n + 1].scope,
         st2[n + 1].delta = st[n + 1].delta,
         NEW d, NEW r, NEW nx, Ended(st, n + 1, d, r, nx)
  PROVE  Ended(st2, n + 1, d, r, nx)
<1>1. n + 1 - 1 = n
  OBVIOUS
<1>2. Good(st, n, d, st[n + 1].env, st[n + 1].scope, {r}, nx)
  BY <1>1 DEF Ended
<1>3. Good(st2, n, d, st[n + 1].env, st[n + 1].scope, {r}, nx)
  BY <1>2, GoodBelow
<1>. QED
  BY <1>1, <1>3 DEF Ended

\* The next arm starts from what the first one did.
LEMMA NextArmWalk ==
  ASSUME TypeOK, Shape, TypeOK', WalkGood, Top.at = "arm", NEW f \in Frames, f.at = "arm",
         f.env = Top.env, f.scope = Top.scope, f.delta = Top.delta, f.runs = Top.runs,
         f.ends = Append(Top.ends, delta), f.ended = Top.ended \cup runs,
         stack' = Replace(f), delta' = Top.delta, runs' = Top.runs, next' = next,
         \A x \in Names : \/ env'[x] = Top.env[x] /\ scope'[x] = Top.scope[x]
                          \/ env'[x] # None /\ scope'[x] = 0
  PROVE  WalkGood'
<1>0. stack \in Seq(Frames) /\ stack # <<>> /\ next \in 1 .. MaxBindings + 1 /\ MaxBindings \in Nat
  BY LinearAssumption DEF TypeOK, Shape
<1>1. PICK n \in Nat : n = Len(stack) - 1 /\ Len(stack) = n + 1
  BY TopTypes
<1>2. /\ Len(stack') = n + 1 /\ stack'[n + 1] = f /\ \A m \in 1 .. n : stack'[m] = stack[m]
      /\ Top = stack[n + 1] /\ Top \in Frames
  BY <1>0, <1>1, StackTypes
<1>3. BranchGood(stack, n + 1, next)
  BY <1>1, <1>2 DEF WalkGood
<1>4. n + 1 - 1 = n
  OBVIOUS
<1>5. Good(stack', n, f.delta, f.env, f.scope, f.runs, next)
  <2>1. Good(stack, n, f.delta, f.env, f.scope, f.runs, next)
    BY <1>2, <1>3, <1>4 DEF BranchGood
  <2>. QED
    BY <1>2, <2>1, GoodBelow
<1>6. Pushed(f, f.delta, f.env, f.scope, f.runs, next, delta', env', scope', runs', next')
  BY <1>0 DEF Pushed, Scoped, Intro
<1>7. Good(stack', n + 1, delta', env', scope', runs', next')
  BY <1>2, <1>5, <1>6, GoodPush
<1>8. \A d, r : Ended(stack, n + 1, d, r, next) => Ended(stack', n + 1, d, r, next')
  BY <1>2, EndedSame
<1>9. Top.ends \in Seq(Deltas)
  BY <1>2, FrameTypes
<1>10. /\ DOMAIN Top.ends = 1 .. Len(Top.ends) /\ Len(Top.ends) \in Nat
       /\ DOMAIN f.ends = 1 .. Len(Top.ends) + 1
       /\ \A j \in 1 .. Len(Top.ends) : f.ends[j] = Top.ends[j]
       /\ f.ends[Len(Top.ends) + 1] = delta
  BY <1>9
<1>11. \A r \in runs : Ended(stack, n + 1, delta, r, next)
  BY <1>1, ArmEnds
<1>12. BranchGood(stack', n + 1, next')
  <2>1. f.runs # {}
    BY <1>2, <1>3 DEF BranchGood
  <2>2. ASSUME NEW r \in f.ended
        PROVE  \E j \in DOMAIN f.ends : Ended(stack', n + 1, f.ends[j], r, next')
    <3>1. CASE r \in Top.ended
      <4>1. PICK j \in DOMAIN Top.ends : Ended(stack, n + 1, Top.ends[j], r, next)
        BY <1>2, <1>3, <3>1 DEF BranchGood
      <4>. QED
        BY <1>8, <1>10, <4>1
    <3>2. CASE r \in runs
      <4>1. Ended(stack', n + 1, delta, r, next')
        BY <1>8, <1>11, <3>2
      <4>2. Len(Top.ends) + 1 \in DOMAIN f.ends
        BY <1>10
      <4>. QED
        BY <1>10, <4>1, <4>2
    <3>. QED
      BY <3>1, <3>2
  <2>3. ASSUME NEW j \in DOMAIN f.ends
        PROVE  \E r \in f.ended : Ended(stack', n + 1, f.ends[j], r, next')
    <3>1. CASE j \in DOMAIN Top.ends
      <4>1. PICK r \in Top.ended : Ended(stack, n + 1, Top.ends[j], r, next)
        BY <1>2, <1>3, <3>1 DEF BranchGood
      <4>2. f.ends[j] = Top.ends[j] /\ r \in f.ended
        BY <1>10, <3>1
      <4>. QED
        BY <1>8, <4>1, <4>2
    <3>2. CASE j = Len(Top.ends) + 1
      <4>1. PICK r : r \in runs
        BY DEF WalkGood
      <4>2. Ended(stack', n + 1, delta, r, next') /\ r \in f.ended
        BY <1>8, <1>11, <4>1
      <4>. QED
        BY <1>10, <3>2, <4>2
    <3>. QED
      BY <1>10, <3>1, <3>2
  <2>. QED
    <3>1. /\ stack'[n + 1].runs # {}
          /\ Good(stack', n + 1 - 1, stack'[n + 1].delta, stack'[n + 1].env, stack'[n + 1].scope,
                  stack'[n + 1].runs, next')
      BY <1>2, <1>4, <1>5, <2>1
    <3>2. /\ \A r \in stack'[n + 1].ended : \E j \in DOMAIN stack'[n + 1].ends :
               Ended(stack', n + 1, stack'[n + 1].ends[j], r, next')
          /\ \A j \in DOMAIN stack'[n + 1].ends : \E r \in stack'[n + 1].ended :
               Ended(stack', n + 1, stack'[n + 1].ends[j], r, next')
      BY <1>2, <2>2, <2>3
    <3>. QED
      BY <3>1, <3>2 DEF BranchGood
<1>13. \A m \in 1 .. n : stack'[m].at = "arm" => BranchGood(stack', m, next')
  <2>1. n \in 0 .. Len(stack) /\ next <= next'
    BY <1>0, <1>1
  <2>. QED
    BY <1>2, <2>1, BranchesBelow
<1>14. \A m \in 1 .. n + 1 : m = n + 1 \/ m \in 1 .. n
  OBVIOUS
<1>15. \A m \in 1 .. n + 1 : stack'[m].at = "arm" => BranchGood(stack', m, next')
  BY <1>2, <1>12, <1>13, <1>14
<1>16. runs' # {}
  BY <1>2, <1>3 DEF BranchGood
<1>. QED
  BY <1>2, <1>7, <1>15, <1>16 DEF WalkGood

\* The arms are joined.
LEMMA MergeGood ==
  ASSUME TypeOK, Shape, WalkGood, Top.at = "arm", NEW ends, ends = Append(Top.ends, delta),
         Others(ends) = {}, NEW n \in Nat, Len(stack) = n + 1,
         NEW e, NEW s, NEW R, e = Top.env, s = Top.scope, R = Top.ended \cup runs
  PROVE  Good(stack, n, ends[1], e, s, R, next)
<1>2. Top = stack[n + 1] /\ Top \in Frames /\ next \in Nat
  BY TopTypes DEF TypeOK
<1>3. BranchGood(stack, n + 1, next)
  BY <1>2 DEF WalkGood
<1>4. n + 1 - 1 = n
  OBVIOUS
<1>5. Top.ends \in Seq(Deltas)
  BY <1>2, FrameTypes
<1>7. /\ DOMAIN Top.ends = 1 .. Len(Top.ends) /\ Len(Top.ends) \in Nat
      /\ DOMAIN ends = 1 .. Len(Top.ends) + 1
      /\ \A j \in 1 .. Len(Top.ends) : ends[j] = Top.ends[j]
      /\ ends[Len(Top.ends) + 1] = delta
  BY <1>5
<1>8. \A r \in runs : Ended(stack, n + 1, delta, r, next)
  BY ArmEnds
<1>9. ASSUME NEW r \in R
      PROVE  \E j \in DOMAIN ends : Ended(stack, n + 1, ends[j], r, next)
  <2>1. CASE r \in Top.ended
    <3>1. PICK j \in DOMAIN Top.ends : Ended(stack, n + 1, Top.ends[j], r, next)
      BY <1>2, <1>3, <2>1 DEF BranchGood
    <3>. QED
      BY <1>7, <3>1
  <2>2. CASE r \in runs
    <3>1. Len(Top.ends) + 1 \in DOMAIN ends
      BY <1>7
    <3>. QED
      BY <1>7, <1>8, <2>2, <3>1
  <2>. QED
    BY <1>9, <2>1, <2>2
<1>10. \E r : Ended(stack, n + 1, ends[1], r, next)
  <2>1. CASE 1 \in DOMAIN Top.ends
    <3>1. PICK r \in Top.ended : Ended(stack, n + 1, Top.ends[1], r, next)
      BY <1>2, <1>3, <2>1 DEF BranchGood
    <3>2. ends[1] = Top.ends[1]
      BY <1>7, <2>1
    <3>. QED
      BY <3>1, <3>2
  <2>2. CASE Len(Top.ends) = 0
    <3>1. PICK r : r \in runs
      BY DEF WalkGood
    <3>2. ends[1] = delta
      BY <1>7, <2>2
    <3>. QED
      BY <1>8, <3>1, <3>2
  <2>. QED
    BY <1>7, <2>1, <2>2
<1>11. 1 \in DOMAIN ends
  BY <1>7
<1>12. PICK d : d = ends[1]
  OBVIOUS
<1>13. Good(stack, n, d, e, s, {}, next)
  <2>1. PICK r : Ended(stack, n + 1, ends[1], r, next)
    BY <1>10
  <2>2. Good(stack, n, d, e, s, {r}, next)
    BY <1>2, <1>4, <1>12, <2>1 DEF Ended
  <2>3. {} \in SUBSET {r} /\ next <= next
    BY <1>2
  <2>. QED
    BY <1>2, <2>2, <2>3, GoodWeaken
<1>14. Joins(stack, n, d, e, s, R, next)
  <2>. SUFFICES ASSUME NEW r \in R
                PROVE  \E d3 : Good(stack, n, d3, e, s, {r}, next) /\ Same(d, d3)
    BY DEF Joins
  <2>1. PICK j \in DOMAIN ends : Ended(stack, n + 1, ends[j], r, next)
    BY <1>9
  <2>2. Good(stack, n, ends[j], e, s, {r}, next)
    BY <1>2, <1>4, <2>1 DEF Ended
  <2>3. Residual(ends[j]) = Residual(d)
    BY <1>11, <1>12 DEF Others
  <2>4. \A x \in Names : Available(ends[j], x) <=> Available(d, x)
    BY <2>3 DEF Residual
  <2>5. \A x \in Names : Available(ends[j], x) => ends[j][x] = Top.delta[x]
    BY <1>2, <2>1 DEF Ended
  <2>6. \A x \in Names : Available(d, x) => d[x] = Top.delta[x]
    BY <1>2, <1>10, <1>12 DEF Ended
  <2>7. Same(d, ends[j])
    BY <2>4, <2>5, <2>6 DEF Same
  <2>. QED
    BY <2>2, <2>7
<1>15. Good(stack, n, d, e, s, R, next)
  BY <1>13, <1>14, GoodJoin
<1>. QED
  BY <1>12, <1>15

\* The walk after the merge.
LEMMA MergeWalk ==
  ASSUME TypeOK, Shape, TypeOK', WalkGood, Top.at = "arm", stack' = Popped,
         env' = Top.env, scope' = Top.scope, next' = next, runs' = Top.ended \cup runs,
         NEW ends, ends = Append(Top.ends, delta), Others(ends) = {}, delta' = ends[1]
  PROVE  WalkGood'
<1>0. stack \in Seq(Frames) /\ stack # <<>> /\ next \in Nat
  BY DEF TypeOK, Shape
<1>1. PICK n \in Nat : n = Len(stack) - 1 /\ Len(stack) = n + 1
  BY TopTypes
<1>2. Len(stack') = n /\ \A m \in 1 .. n : stack'[m] = stack[m]
  BY <1>0, <1>1, StackTypes
<1>4. Good(stack, n, delta', env', scope', runs', next)
  <2>1. PICK e, s, R : e = Top.env /\ s = Top.scope /\ R = Top.ended \cup runs
    OBVIOUS
  <2>2. Good(stack, n, ends[1], e, s, R, next)
    BY <1>1, <2>1, MergeGood
  <2>. QED
    BY <2>1, <2>2
<1>5. Good(stack', n, delta', env', scope', runs', next)
  BY <1>2, <1>4, GoodBelow
<1>6. \A m \in 1 .. n : stack'[m].at = "arm" => BranchGood(stack', m, next')
  <2>1. n \in 0 .. Len(stack) /\ next <= next'
    BY <1>0, <1>1
  <2>. QED
    BY <1>2, <2>1, BranchesBelow
<1>7. runs' # {}
  BY DEF WalkGood
<1>. QED
  BY <1>2, <1>5, <1>6, <1>7 DEF WalkGood

\* A resource is used, or a classical name that hides one.
LEMMA SpendWalk ==
  ASSUME TypeOK, Shape, WalkGood, NEW x \in Names, env[x] = None, Available(delta, x),
         ~Repeated(scope[x]), delta' = Spend(delta, x),
         runs' = UseOf(scope[x]), UNCHANGED <<env, stack, scope, next>>
  PROVE  WalkGood'
<1>. DEFINE b == scope[x]
            n == Len(stack)
<1>0. /\ n \in Nat /\ delta \in Deltas /\ next \in 1 .. MaxBindings + 1 /\ runs \subseteq Runs
      /\ Good(stack, n, delta, env, scope, runs, next) /\ runs # {}
  BY TopTypes DEF TypeOK, WalkGood
<1>1. b \in Bindings /\ \A r \in runs : r[b] = "unused"
  <2>. HIDE DEF n
  <2>1. FreeUse(stack, n, delta, scope, runs, x)
    BY <1>0, FreeIsUnused
  <2>. QED
    BY <2>1 DEF FreeUse, b
<1>. HIDE DEF b
<1>2. b # 0
  BY <1>1 DEF Bindings
<1>3. Spent(runs, runs', b)
  BY <1>0, <1>1, <1>2 DEF UseOf, AfterUse, Runs, Spent, b
<1>4. Good(stack, n, delta', env, scope, runs', next)
  <2>. HIDE DEF n
  <2>. QED
    BY <1>0, <1>3, GoodSpend DEF b
<1>5. runs' # {}
  BY <1>0, RunTypes
<1>. QED
  BY <1>4, <1>5 DEF WalkGood

\* The walk after the use of a name of the unrestricted context, which hides a resource or
\* none.
LEMMA MisuseWalk ==
  ASSUME TypeOK, Shape, WalkGood, NEW x \in Names, env[x] # None,
         runs' = UseOf(scope[x]), UNCHANGED <<delta, env, stack, scope, next>>
  PROVE  WalkGood'
<1>. DEFINE b == scope[x]
            n == Len(stack)
<1>0. /\ n \in Nat /\ next \in 1 .. MaxBindings + 1 /\ runs \subseteq Runs
      /\ Good(stack, n, delta, env, scope, runs, next) /\ runs # {}
      /\ b \in Bindings \cup {0}
  BY TopTypes DEF TypeOK, WalkGood, Scopes
<1>1. CASE b = 0
  BY <1>1 DEF UseOf, WalkGood
<1>2. CASE b # 0
  <2>1. Uses(runs, runs', scope[x])
    BY <1>0, <1>2 DEF Uses, UseOf, AfterUse, Runs
  <2>2. Good(stack, n, delta, env, scope, runs', next)
    <3>. HIDE DEF n
    <3>. QED
      BY <1>0, <1>2, <2>1, GoodMisuse
  <2>3. runs' # {}
    BY <1>0, RunTypes
  <2>. QED
    BY <2>2, <2>3 DEF WalkGood
<1>. QED
  BY <1>1, <1>2

--------------------------------------------------------------------------------
(* The steps keep the inductive invariant.                                     *)

\* The frames below the one that is pushed, left or replaced stay what they were.
LEMMA PushClassical ==
  ASSUME TypeOK, Shape, ClassicalInv, NEW f \in Frames, stack' = Push(f), FrameClassical(f),
         ClassicalEnv(env'), IntHoldsNothing(value')
  PROVE  ClassicalInv'
<1>0. stack \in Seq(Frames) /\ stack # <<>>
  BY DEF TypeOK, Shape
<1>1. /\ Len(stack) \in Nat /\ Len(stack') = Len(stack) + 1 /\ stack'[Len(stack) + 1] = f
      /\ \A m \in 1 .. Len(stack) : stack'[m] = stack[m]
  BY <1>0, StackTypes
<1>2. \A k \in 1 .. Len(stack) + 1 : k = Len(stack) + 1 \/ k \in 1 .. Len(stack)
  BY <1>1
<1>. QED
  BY <1>1, <1>2 DEF ClassicalInv

\* A replaced frame.
LEMMA ReplaceClassical ==
  ASSUME TypeOK, Shape, ClassicalInv, NEW f \in Frames, stack' = Replace(f), FrameClassical(f),
         ClassicalEnv(env'), IntHoldsNothing(value')
  PROVE  ClassicalInv'
<1>0. stack \in Seq(Frames) /\ stack # <<>>
  BY DEF TypeOK, Shape
<1>1. /\ Len(stack) \in Nat /\ Len(stack') = Len(stack) /\ stack'[Len(stack)] = f
      /\ \A m \in 1 .. Len(stack) - 1 : stack'[m] = stack[m]
  BY <1>0, StackTypes
<1>2. \A k \in 1 .. Len(stack) : k = Len(stack) \/ k \in 1 .. Len(stack) - 1
  BY <1>1
<1>. QED
  BY <1>1, <1>2 DEF ClassicalInv

\* A popped frame.
LEMMA PopClassical ==
  ASSUME TypeOK, Shape, ClassicalInv, stack' = Popped,
         env' = env \/ (Top.at \in Scoped /\ env' = Top.env), IntHoldsNothing(value')
  PROVE  ClassicalInv'
<1>0. stack \in Seq(Frames) /\ stack # <<>>
  BY DEF TypeOK, Shape
<1>1. /\ Len(stack) \in Nat \ {0} /\ Len(stack') = Len(stack) - 1 /\ Top = stack[Len(stack)]
      /\ \A m \in 1 .. Len(stack) - 1 : stack'[m] = stack[m]
  BY <1>0, StackTypes
<1>2. ClassicalEnv(env')
  BY <1>1 DEF ClassicalInv, FrameClassical
<1>. QED
  BY <1>1, <1>2 DEF ClassicalInv

\* A refusal changes the verdict only.
LEMMA RejectStep ==
  ASSUME LinearInv, TypeOK', Shape', NEW error, NEW x, Reject(error, x)
  PROVE  LinearInv'
  BY DEF LinearInv, Reject, ClassicalInv, WalkGood

\* Nothing is bound or used, only a value is given.
LEMMA ValueStep ==
  ASSUME LinearInv, TypeOK', Shape', UNCHANGED <<delta, env, stack, scope, runs, next>>,
         IntHoldsNothing(value')
  PROVE  LinearInv'
  BY DEF LinearInv, ClassicalInv, WalkGood

\* The steps that use no name and open and close nothing.
LEMMA ValueSteps ==
  ASSUME LinearInv, TypeOK', Shape', Literal \/ Gate \/ Allocate \/ Measure \/ Reset \/ Return
  PROVE  LinearInv'
<1>1. CASE Literal \/ Gate \/ Allocate
  <2>1. IntHoldsNothing(value')
    BY <1>1 DEF Literal, Gate, Allocate, Give, Pure, Type, IntHoldsNothing
  <2>. QED
    BY <1>1, <2>1, ValueStep DEF Literal, Gate, Allocate, Give
<1>2. CASE Measure \/ Reset
  <2>0. value \in Types
    BY <1>2 DEF Measure, Reset, Returned, LinearInv, TypeOK
  <2>1. value' \in Types /\ value'.monadic
    BY <1>2, <2>0 DEF Measure, Reset, Types, Kinds
  <2>2. IntHoldsNothing(value')
    BY <2>1 DEF IntHoldsNothing
  <2>. QED
    BY <1>2, <2>2, ValueStep DEF Measure, Reset
<1>3. CASE Return
  <2>0. value \in Types
    BY <1>3 DEF Return, Returned, LinearInv, TypeOK
  <2>1. CASE value' = [value EXCEPT !.monadic = TRUE]
             /\ UNCHANGED <<delta, env, stack, verdict, scope, runs, next, nodes>>
    <3>1. value' \in Types /\ value'.monadic
      BY <2>0, <2>1 DEF Types
    <3>2. IntHoldsNothing(value')
      BY <3>1 DEF IntHoldsNothing
    <3>. QED
      BY <2>1, <3>2, ValueStep
  <2>2. ASSUME NEW x, Reject("BorrowEscape", x)
        PROVE  LinearInv'
    BY <2>2, RejectStep
  <2>. QED
    BY <1>3, <2>1, <2>2 DEF Return
<1>. QED
  BY <1>1, <1>2, <1>3

\* The steps that use a name.
LEMMA UseSteps ==
  ASSUME Reexecuted = {}, LinearInv, TypeOK', Shape', NEW x \in Names,
         UseUnrestricted(x) \/ UseLinear(x) \/ UsedTwice(x) \/ Capture(x)
  PROVE  LinearInv'
<1>. USE DEF LinearInv
<1>1. CASE UseUnrestricted(x)
  <2>1. IntHoldsNothing(value')
    <3>1. ~env[x].holds /\ env[x] \in Types
      BY <1>1 DEF UseUnrestricted, ClassicalInv, ClassicalEnv, Classical, TypeOK, Envs
    <3>2. value' = [env[x] EXCEPT !.names = Mentioned(x)]
      BY <1>1 DEF UseUnrestricted, Give
    <3>. QED
      BY <3>1, <3>2 DEF IntHoldsNothing, Types
  <2>2. ClassicalInv'
    BY <1>1, <2>1 DEF ClassicalInv, UseUnrestricted, Give
  <2>3. WalkGood'
    BY <1>1, MisuseWalk DEF UseUnrestricted, Give
  <2>. QED
    BY <2>2, <2>3
<1>2. CASE UseLinear(x)
  <2>1. IntHoldsNothing(value')
    <3>1. delta[x].kind \in Resources
      BY <1>2 DEF UseLinear, Available, TypeOK, Deltas, Entries
    <3>. QED
      BY <1>2, <3>1 DEF UseLinear, Type, IntHoldsNothing, Resources
  <2>2. ClassicalInv'
    BY <1>2, <2>1 DEF ClassicalInv, UseLinear
  <2>3. WalkGood'
    <3>1. delta' = Spend(delta, x)
      BY <1>2 DEF UseLinear, Spend
    <3>. QED
      BY <1>2, <3>1, SpendWalk DEF UseLinear
  <2>. QED
    BY <2>2, <2>3
<1>3. CASE UsedTwice(x) \/ Capture(x)
  <2>. USE DEF UsedTwice, Capture
  <2>. QED
    BY <1>3, RejectStep
<1>. QED
  BY <1>1, <1>2, <1>3

\* What a pattern binds is pushed with its scope.
LEMMA BindPushes ==
  ASSUME TypeOK, NEW t \in Types, NEW pat \in Patterns(t), BadSlots(pat, t) = {},
         IsLinear(t) \/ ~t.holds, BindPattern(pat, t),
         NEW f, f.at = "body", f.introduced = Introduced(pat, t), f.env = env, f.scope = scope
  PROVE  /\ Pushed(f, delta, env, scope, runs, next, delta', env', scope', runs', next')
         /\ ClassicalEnv(env) => ClassicalEnv(env')
<1>1. PatternView(pat, t)
  BY PatternTypes DEF TypeOK
<1>2. /\ next \in 1 .. MaxBindings + 1 /\ next' \in next .. MaxBindings + 1
      /\ next' = next + Len(pat) /\ next \in Nat /\ next' \in Nat
  <2>1. next' \in 1 .. MaxBindings + 1 /\ next' = next + Len(pat)
    BY BindTypes
  <2>. QED
    BY <1>1, <2>1, LinearAssumption DEF TypeOK, PatternView
<1>3. Intro(f) = Introduced(pat, t) /\ Intro(f) \subseteq Names
  BY <1>1 DEF Intro, PatternView
<1>4. ASSUME NEW x \in Introduced(pat, t)
      PROVE  /\ IsLinear(t) /\ scope'[x] = BindingOf(pat, x) /\ env'[x] = env[x]
             /\ scope'[x] \in next .. next' - 1
             /\ Available(delta', x) /\ delta'[x].binding = BindingOf(pat, x)
             /\ ~Available(delta, x)
  <2>1. IsLinear(t) /\ x \in Names
    BY <1>1, <1>4 DEF PatternView
  <2>2. scope'[x] = BindingOf(pat, x) /\ env' = env
        /\ delta'[x] = Entry(SlotKind(pat, t), BindingOf(pat, x))
    BY <1>4, <2>1 DEF BindPattern
  <2>3. BindingOf(pat, x) \in next .. next' - 1
    BY <1>1, <1>2, <1>4 DEF PatternView
  <2>4. ~Available(delta, x)
    <3>1. PICK j \in DOMAIN pat : pat[j] = x
      BY <1>1, <1>4 DEF PatternView
    <3>2. x # None
      BY <2>1, LinearAssumption
    <3>. QED
      BY <2>1, <3>1, <3>2 DEF BadSlots
  <2>. QED
    BY <2>1, <2>2, <2>3, <2>4 DEF Available, Entry
<1>5. \A x, y \in Introduced(pat, t) : scope'[x] = scope'[y] => x = y
  BY <1>1, <1>4 DEF PatternView
<1>6. t # None
  BY LinearAssumption
<1>7. ASSUME NEW x \in Names \ Introduced(pat, t)
      PROVE  /\ (env'[x] = env[x] /\ scope'[x] = scope[x]) \/ (env'[x] = t /\ ~t.holds /\ scope'[x] = 0)
             /\ delta'[x] = delta[x]
  <2>1. CASE IsLinear(t)
    BY <1>7, <2>1 DEF BindPattern, TypeOK, Envs, Scopes, Deltas
  <2>2. CASE ~IsLinear(t)
    BY <1>7, <2>2 DEF BindPattern, TypeOK, Envs, Scopes, Deltas
  <2>. QED
    BY <2>1, <2>2
<1>8. \A b \in Bindings : b \in Asks(pat, t) <=> \E x \in Introduced(pat, t) : scope'[x] = b
  <2>1. CASE IsLinear(t)
    BY <1>4, <2>1 DEF Asks
  <2>2. CASE ~IsLinear(t)
    BY <1>4, <2>2 DEF Asks
  <2>. QED
    BY <2>1, <2>2
<1>9. \A q \in runs' : \E r \in runs : \A b \in Bindings :
        q[b] = IF \E x \in Intro(f) : scope'[x] = b THEN "unused" ELSE r[b]
  <2>. SUFFICES ASSUME NEW q \in runs'
                PROVE  \E r \in runs : \A b \in Bindings :
                         q[b] = IF \E x \in Intro(f) : scope'[x] = b THEN "unused" ELSE r[b]
    OBVIOUS
  <2>1. PICK r \in runs : q = [b \in Bindings |-> IF b \in Asks(pat, t) THEN "unused" ELSE r[b]]
    BY DEF BindPattern, Owed
  <2>2. \A b \in Bindings : q[b] = IF b \in Asks(pat, t) THEN "unused" ELSE r[b]
    BY <2>1
  <2>. QED
    BY <1>3, <1>8, <2>2
<1>10. Pushed(f, delta, env, scope, runs, next, delta', env', scope', runs', next')
  <2>1. \A x \in Intro(f) :
          /\ scope'[x] \in next .. next' - 1 /\ env'[x] = env[x]
          /\ Available(delta', x) /\ delta'[x].binding = scope'[x]
          /\ f.at # "lambda" => ~Available(delta, x)
          /\ \A y \in Intro(f) : scope'[x] = scope'[y] => x = y
    BY <1>3, <1>4, <1>5
  <2>2. \A x \in Names \ Intro(f) :
          /\ (env'[x] = env[x] /\ scope'[x] = scope[x]) \/ (env'[x] # None /\ scope'[x] = 0)
          /\ IF f.at = "lambda" THEN delta'[x].state = "unknown" ELSE delta'[x] = delta[x]
    BY <1>3, <1>6, <1>7
  <2>. QED
    BY <1>2, <1>3, <1>9, <2>1, <2>2 DEF Pushed, Scoped
<1>11. ClassicalEnv(env) => ClassicalEnv(env')
  BY <1>4, <1>7 DEF ClassicalEnv, Classical
<1>. QED
  BY <1>10, <1>11

\* A frame that is no lambda is left.
LEMMA LeaveStep ==
  ASSUME LinearInv, TypeOK', Shape', Top.at \in Scoped \ {"lambda"}, Leave(Top),
         \A x \in Intro(Top) : ~Available(delta, x),
         UNCHANGED <<delta, runs, next>>, IntHoldsNothing(value')
  PROVE  LinearInv'
<1>1. ClassicalInv'
  BY PopClassical DEF LinearInv, Leave
<1>2. Leaves(Top, delta, env, scope, env', scope')
  BY DEF Leaves, Leave, Scoped
<1>3. WalkGood'
  BY <1>2, PopWalk DEF LinearInv, Leave
<1>. QED
  BY <1>1, <1>3 DEF LinearInv

\* The steps of let and <-.
LEMMA BindSteps ==
  ASSUME Reexecuted = {}, LinearInv, TypeOK', Shape', OpenRhs \/ CloseRhs \/ CloseBody
  PROVE  LinearInv'
<1>0. Top \in Frames /\ TypeOK /\ Shape /\ ClassicalInv /\ WalkGood
  BY TopTypes DEF LinearInv
<1>1. CASE OpenRhs
  <2>1. PICK monad \in BOOLEAN : Open([at |-> "rhs", monad |-> monad])
    BY <1>1 DEF OpenRhs
  <2>2. PICK f : f = [at |-> "rhs", monad |-> monad]
    OBVIOUS
  <2>3. f \in Frames /\ f.at = "rhs" /\ stack' = Push(f) /\ value' = value
    BY <2>1, <2>2 DEF Frames, Open
  <2>4. UNCHANGED <<delta, env, scope, runs, next>> /\ runs # {}
    BY <1>0, <1>1 DEF OpenRhs, WalkGood
  <2>5. Pushed(f, delta, env, scope, runs, next, delta', env', scope', runs', next')
    BY <1>0, <2>3, <2>4 DEF Pushed, Intro, Scoped, TypeOK
  <2>6. WalkGood'
    BY <1>0, <2>3, <2>4, <2>5, PushWalk
  <2>7. ClassicalInv'
    BY <1>0, <2>3, <2>4, PushClassical DEF ClassicalInv, FrameClassical, Scoped
  <2>. QED
    BY <2>6, <2>7 DEF LinearInv
<1>2. CASE CloseRhs
  <2>1. value \in Types /\ Top.at = "rhs" /\ Top.monad \in BOOLEAN
    BY <1>0, <1>2, FrameTypes DEF CloseRhs, Returned, TypeOK
  <2>2. PICK t : t = IF Top.monad THEN Payload(value) ELSE value
    OBVIOUS
  <2>3. t \in Types
    BY <2>1, <2>2, PayloadTypes
  <2>4. IsLinear(t) \/ ~t.holds
    <3>1. CASE Top.monad
      BY <2>1, <2>2, <3>1, PayloadTypes DEF IsLinear
    <3>2. CASE ~Top.monad /\ value.monadic
      BY <1>2, <2>2, <3>2 DEF CloseRhs
    <3>3. CASE ~Top.monad /\ ~value.monadic
      <4>1. IntHoldsNothing(value)
        BY <1>0 DEF ClassicalInv
      <4>. QED
        BY <2>1, <2>2, <3>3, <4>1, LinearAssumption
           DEF IntHoldsNothing, IsLinear, Types, Kinds, Resources
    <3>. QED
      BY <2>1, <3>1, <3>2, <3>3 DEF Types
  <2>5. PICK pat \in Patterns(t) :
          IF BadSlots(pat, t) = {}
          THEN /\ BindPattern(pat, t)
               /\ stack' = Replace([at |-> "body", monad |-> Top.monad,
                                    introduced |-> Introduced(pat, t),
                                    env |-> env, scope |-> scope,
                                    names |-> value.names,
                                    holds |-> Top.monad /\ value.holds])
               /\ value' = None
               /\ UNCHANGED <<verdict, nodes>>
          ELSE LET j == CHOOSE i \in BadSlots(pat, t) : \A k \in BadSlots(pat, t) : i <= k
               IN Reject(IF pat[j] = None THEN "LinearDiscard" ELSE "LinearUnconsumed", pat[j])
    BY <1>2, <2>2 DEF CloseRhs
  <2>6. CASE BadSlots(pat, t) = {}
    <3>1. PICK f : f = [at |-> "body", monad |-> Top.monad, introduced |-> Introduced(pat, t),
                        env |-> env, scope |-> scope, names |-> value.names,
                        holds |-> Top.monad /\ value.holds]
      OBVIOUS
    <3>2. BindPattern(pat, t) /\ stack' = Replace(f) /\ value' = None
      BY <2>5, <2>6, <3>1
    <3>3. f.at = "body" /\ f.introduced = Introduced(pat, t) /\ f.env = env /\ f.scope = scope
      BY <3>1
    <3>4. f \in Frames
      <4>1. Introduced(pat, t) \in SUBSET Names
        BY <1>0, <2>3, PatternTypes DEF PatternView, TypeOK
      <4>2. value.names \in SUBSET Names /\ (Top.monad /\ value.holds) \in BOOLEAN
        BY <2>1 DEF Types
      <4>. QED
        BY <1>0, <2>1, <3>1, <4>1, <4>2 DEF Frames, TypeOK
    <3>5. /\ Pushed(f, delta, env, scope, runs, next, delta', env', scope', runs', next')
          /\ ClassicalEnv(env')
      BY <1>0, <2>3, <2>4, <2>6, <3>2, <3>3, BindPushes DEF ClassicalInv
    <3>6. Leaves(Top, delta, env, scope, env, scope)
      BY <2>1 DEF Leaves, Intro, Scoped
    <3>7. runs' # {}
      BY <1>0, <3>2, RunTypes DEF BindPattern, TypeOK, WalkGood
    <3>8. WalkGood'
      BY <1>0, <3>2, <3>3, <3>4, <3>5, <3>6, <3>7, ReplaceWalk
    <3>9. FrameClassical(f) /\ IntHoldsNothing(value')
      BY <1>0, <3>2, <3>3 DEF FrameClassical, ClassicalInv, IntHoldsNothing
    <3>10. ClassicalInv'
      BY <1>0, <3>2, <3>4, <3>5, <3>9, ReplaceClassical
    <3>. QED
      BY <3>8, <3>10 DEF LinearInv
  <2>7. CASE BadSlots(pat, t) # {}
    BY <2>5, <2>7, RejectStep
  <2>. QED
    BY <2>6, <2>7
<1>3. CASE CloseBody
  <2>1. Top.at = "body" /\ value \in Types /\ Top.holds \in BOOLEAN /\ Intro(Top) = Top.introduced
    BY <1>0, <1>3, FrameTypes DEF CloseBody, Returned, TypeOK
  <2>2. CASE /\ Left(Top) = {} /\ Leave(Top)
             /\ value' = [value EXCEPT !.names = @ \cup Top.names,
                                       !.holds = @ \/ (value.monadic /\ Top.holds)]
             /\ UNCHANGED <<delta, verdict, runs, next, nodes>>
    <3>1. value'.monadic = value.monadic /\ value'.kind = value.kind
          /\ (~value.monadic => value'.holds = value.holds)
      BY <2>1, <2>2 DEF Types
    <3>2. IntHoldsNothing(value')
      BY <1>0, <2>1, <3>1, LinearAssumption DEF IntHoldsNothing, ClassicalInv
    <3>3. \A x \in Intro(Top) : ~Available(delta, x)
      BY <2>1, <2>2 DEF Left
    <3>. QED
      BY <2>1, <2>2, <3>2, <3>3, LeaveStep DEF Scoped
  <2>3. ASSUME NEW x, Reject("LinearUnconsumed", x)
        PROVE  LinearInv'
    BY <2>3, RejectStep
  <2>. QED
    BY <1>3, <2>2, <2>3 DEF CloseBody
<1>. QED
  BY <1>1, <1>2, <1>3

\* The steps of if and match.
LEMMA BranchSteps ==
  ASSUME LinearInv, TypeOK', Shape', OpenBranch \/ NextArm \/ Merge
  PROVE  LinearInv'
<1>0. Top \in Frames /\ TypeOK /\ Shape /\ ClassicalInv /\ WalkGood /\ Top = stack[Len(stack)]
      /\ Len(stack) \in Nat \ {0}
  BY TopTypes DEF LinearInv
<1>1. CASE OpenBranch
  <2>1. PICK match \in BOOLEAN, arms \in 1 .. MaxArms :
          /\ Open([at |-> "arm", match |-> match, arms |-> arms, env |-> env, scope |-> scope,
                   delta |-> delta, runs |-> runs, ends |-> <<>>, ended |-> {}, result |-> None])
          /\ \E x \in Names \cup {None} : BindArm(x)
    BY <1>1 DEF OpenBranch
  <2>2. PICK x \in Names \cup {None} : BindArm(x)
    BY <2>1
  <2>3. PICK f : f = [at |-> "arm", match |-> match, arms |-> arms, env |-> env, scope |-> scope,
                      delta |-> delta, runs |-> runs, ends |-> <<>>, ended |-> {}, result |-> None]
    OBVIOUS
  <2>4. stack' = Push(f) /\ value' = value /\ UNCHANGED <<delta, runs, next>>
    BY <1>1, <2>1, <2>3 DEF Open, OpenBranch
  <2>5. f \in Frames
    <3>1. <<>> \in Seq(Deltas) /\ arms \in Nat
      BY LinearAssumption
    <3>. QED
      BY <1>0, <2>3, <3>1 DEF Frames, TypeOK
  <2>6. /\ f.at = "arm" /\ f.env = env /\ f.scope = scope /\ f.delta = delta /\ f.runs = runs
        /\ f.ends = <<>> /\ f.ended = {} /\ f.result = None
    BY <2>3
  <2>7. \A y \in Names : (env'[y] = env[y] /\ scope'[y] = scope[y])
                           \/ (env'[y] = Pure("int") /\ scope'[y] = 0)
    BY <2>2 DEF BindArm
  <2>8. Pushed(f, delta, env, scope, runs, next, delta', env', scope', runs', next')
    BY <1>0, <2>4, <2>6, <2>7, IntType DEF Pushed, Intro, Scoped, TypeOK
  <2>9. runs' # {}
    BY <1>0, <2>4 DEF WalkGood
  <2>10. WalkGood'
    BY <1>0, <2>4, <2>5, <2>6, <2>8, <2>9, PushWalk
  <2>11. ClassicalEnv(env')
    BY <1>0, <2>7, IntType DEF ClassicalInv, ClassicalEnv
  <2>12. FrameClassical(f) /\ IntHoldsNothing(value')
    BY <1>0, <2>4, <2>6 DEF FrameClassical, IntHoldsNothing, ClassicalInv
  <2>13. ClassicalInv'
    BY <1>0, <2>4, <2>5, <2>11, <2>12, PushClassical
  <2>. QED
    BY <2>10, <2>13 DEF LinearInv
<1>2. CASE NextArm \/ Merge
  <2>0. value \in Types /\ Top.at = "arm" /\ SameType(value)
    BY <1>0, <1>2 DEF NextArm, Merge, Returned, TypeOK
  <2>1. /\ Top.env \in Envs /\ Top.scope \in Scopes /\ Top.result \in Types \cup {None}
        /\ Top.match \in BOOLEAN
    BY <1>0, <2>0, FrameTypes DEF Scoped
  <2>2. ClassicalEnv(Top.env) /\ IntHoldsNothing(Top.result) /\ IntHoldsNothing(value)
    <3>1. FrameClassical(stack[Len(stack)])
      BY <1>0 DEF ClassicalInv
    <3>. QED
      BY <1>0, <2>0, <3>1 DEF FrameClassical, ClassicalInv, Scoped
  <2>3. IntHoldsNothing(Joined(value))
    <3>1. PICK h : h = (value.holds \/ (Top.result # None /\ Top.result.holds))
      OBVIOUS
    <3>2. PICK ns : ns = IF Top.match THEN {}
                         ELSE value.names \cup (IF Top.result = None THEN {} ELSE Top.result.names)
      OBVIOUS
    <3>3. Joined(value) = [value EXCEPT !.holds = h, !.names = ns]
      BY <3>1, <3>2 DEF Joined
    <3>4. Joined(value).kind = value.kind /\ Joined(value).monadic = value.monadic
          /\ Joined(value).holds = h
      BY <2>0, <3>3 DEF Types
    <3>5. value # None
      BY <2>0, LinearAssumption
    <3>6. value.kind = "int" /\ ~value.monadic => ~h
      BY <2>0, <2>1, <2>2, <3>1, <3>5 DEF SameType, IntHoldsNothing
    <3>. QED
      BY <3>4, <3>6 DEF IntHoldsNothing
  <2>4. CASE NextArm
    <3>1. PICK f : f = [Top EXCEPT !.ends = Append(@, delta), !.ended = @ \cup runs,
                                   !.result = Joined(value)]
      OBVIOUS
    <3>2. stack' = Replace(f) /\ delta' = Top.delta /\ runs' = Top.runs /\ value' = None
          /\ next' = next
      BY <2>4, <3>1 DEF NextArm, ArmContext
    <3>3. Top \in [at : {"arm"}, match : BOOLEAN, arms : Nat, env : Envs, scope : Scopes,
                   delta : Deltas, runs : SUBSET Runs, ends : Seq(Deltas),
                   ended : SUBSET Runs, result : Types \cup {None}]
      BY <1>0, <2>0 DEF Frames
    <3>4. /\ f.at = "arm" /\ f.env = Top.env /\ f.scope = Top.scope /\ f.delta = Top.delta
          /\ f.runs = Top.runs /\ f.ends = Append(Top.ends, delta)
          /\ f.ended = Top.ended \cup runs /\ f.result = Joined(value)
      BY <3>1, <3>3
    <3>5. f \in Frames
      <4>1. delta \in Deltas /\ runs \in SUBSET Runs
        BY <1>0 DEF TypeOK
      <4>2. Append(Top.ends, delta) \in Seq(Deltas)
        BY <3>3, <4>1
      <4>3. Joined(value) \in Types
        BY <2>0, <2>1, JoinedTypes
      <4>. QED
        BY <3>1, <3>3, <4>1, <4>2, <4>3 DEF Frames
    <3>6. \A y \in Names : (env'[y] = Top.env[y] /\ scope'[y] = Top.scope[y])
                             \/ (env'[y] = Pure("int") /\ scope'[y] = 0)
      BY <2>4 DEF NextArm
    <3>7. WalkGood'
      BY <1>0, <2>0, <3>2, <3>4, <3>5, <3>6, IntType, NextArmWalk
    <3>8. ClassicalEnv(env')
      BY <2>2, <3>6, IntType DEF ClassicalEnv
    <3>9. FrameClassical(f) /\ IntHoldsNothing(value')
      BY <2>2, <2>3, <3>2, <3>4 DEF FrameClassical, IntHoldsNothing
    <3>10. ClassicalInv'
      BY <1>0, <3>2, <3>5, <3>8, <3>9, ReplaceClassical
    <3>. QED
      BY <3>7, <3>10 DEF LinearInv
  <2>5. CASE Merge
    <3>1. PICK ends : ends = Append(Top.ends, delta)
      OBVIOUS
    <3>2. CASE /\ Others(ends) = {} /\ Leave(Top)
               /\ delta' = ends[1] /\ runs' = Top.ended \cup runs /\ value' = Joined(value)
               /\ UNCHANGED <<verdict, next, nodes>>
      <4>1. WalkGood'
        BY <1>0, <2>0, <3>1, <3>2, MergeWalk DEF Leave
      <4>2. ClassicalInv'
        BY <1>0, <2>0, <2>3, <3>2, PopClassical DEF Leave, Scoped
      <4>. QED
        BY <4>1, <4>2 DEF LinearInv
    <3>3. ASSUME NEW x, Reject("LinearBranchMismatch", x)
          PROVE  LinearInv'
      BY <3>3, RejectStep
    <3>. QED
      BY <2>5, <3>1, <3>2, <3>3 DEF Merge
  <2>. QED
    BY <1>2, <2>4, <2>5
<1>. QED
  BY <1>1, <1>2

\* The steps of lambdas.
LEMMA LambdaSteps ==
  ASSUME LinearInv, TypeOK', Shape', OpenLambda \/ CloseLambda
  PROVE  LinearInv'
<1>0. Top \in Frames /\ TypeOK /\ Shape /\ ClassicalInv /\ WalkGood /\ Top = stack[Len(stack)]
      /\ Len(stack) \in Nat \ {0}
  BY TopTypes DEF LinearInv
<1>1. CASE OpenLambda
  <2>1. PICK x \in Names, kind \in {"int", "lin"} :
          /\ Open([at |-> "lambda", introduced |-> IF kind = "lin" THEN {x} ELSE {},
                   env |-> env, scope |-> scope, delta |-> delta, binding |-> next])
          /\ delta' = [y \in Names |-> IF kind = "lin" /\ y = x THEN Entry(kind, next) ELSE Unknown]
          /\ env' = IF kind = "lin" THEN env ELSE [env EXCEPT ![x] = Pure("int")]
          /\ scope' = [scope EXCEPT ![x] = IF kind = "lin" THEN next ELSE 0]
          /\ runs' = Owed(IF kind = "lin" THEN {next} ELSE {})
          /\ next' = next + 1
    BY <1>1 DEF OpenLambda
  <2>2. PICK f : f = [at |-> "lambda", introduced |-> IF kind = "lin" THEN {x} ELSE {},
                      env |-> env, scope |-> scope, delta |-> delta, binding |-> next]
    OBVIOUS
  <2>3. /\ next \in Bindings /\ next \in 1 .. MaxBindings + 1 /\ next' \in next .. MaxBindings + 1
        /\ next \in Nat
    BY <1>0, <1>1, <2>1, LinearAssumption DEF OpenLambda, Bindings, TypeOK
  <2>4. f \in Frames
    BY <1>0, <2>2, <2>3 DEF Frames, TypeOK
  <2>5. stack' = Push(f) /\ value' = value
    BY <2>1, <2>2 DEF Open
  <2>6. /\ f.at = "lambda" /\ f.introduced = IF kind = "lin" THEN {x} ELSE {}
        /\ f.env = env /\ f.scope = scope /\ f.delta = delta /\ f.binding = next
    BY <2>2
  <2>7. Intro(f) = IF kind = "lin" THEN {x} ELSE {}
    BY <2>6 DEF Intro
  <2>8. /\ \A y \in Intro(f) : /\ y = x /\ scope'[y] = next /\ env'[y] = env[y]
                               /\ Available(delta', y) /\ delta'[y].binding = next
        /\ \A y \in Names \ Intro(f) :
             /\ (env'[y] = env[y] /\ scope'[y] = scope[y]) \/ (env'[y] = Pure("int") /\ scope'[y] = 0)
             /\ delta'[y].state = "unknown"
    BY <1>0, <2>1, <2>7 DEF Available, Entry, Unknown, TypeOK, Envs, Scopes
  <2>9. \A q \in runs' : \E r \in runs : \A b \in Bindings :
          q[b] = IF \E y \in Intro(f) : scope'[y] = b THEN "unused" ELSE r[b]
    <3>1. \A b \in Bindings : (\E y \in Intro(f) : scope'[y] = b) <=> b \in IF kind = "lin" THEN {next} ELSE {}
      BY <2>7, <2>8
    <3>. QED
      BY <2>1, <3>1 DEF Owed
  <2>10. Pushed(f, delta, env, scope, runs, next, delta', env', scope', runs', next')
    <3>1. \A y \in Intro(f) :
            /\ scope'[y] \in next .. next' - 1 /\ env'[y] = env[y]
            /\ Available(delta', y) /\ delta'[y].binding = scope'[y]
            /\ \A z \in Intro(f) : scope'[y] = scope'[z] => y = z
      BY <2>1, <2>3, <2>8
    <3>2. Intro(f) \subseteq Names /\ next < next'
      BY <2>1, <2>3, <2>7
    <3>. QED
      BY <2>3, <2>6, <2>8, <2>9, <3>1, <3>2, IntType DEF Pushed, Scoped
  <2>11. runs' # {}
    BY <1>0, <2>1, RunTypes DEF WalkGood, TypeOK
  <2>12. WalkGood'
    BY <1>0, <2>4, <2>5, <2>6, <2>10, <2>11, PushWalk
  <2>13. ClassicalEnv(env')
    BY <1>0, <2>8, IntType DEF ClassicalInv, ClassicalEnv
  <2>14. ClassicalInv'
    BY <1>0, <2>4, <2>5, <2>6, <2>13, PushClassical DEF FrameClassical, ClassicalInv
  <2>. QED
    BY <2>12, <2>14 DEF LinearInv
<1>2. CASE CloseLambda
  <2>1. Top.at = "lambda" /\ Top.introduced = Intro(Top)
    BY <1>0, <1>2, FrameTypes DEF CloseLambda
  <2>2. CASE /\ Left(Top) = {} /\ Leave(Top)
             /\ delta' = Top.delta /\ value' = Pure("int")
             /\ UNCHANGED <<verdict, runs, next, nodes>>
    <3>1. \A x \in Intro(Top) : ~Available(delta, x)
      BY <2>1, <2>2 DEF Left
    <3>2. WalkGood'
      BY <1>0, <2>1, <2>2, <3>1, CloseWalk DEF Leave
    <3>3. IntHoldsNothing(value')
      BY <2>2, IntType DEF IntHoldsNothing, Classical
    <3>4. ClassicalInv'
      BY <1>0, <2>1, <2>2, <3>3, PopClassical DEF Leave, Scoped
    <3>. QED
      BY <3>2, <3>4 DEF LinearInv
  <2>3. ASSUME NEW x, Reject("LinearUnconsumed", x)
        PROVE  LinearInv'
    BY <2>3, RejectStep
  <2>. QED
    BY <1>2, <2>2, <2>3 DEF CloseLambda
<1>. QED
  BY <1>1, <1>2

\* The steps of loops and borrow blocks.
LEMMA BlockSteps ==
  ASSUME LinearInv, TypeOK', Shape', OpenFor \/ CloseFor \/ OpenBorrow \/ CloseBorrow
  PROVE  LinearInv'
<1>0. Top \in Frames /\ TypeOK /\ Shape /\ ClassicalInv /\ WalkGood
      /\ next \in 1 .. MaxBindings + 1 /\ next \in Nat
  BY TopTypes, LinearAssumption DEF LinearInv, TypeOK
<1>1. CASE OpenFor
  <2>1. PICK x \in Names :
          /\ Open([at |-> "for", env |-> env, scope |-> scope, binding |-> next])
          /\ BindArm(x)
    BY <1>1 DEF OpenFor
  <2>2. PICK f : f = [at |-> "for", env |-> env, scope |-> scope, binding |-> next]
    OBVIOUS
  <2>3. f \in Frames
    BY <1>0, <2>2 DEF Frames, TypeOK
  <2>4. stack' = Push(f) /\ value' = value /\ UNCHANGED <<delta, runs, next>>
    BY <1>1, <2>1, <2>2 DEF Open, OpenFor
  <2>5. f.at = "for" /\ f.env = env /\ f.scope = scope
    BY <2>2
  <2>6. \A y \in Names : (env'[y] = env[y] /\ scope'[y] = scope[y])
                           \/ (env'[y] = Pure("int") /\ scope'[y] = 0)
    BY <2>1 DEF BindArm
  <2>7. Pushed(f, delta, env, scope, runs, next, delta', env', scope', runs', next')
    BY <1>0, <2>4, <2>5, <2>6, IntType DEF Pushed, Intro, Scoped
  <2>8. runs' # {}
    BY <1>0, <2>4 DEF WalkGood
  <2>9. WalkGood'
    BY <1>0, <2>3, <2>4, <2>5, <2>7, <2>8, PushWalk
  <2>10. ClassicalEnv(env')
    BY <1>0, <2>6, IntType DEF ClassicalInv, ClassicalEnv
  <2>11. ClassicalInv'
    BY <1>0, <2>3, <2>4, <2>5, <2>10, PushClassical DEF FrameClassical, ClassicalInv
  <2>. QED
    BY <2>9, <2>11 DEF LinearInv
<1>2. CASE CloseFor
  <2>1. Top.at = "for" /\ value \in Types
    BY <1>0, <1>2 DEF CloseFor, Returned, TypeOK
  <2>2. value' \in Types /\ value'.kind = "circ"
    BY <1>2, <2>1 DEF CloseFor, Types
  <2>3. IntHoldsNothing(value')
    BY <2>2 DEF IntHoldsNothing
  <2>. QED
    BY <1>2, <2>1, <2>3, LeaveStep DEF CloseFor, Scoped, Intro
<1>3. CASE OpenBorrow
  <2>1. PICK x \in Names :
          IF Available(delta, x) THEN Reject("LinearUnconsumed", x)
          ELSE /\ next <= MaxBindings
               /\ Open([at |-> "borrow", introduced |-> {x}, env |-> env, scope |-> scope])
               /\ delta' = [delta EXCEPT ![x] = Entry("lin", next)]
               /\ scope' = [scope EXCEPT ![x] = next]
               /\ runs' = Owed({next})
               /\ next' = next + 1
               /\ UNCHANGED env
    BY <1>3 DEF OpenBorrow
  <2>2. CASE Available(delta, x)
    BY <2>1, <2>2, RejectStep
  <2>3. CASE ~Available(delta, x)
    <3>1. PICK f : f = [at |-> "borrow", introduced |-> {x}, env |-> env, scope |-> scope]
      OBVIOUS
    <3>2. f \in Frames
      BY <1>0, <3>1 DEF Frames, TypeOK
    <3>3. stack' = Push(f) /\ value' = value /\ env' = env
      BY <2>1, <2>3, <3>1 DEF Open
    <3>4. f.at = "borrow" /\ f.introduced = {x} /\ f.env = env /\ f.scope = scope
      BY <3>1
    <3>5. Intro(f) = {x}
      BY <3>4 DEF Intro
    <3>6. next' = next + 1 /\ next' \in next .. MaxBindings + 1
      BY <1>0, <2>1, <2>3, LinearAssumption
    <3>7. /\ scope'[x] = next /\ Available(delta', x) /\ delta'[x].binding = next
          /\ \A y \in Names \ {x} : scope'[y] = scope[y] /\ delta'[y] = delta[y]
      BY <1>0, <2>1, <2>3 DEF Available, Entry, TypeOK, Deltas, Scopes
    <3>8. \A q \in runs' : \E r \in runs : \A b \in Bindings :
            q[b] = IF \E y \in Intro(f) : scope'[y] = b THEN "unused" ELSE r[b]
      <4>1. \A b \in Bindings : (\E y \in Intro(f) : scope'[y] = b) <=> b \in {next}
        BY <3>5, <3>7
      <4>2. runs' = Owed({next})
        BY <2>1, <2>3
      <4>. QED
        BY <4>1, <4>2 DEF Owed
    <3>9. Pushed(f, delta, env, scope, runs, next, delta', env', scope', runs', next')
      <4>1. scope'[x] \in next .. next' - 1
        BY <1>0, <3>6, <3>7
      <4>. QED
        BY <1>0, <2>3, <3>3, <3>4, <3>5, <3>6, <3>7, <3>8, <4>1 DEF Pushed, Scoped
    <3>10. runs' # {}
      BY <1>0, <2>1, <2>3, RunTypes DEF WalkGood, TypeOK
    <3>11. WalkGood'
      BY <1>0, <3>2, <3>3, <3>4, <3>9, <3>10, PushWalk
    <3>12. ClassicalInv'
      BY <1>0, <3>2, <3>3, <3>4, PushClassical DEF FrameClassical, ClassicalInv
    <3>. QED
      BY <3>11, <3>12 DEF LinearInv
  <2>. QED
    BY <2>2, <2>3
<1>4. CASE CloseBorrow
  <2>1. Top.at = "borrow" /\ value \in Types /\ Top.introduced = Intro(Top)
    BY <1>0, <1>4, FrameTypes DEF CloseBorrow, Returned, TypeOK
  <2>2. CASE /\ Left(Top) = {} /\ Leave(Top)
             /\ value' = [value EXCEPT !.names = {}]
             /\ UNCHANGED <<delta, verdict, runs, next, nodes>>
    <3>1. value' \in Types /\ value'.monadic
      BY <1>4, <2>1, <2>2 DEF CloseBorrow, Types
    <3>2. IntHoldsNothing(value')
      BY <3>1 DEF IntHoldsNothing
    <3>3. \A x \in Intro(Top) : ~Available(delta, x)
      BY <2>1, <2>2 DEF Left
    <3>. QED
      BY <2>1, <2>2, <3>2, <3>3, LeaveStep DEF Scoped
  <2>3. ASSUME NEW x, Reject("LinearUnconsumed", x)
        PROVE  LinearInv'
    BY <2>3, RejectStep
  <2>. QED
    BY <1>4, <2>2, <2>3 DEF CloseBorrow
<1>. QED
  BY <1>1, <1>2, <1>3, <1>4

\* The steps of pairs, and the end of the function.
LEMMA PairSteps ==
  ASSUME LinearInv, TypeOK', Shape', OpenPair \/ CloseLeft \/ CloseRight \/ CloseFunction
  PROVE  LinearInv'
<1>0. Top \in Frames /\ TypeOK /\ Shape /\ ClassicalInv /\ WalkGood
      /\ next \in 1 .. MaxBindings + 1 /\ next \in Nat /\ MaxBindings \in Nat
  BY TopTypes, LinearAssumption DEF LinearInv, TypeOK
<1>1. CASE OpenPair
  <2>1. PICK f : f = [at |-> "left"]
    OBVIOUS
  <2>2. f \in Frames /\ f.at = "left"
    BY <2>1 DEF Frames
  <2>3. stack' = Push(f) /\ value' = value /\ UNCHANGED <<delta, env, scope, runs, next>>
    BY <1>1, <2>1 DEF OpenPair, Open
  <2>4. Pushed(f, delta, env, scope, runs, next, delta', env', scope', runs', next')
    BY <1>0, <2>2, <2>3 DEF Pushed, Intro, Scoped
  <2>5. runs' # {}
    BY <1>0, <2>3 DEF WalkGood
  <2>6. WalkGood'
    BY <1>0, <2>2, <2>3, <2>4, <2>5, PushWalk
  <2>7. ClassicalInv'
    BY <1>0, <2>2, <2>3, PushClassical DEF ClassicalInv, FrameClassical, Scoped
  <2>. QED
    BY <2>6, <2>7 DEF LinearInv
<1>2. CASE CloseLeft
  <2>1. PICK f : f = [at |-> "right", names |-> value.names]
    OBVIOUS
  <2>2. f \in Frames /\ f.at = "right" /\ Top.at = "left"
    <3>1. value.names \in SUBSET Names
      BY <1>0, <1>2 DEF CloseLeft, Returned, TypeOK, Types
    <3>. QED
      BY <1>2, <2>1, <3>1 DEF Frames, CloseLeft
  <2>3. stack' = Replace(f) /\ value' = None /\ UNCHANGED <<delta, env, scope, runs, next>>
    BY <1>2, <2>1 DEF CloseLeft
  <2>4. Leaves(Top, delta, env, scope, env, scope)
    BY <2>2 DEF Leaves, Intro, Scoped
  <2>5. Pushed(f, delta, env, scope, runs, next, delta', env', scope', runs', next')
    BY <1>0, <2>2, <2>3 DEF Pushed, Intro, Scoped
  <2>6. runs' # {}
    BY <1>0, <2>3 DEF WalkGood
  <2>7. WalkGood'
    BY <1>0, <2>2, <2>3, <2>4, <2>5, <2>6, ReplaceWalk
  <2>8. ClassicalInv'
    BY <1>0, <2>2, <2>3, ReplaceClassical DEF ClassicalInv, FrameClassical, Scoped, IntHoldsNothing
  <2>. QED
    BY <2>7, <2>8 DEF LinearInv
<1>3. CASE CloseRight
  <2>1. Top.at = "right" /\ value \in Types
    BY <1>0, <1>3 DEF CloseRight, Returned, TypeOK
  <2>2. stack' = Popped /\ UNCHANGED <<delta, env, scope, runs, next>>
    BY <1>3 DEF CloseRight
  <2>3. Leaves(Top, delta, env, scope, env', scope')
    BY <2>1, <2>2 DEF Leaves, Intro, Scoped
  <2>4. WalkGood'
    BY <1>0, <2>2, <2>3, PopWalk
  <2>5. value'.kind = "reg"
    BY <1>3, <2>1 DEF CloseRight, Types
  <2>6. IntHoldsNothing(value')
    BY <2>5 DEF IntHoldsNothing
  <2>7. ClassicalInv'
    BY <1>0, <2>2, <2>6, PopClassical
  <2>. QED
    BY <2>4, <2>7 DEF LinearInv
<1>4. CASE CloseFunction
  <2>1. CASE UNCHANGED <<delta, env, stack, value, scope, runs, next, nodes>>
    BY <2>1 DEF LinearInv, ClassicalInv, WalkGood
  <2>. QED
    BY <1>4, <2>1 DEF CloseFunction, Reject
<1>. QED
  BY <1>1, <1>2, <1>3, <1>4

\* The invariant holds at the start.
LEMMA InitStep ==
  ASSUME Init
  PROVE  LinearInv
<1>1. PICK params \in [Names -> Kinds \cup {None}], order \in [Names -> Bindings \cup {0}],
           count \in Bindings \cup {0} :
        LET linear == {x \in Names : params[x] \in Resources}
        IN /\ \A x \in Names : order[x] = 0 <=> x \notin linear
           /\ \A x, y \in linear : order[x] = order[y] => x = y
           /\ {order[x] : x \in linear} = 1 .. count
           /\ delta = [x \in Names |-> IF x \in linear THEN Entry(params[x], order[x]) ELSE Unknown]
           /\ env = [x \in Names |-> IF params[x] = "int" THEN Pure("int") ELSE None]
           /\ stack = <<[at |-> "function", introduced |-> linear]>>
           /\ scope = order
           /\ runs = {[b \in Bindings |-> IF b <= count THEN "unused" ELSE "absent"]}
           /\ next = count + 1
  BY ZenonT(60) DEF Init
<1>2. PICK linear : linear = {x \in Names : params[x] \in Resources}
  OBVIOUS
<1>3. /\ Len(stack) = 1 /\ stack[1].at = "function" /\ stack[1].introduced = linear
  BY <1>1, <1>2
<1>4. /\ \A x \in Names : (order[x] = 0 <=> x \notin linear) /\ scope[x] = order[x]
      /\ \A x, y \in linear : order[x] = order[y] => x = y
      /\ linear \subseteq Names /\ count \in Nat /\ next = count + 1
      /\ \A x \in linear : order[x] \in 1 .. count
      /\ \A b \in 1 .. count : \E x \in linear : order[x] = b
  <2>1. {order[x] : x \in linear} = 1 .. count
    BY <1>1, <1>2
  <2>2. \A x \in linear : order[x] \in 1 .. count
    BY <2>1
  <2>3. \A b \in 1 .. count : \E x \in linear : order[x] = b
    BY <2>1
  <2>4. /\ \A x \in Names : order[x] = 0 <=> x \notin linear
        /\ \A x, y \in linear : order[x] = order[y] => x = y
        /\ next = count + 1 /\ scope = order
    BY <1>1, <1>2
  <2>5. linear \subseteq Names /\ count \in Nat
    BY <1>2, LinearAssumption DEF Bindings
  <2>. QED
    BY <2>2, <2>3, <2>4, <2>5
<1>5. /\ \A x \in Names : Available(delta, x) <=> x \in linear
      /\ \A x \in linear : delta[x].binding = order[x]
  BY <1>1, <1>2 DEF Available, Entry, Unknown
<1>6. \A x \in Names : env[x] # None => x \notin linear /\ env[x] = Pure("int")
  BY <1>1, <1>2 DEF Resources
<1>7. runs # {} /\ \A r \in runs : \A b \in Bindings : r[b] = IF b <= count THEN "unused" ELSE "absent"
  BY <1>1
<1>8. /\ \A i \in Ctx(stack, 1) : i = 2
      /\ \A k \in Levels(stack, 1) : k = 2
      /\ 2 \in Ctx(stack, 1) /\ 2 \in Levels(stack, 1)
  BY <1>3 DEF Ctx, Levels, Scoped
<1>9. /\ DeltaAt(stack, 1, delta, 2) = delta /\ EnvAt(stack, 1, env, 2) = env
      /\ ScopeAt(stack, 1, scope, 2) = scope
      /\ \A x \in Names : Has(stack, 1, delta, 2, x) <=> x \in linear
      /\ \A x \in linear : Bound(stack, 1, delta, 2, x) = order[x]
  BY <1>4, <1>5, <1>8 DEF DeltaAt, EnvAt, ScopeAt, Has, Bound
<1>10. \A x \in linear : order[x] \in Bindings
  BY <1>1, <1>4
<1>11. Older(stack, 1, delta, scope, next)
  <2>1. \A x \in Names : scope[x] \in 0 .. next - 1
    BY <1>4
  <2>. QED
    BY <1>3, <1>4, <1>8, <1>9, <2>1 DEF Older
<1>12. Distinct(stack, 1, delta)
  BY <1>4, <1>8, <1>9 DEF Distinct
<1>13. Owned(stack, 1, delta)
  <2>1. /\ \A m \in 1 .. 2 - 1 : m = 1
        /\ Inside(stack, 2, 2) /\ Intro(stack[1]) = linear /\ 1 \in 1 .. 2 - 1
    BY <1>3 DEF Inside, Intro
  <2>2. \A x \in linear : delta[x].state # "unknown"
    BY <1>4, <1>5 DEF Available
  <2>. QED
    BY <1>8, <1>9, <2>1, <2>2 DEF Owned
<1>14. Nested(stack, 1, env, scope)
  BY <1>8 DEF Nested
<1>15. Denoted(stack, 1, delta, env, scope, runs)
  <2>1. \A x \in Names : ~Hides(stack, 1, env, scope, 2, x)
    BY <1>4, <1>6, <1>9 DEF Hides
  <2>2. \A x \in linear : \A r \in runs : r[order[x]] = "unused"
    BY <1>4, <1>7, <1>10
  <2>. QED
    BY <1>4, <1>8, <1>9, <2>1, <2>2 DEF Denoted, Free
<1>16. Named(stack, 1, delta, scope)
  <2>1. \A x \in Names, y \in linear : scope[x] = order[y] => y = x
    BY <1>4
  <2>. QED
    BY <1>8, <1>9, <2>1 DEF Named
<1>17. Kept(stack, 1, delta, runs)
  <2>1. ASSUME NEW r \in runs, NEW b \in Bindings, r[b] \in {"unused", "wrong"}
        PROVE  \E i \in Ctx(stack, 1), x \in Names :
                 Has(stack, 1, delta, i, x) /\ Bound(stack, 1, delta, i, x) = b
    <3>1. b <= count /\ b \in 1 .. count
      BY <1>4, <1>7, <2>1 DEF Bindings
    <3>2. PICK x \in linear : order[x] = b
      BY <1>4, <3>1
    <3>. QED
      BY <1>4, <1>8, <1>9, <3>2
  <2>2. \A x \in linear : \A r \in runs : r[order[x]] # "absent"
    BY <1>4, <1>7, <1>10
  <2>. QED
    BY <1>4, <1>8, <1>9, <2>1, <2>2 DEF Kept
<1>18. Branches(stack, 1, delta, runs)
  BY <1>3 DEF Branches
<1>19. WalkGood
  BY <1>3, <1>7, <1>11, <1>12, <1>13, <1>14, <1>15, <1>16, <1>17, <1>18 DEF WalkGood, Good
<1>20. ClassicalInv
  <2>1. value = None
    BY DEF Init
  <2>2. ClassicalEnv(env)
    BY <1>6, IntType DEF ClassicalEnv, Classical
  <2>. QED
    BY <1>3, <2>1, <2>2 DEF ClassicalInv, FrameClassical, IntHoldsNothing, Scoped
<1>. QED
  BY <1>19, <1>20, InitTypes DEF LinearInv

\* Every step keeps the invariant.
LEMMA NextStep ==
  ASSUME Reexecuted = {}, LinearInv, [Next]_vars
  PROVE  LinearInv'
<1>1. TypeOK' /\ Shape'
  BY NextTypes DEF LinearInv
<1>2. CASE UNCHANGED vars
  BY <1>2 DEF vars, LinearInv, TypeOK, Shape, ClassicalInv, WalkGood
<1>3. CASE Next
  BY <1>1, <1>3, ValueSteps, UseSteps, BindSteps, BranchSteps, LambdaSteps, BlockSteps, PairSteps
     DEF Next
<1>. QED
  BY <1>2, <1>3

\* The invariant holds throughout, if nothing is run other than once where it is written.
LEMMA Inductive ==
  ASSUME Reexecuted = {}
  PROVE  Spec => []LinearInv
<1>1. Init => LinearInv
  BY InitStep
<1>2. LinearInv /\ [Next]_vars => LinearInv'
  BY NextStep
<1>. QED
  BY <1>1, <1>2, PTL DEF Spec

--------------------------------------------------------------------------------
(* What is left, and what is refused.                                          *)

\* A set of naturals has a least element.
LEMMA LeastElement ==
  ASSUME NEW S \in SUBSET Nat, S # {}
  PROVE  \E i \in S : \A j \in S : i <= j
<1>. DEFINE R == {ss \in Nat \X Nat : ss[1] < ss[2]}
<1>1. IsWellFoundedOn(R, Nat)
  BY NatLessThanWellFounded DEF OpToRel
<1>. HIDE DEF R
<1>2. PICK i \in S : \A j \in S : ~(<<j, i>> \in R)
  BY <1>1, WFMin
<1>3. ASSUME NEW j \in S PROVE i <= j
  <2>1. ~(<<j, i>> \in R) /\ i \in Nat /\ j \in Nat
    BY <1>2
  <2>. QED
    BY <2>1 DEF R
<1>. QED
  BY <1>3

\* The greatest of some numbers up to n.
LEMMA GreatestElement ==
  ASSUME NEW n \in Nat, NEW S \in SUBSET (1 .. n), S # {}
  PROVE  \E i \in S : \A j \in S : j <= i
<1>. DEFINE T == {n - j : j \in S}
<1>1. T \in SUBSET Nat /\ T # {}
  <2>1. \A j \in S : n - j \in Nat
    OBVIOUS
  <2>2. PICK j \in S : TRUE
    OBVIOUS
  <2>3. n - j \in T
    OBVIOUS
  <2>. QED
    BY <2>1, <2>3
<1>2. PICK t \in T : \A u \in T : t <= u
  <2>. HIDE DEF T
  <2>. QED
    BY <1>1, LeastElement
<1>3. PICK i \in S : t = n - i
  BY <1>2
<1>4. ASSUME NEW j \in S PROVE j <= i
  <2>1. n - i <= n - j
    BY <1>2, <1>3
  <2>. QED
    BY <2>1
<1>. QED
  BY <1>4

\* The context that the walk has, and the level it is at.
Here(n) ==
  /\ n \in Nat /\ n = Len(stack)
  /\ n + 1 \in Ctx(stack, n) /\ n + 1 \in Levels(stack, n)
  /\ DeltaAt(stack, n, delta, n + 1) = delta /\ EnvAt(stack, n, env, n + 1) = env
  /\ ScopeAt(stack, n, scope, n + 1) = scope
  /\ Good(stack, n, delta, env, scope, runs, next)
  /\ next \in 1 .. MaxBindings + 1 /\ next \in Nat /\ runs # {} /\ runs \subseteq Runs
  /\ delta \in Deltas /\ scope \in Scopes /\ DOMAIN stack = 1 .. n

\* The walk is at its innermost context and level.
LEMMA HereIs ==
  ASSUME LinearInv
  PROVE  \E n : Here(n)
<1>1. PICK n \in Nat : n = Len(stack)
  BY TopTypes DEF LinearInv
<1>2. /\ n + 1 \in Ctx(stack, n) /\ n + 1 \in Levels(stack, n)
      /\ DeltaAt(stack, n, delta, n + 1) = delta /\ EnvAt(stack, n, env, n + 1) = env
      /\ ScopeAt(stack, n, scope, n + 1) = scope
  BY DEF Ctx, Levels, DeltaAt, EnvAt, ScopeAt
<1>3. DOMAIN stack = 1 .. n
  BY <1>1, TopTypes DEF LinearInv
<1>. QED
  BY <1>1, <1>2, <1>3, LinearAssumption DEF Here, LinearInv, WalkGood, TypeOK

\* An available name that denotes it is unused, and asks for a use.
LEMMA AvailableIsUnused ==
  ASSUME LinearInv, NEW x \in Names, Available(delta, x), env[x] = None
  PROVE  scope[x] # 0 /\ \A r \in runs : r[scope[x]] = "unused"
<1>1. PICK n : Here(n)
  BY HereIs
<1>2. FreeUse(stack, n, delta, scope, runs, x)
  BY <1>1, FreeIsUnused DEF Here
<1>. QED
  BY <1>2 DEF FreeUse, Bindings

\* The invariant says what DeltaIsTheRest does.
LEMMA LinearInvRest ==
  ASSUME LinearInv
  PROVE  DeltaIsTheRest
<1>1. PICK n : Here(n)
  BY HereIs
<1>2. ASSUME NEW x \in Names, Available(delta, x), env[x] = None, NEW r \in runs
      PROVE  r[delta[x].binding] = "unused"
  <2>1. FreeUse(stack, n, delta, scope, runs, x)
    BY <1>1, <1>2, FreeIsUnused DEF Here
  <2>. QED
    BY <1>1, <1>2, <2>1 DEF FreeUse, Here, Bound
<1>3. ASSUME NEW k \in 1 .. n, stack[k].at = "lambda", NEW x \in Names,
             Available(stack[k].delta, x), stack[k].env[x] = None, NEW r \in runs
      PROVE  r[stack[k].delta[x].binding] = "unused"
  <2>1. /\ k \in Ctx(stack, n) /\ k \in Levels(stack, n)
        /\ DeltaAt(stack, n, delta, k) = stack[k].delta
        /\ EnvAt(stack, n, env, k) = stack[k].env
    BY <1>1, <1>3 DEF Ctx, Levels, DeltaAt, EnvAt, Scoped, Here
  <2>2. Inside(stack, k, k) /\ Fresh(stack, k, k, x) /\ k <= k
    BY <1>1 DEF Inside, Fresh, Here
  <2>3. Free(stack, n, delta, env, k, k, x)
    BY <1>3, <2>1, <2>2 DEF Free, Has
  <2>4. r[Bound(stack, n, delta, k, x)] = "unused"
    BY <1>1, <2>1, <2>3 DEF Here, Good, Denoted
  <2>. QED
    BY <2>1, <2>4 DEF Bound
<1>4. \A c \in Contexts : \/ c = <<delta, env>>
                          \/ \E k \in 1 .. n : stack[k].at = "lambda" /\ c = <<stack[k].delta, stack[k].env>>
  BY <1>1 DEF Contexts, Here
<1>5. ASSUME NEW c \in Contexts, NEW x \in Names, Available(c[1], x), c[2][x] = None, NEW r \in runs
      PROVE  r[c[1][x].binding] = "unused"
  <2>1. CASE c = <<delta, env>>
    BY <1>2, <1>5, <2>1
  <2>2. ASSUME NEW k \in 1 .. n, stack[k].at = "lambda", c = <<stack[k].delta, stack[k].env>>
        PROVE  r[c[1][x].binding] = "unused"
    BY <1>3, <1>5, <2>2
  <2>. QED
    BY <1>4, <2>1, <2>2
<1>6. ASSUME NEW r \in runs, NEW b \in Bindings, r[b] = "unused"
      PROVE  \E c \in Contexts, x \in Names : Available(c[1], x) /\ c[1][x].binding = b
  <2>1. PICK i \in Ctx(stack, n), x \in Names :
          Has(stack, n, delta, i, x) /\ Bound(stack, n, delta, i, x) = b
    BY <1>1, <1>6 DEF Here, Good, Kept
  <2>2. Available(DeltaAt(stack, n, delta, i), x) /\ DeltaAt(stack, n, delta, i)[x].binding = b
    BY <2>1 DEF Has, Bound
  <2>3. CASE i = n + 1
    <3>1. <<delta, env>> \in Contexts
      BY DEF Contexts
    <3>. QED
      BY <1>1, <2>2, <2>3, <3>1 DEF Here
  <2>4. CASE i # n + 1
    <3>1. i \in 1 .. n /\ stack[i].at = "lambda"
      BY <1>1, <2>4 DEF Ctx, Here
    <3>2. <<stack[i].delta, stack[i].env>> \in Contexts
      BY <1>1, <3>1 DEF Contexts, Here
    <3>. QED
      BY <2>2, <2>4, <3>2 DEF DeltaAt
  <2>. QED
    BY <2>3, <2>4
<1>. QED
  BY <1>5, <1>6 DEF DeltaIsTheRest

\* An accepted function has spent everything.
LEMMA AcceptSpends ==
  ASSUME LinearInv, Top.at = "function", Left(Top) = {}, NEW r \in runs, NEW b \in Bindings
  PROVE  r[b] \in {"absent", "once"}
<1>1. PICK n : Here(n)
  BY HereIs
<1>2. n = 1 /\ Top = stack[1] /\ Top \in Frames
  BY <1>1, TopTypes DEF Here, LinearInv
<1>3. Intro(stack[1]) = stack[1].introduced
  BY <1>2, FrameTypes
<1>4. r \in Runs
  BY <1>1 DEF Here
<1>5. ASSUME r[b] \in {"unused", "wrong"}
      PROVE  FALSE
  <2>1. PICK i \in Ctx(stack, n), x \in Names : Has(stack, n, delta, i, x)
    BY <1>1, <1>5 DEF Here, Good, Kept
  <2>2. i = 2
    BY <1>2, <2>1 DEF Ctx
  <2>3. PICK m \in 1 .. i - 1 : x \in Intro(stack[m])
    BY <1>1, <2>1 DEF Here, Good, Owned
  <2>4. m = 1
    BY <2>2
  <2>5. Available(delta, x)
    BY <1>1, <1>2, <2>1, <2>2 DEF Has, Here
  <2>. QED
    BY <1>2, <1>3, <2>3, <2>4, <2>5 DEF Left
<1>. QED
  BY <1>4, <1>5 DEF Runs

--------------------------------------------------------------------------------
(* The reasons of a refusal.                                                   *)

Captures(x) ==
  \E k \in DOMAIN stack : stack[k].at = "lambda" /\ scope[x] \in 1 .. stack[k].binding - 1

\* A name spent before has been used, or is captured.
LEMMA SecondUse ==
  ASSUME LinearInv, NEW x \in Names, env[x] = None, delta[x].state = "consumed", scope[x] # 0
  PROVE  Captures(x) \/ \E r \in runs : r[scope[x]] # "unused"
<1>. SUFFICES ASSUME \A r \in runs : r[scope[x]] = "unused"
              PROVE  Captures(x)
  OBVIOUS
<1>1. PICK n : Here(n)
  BY HereIs
<1>2. PICK r : r \in runs
  BY <1>1 DEF Here
<1>3. scope[x] \in Bindings
  BY <1>1 DEF Here, Scopes
<1>4. PICK i \in Ctx(stack, n), y \in Names :
        Has(stack, n, delta, i, y) /\ Bound(stack, n, delta, i, y) = scope[x]
  BY <1>1, <1>2, <1>3 DEF Here, Good, Kept
<1>5. y = x
  BY <1>1, <1>4 DEF Here, Good, Named
<1>6. i # n + 1
  BY <1>1, <1>4, <1>5 DEF Here, Has, Available
<1>7. i \in 1 .. n /\ stack[i].at = "lambda"
  BY <1>1, <1>6 DEF Ctx, Here
<1>8. scope[x] \in 1 .. stack[i].binding - 1
  BY <1>1, <1>4, <1>6 DEF Here, Good, Older
<1>. QED
  BY <1>1, <1>7, <1>8 DEF Captures, Here

\* A resource of a lambda's surroundings is older than the lambda.
LEMMA CapturedName ==
  ASSUME LinearInv, NEW x \in Names, env[x] = None, delta[x].state = "unknown",
         x \in lambda_linears
  PROVE  Captures(x)
<1>1. PICK n : Here(n)
  BY HereIs
<1>. DEFINE L == {k \in 1 .. n : stack[k].at = "lambda"}
<1>2. PICK k \in L : Available(stack[k].delta, x)
  BY <1>1 DEF lambda_linears, Residual, Here
<1>3. PICK m \in L : \A j \in L : j <= m
  <2>1. L \in SUBSET (1 .. n) /\ L # {} /\ n \in Nat
    BY <1>1, <1>2 DEF Here
  <2>. HIDE DEF L
  <2>. QED
    BY <2>1, GreatestElement
<1>4. \A j \in L : /\ j \in Ctx(stack, n) /\ j \in Levels(stack, n) /\ j <= n + 1
                   /\ DeltaAt(stack, n, delta, j) = stack[j].delta
                   /\ EnvAt(stack, n, env, j) = stack[j].env
                   /\ ScopeAt(stack, n, scope, j) = stack[j].scope
  BY <1>1 DEF Here, Ctx, Levels, DeltaAt, EnvAt, ScopeAt, Scoped
<1>5. /\ stack[k].env[x] = None
      /\ stack[k].scope[x] # 0 => scope[x] # 0
      /\ Fresh(stack, m, n + 1, x) => scope[x] = stack[m].scope[x]
  BY <1>1, <1>4 DEF Here, Good, Nested
<1>6. stack[k].scope[x] # 0
  <2>1. Inside(stack, k, k) /\ Fresh(stack, k, k, x) /\ k <= k
    BY <1>1 DEF Inside, Fresh, Here
  <2>2. Free(stack, n, delta, env, k, k, x) /\ Has(stack, n, delta, k, x)
    BY <1>2, <1>4, <1>5, <2>1 DEF Free, Has
  <2>3. stack[k].scope[x] = Bound(stack, n, delta, k, x)
    BY <1>1, <1>4, <2>2 DEF Here, Good, Denoted
  <2>4. k # n + 1 /\ k \in Ctx(stack, n)
    BY <1>1, <1>4 DEF Here
  <2>5. Bound(stack, n, delta, k, x) \in 1 .. stack[k].binding - 1
    BY <1>1, <2>2, <2>4 DEF Here, Good, Older
  <2>. QED
    BY <2>3, <2>5
<1>7. Fresh(stack, m, n + 1, x)
  <2>. SUFFICES ASSUME NEW j \in m .. n, x \in Intro(stack[j])
                PROVE  FALSE
    BY <1>1 DEF Fresh, Here
  <2>1. j \in 1 .. n + 1 - 1
    BY <1>1 DEF Here
  <2>2. Inside(stack, j + 1, n + 1)
    <3>1. ASSUME NEW l \in j + 1 .. (n + 1) - 1
          PROVE  stack[l].at # "lambda"
      <4>1. l \in 1 .. n /\ ~(l <= m)
        BY <1>1, <2>1 DEF Here
      <4>. QED
        BY <1>3, <4>1
    <3>. QED
      BY <3>1 DEF Inside
  <2>. QED
    BY <1>1, <2>1, <2>2 DEF Here, Good, Owned
<1>8. scope[x] = stack[m].scope[x] /\ scope[x] # 0
  BY <1>5, <1>6, <1>7
<1>9. stack[m].scope[x] < stack[m].binding /\ stack[m].binding \in 1 .. next - 1
  <2>1. m <= n /\ m \in 1 .. n /\ stack[m].at = "lambda"
    BY <1>1 DEF Here
  <2>. QED
    BY <1>1, <1>4, <2>1 DEF Here, Good, Older
<1>10. scope[x] \in Nat
  BY <1>1 DEF Here, Scopes, Bindings
<1>11. scope[x] \in 1 .. stack[m].binding - 1
  BY <1>1, <1>8, <1>9, <1>10 DEF Here
<1>. QED
  BY <1>1, <1>11 DEF Captures, Here

\* Some runs through a branch have used what x denotes, and some have not.
Disagree(x) ==
  scope[x] # 0 /\ {r[scope[x]] : r \in runs \cup Top.ended} = {"unused", "once"}

\* Two arms that left a name otherwise: a run through one has not used it, a run through
\* the other has, and every run has done one of the two.
LEMMA MismatchedName ==
  ASSUME LinearInv, Top.at = "arm", NEW ends, ends = Append(Top.ends, delta),
         NEW p \in DOMAIN ends, NEW q \in DOMAIN ends, NEW x \in Names,
         Available(ends[p], x), ~Available(ends[q], x), env[x] = None
  PROVE  Disagree(x)
<1>1. PICK n : Here(n)
  BY HereIs
<1>2. /\ Top = stack[n] /\ n \in 1 .. n /\ n \in Nat \ {0} /\ Top \in Frames
      /\ BranchGood(stack, n, next)
  BY <1>1, TopTypes DEF Here, LinearInv, WalkGood
<1>3. Top.env[x] = None /\ scope[x] = Top.scope[x]
  <2>1. n \in Levels(stack, n) /\ n <= n + 1
    BY <1>1, <1>2 DEF Levels, Scoped
  <2>2. EnvAt(stack, n, env, n) = Top.env /\ ScopeAt(stack, n, scope, n) = Top.scope
    BY <1>2 DEF EnvAt, ScopeAt
  <2>3. Fresh(stack, n, n + 1, x)
    <3>1. \A m \in n .. n + 1 - 1 : m = n
      BY <1>2
    <3>. QED
      BY <1>2, <3>1 DEF Fresh, Intro
  <2>. QED
    BY <1>1, <2>1, <2>2, <2>3 DEF Here, Good, Nested
<1>4. PICK b : b = scope[x]
  OBVIOUS
<1>5. Top.ends \in Seq(Deltas)
  BY <1>2, FrameTypes
<1>6. /\ DOMAIN ends = 1 .. Len(Top.ends) + 1 /\ Len(Top.ends) \in Nat
      /\ DOMAIN Top.ends = 1 .. Len(Top.ends)
      /\ \A j \in 1 .. Len(Top.ends) : ends[j] = Top.ends[j]
      /\ ends[Len(Top.ends) + 1] = delta
  BY <1>5
<1>7. \A r \in runs : Ended(stack, n, delta, r, next)
  BY <1>1, ArmEnds DEF LinearInv, Here
<1>8. ASSUME NEW j \in DOMAIN ends
      PROVE  \E r \in runs \cup Top.ended : Ended(stack, n, ends[j], r, next)
  <2>1. CASE j \in DOMAIN Top.ends
    BY <1>2, <1>6, <2>1 DEF BranchGood
  <2>2. CASE j = Len(Top.ends) + 1
    BY <1>1, <1>6, <1>7, <2>2 DEF Here
  <2>. QED
    BY <1>6, <2>1, <2>2
<1>9. ASSUME NEW r \in runs \cup Top.ended
      PROVE  \E j \in DOMAIN ends : Ended(stack, n, ends[j], r, next)
  <2>1. CASE r \in runs
    BY <1>6, <1>7, <2>1
  <2>2. CASE r \in Top.ended
    <3>1. PICK j \in DOMAIN Top.ends : Ended(stack, n, Top.ends[j], r, next)
      BY <1>2, <2>2 DEF BranchGood
    <3>. QED
      BY <1>6, <3>1
  <2>. QED
    BY <2>1, <2>2
<1>10. PICK l \in Nat : l = n - 1 /\ l + 1 = n
  BY <1>2
<1>11. ASSUME NEW d, NEW r, Ended(stack, n, d, r, next), Available(d, x)
       PROVE  b \in Bindings /\ b = d[x].binding /\ r[b] = "unused" /\ d[x] = Top.delta[x]
  <2>1. Good(stack, l, d, Top.env, Top.scope, {r}, next) /\ d[x] = Top.delta[x]
    BY <1>2, <1>10, <1>11 DEF Ended
  <2>2. FreeUse(stack, l, d, Top.scope, {r}, x)
    BY <1>1, <1>3, <1>11, <2>1, FreeIsUnused DEF Here
  <2>. QED
    BY <1>3, <1>4, <2>1, <2>2 DEF FreeUse, Bound, DeltaAt
<1>12. PICK rp \in runs \cup Top.ended : Ended(stack, n, ends[p], rp, next)
  BY <1>8
<1>13. /\ b \in Bindings /\ b = ends[p][x].binding /\ rp[b] = "unused"
       /\ Available(Top.delta, x) /\ b = Top.delta[x].binding
  BY <1>11, <1>12 DEF Available
<1>14. ASSUME NEW d, NEW r \in Runs, Ended(stack, n, d, r, next), ~Available(d, x)
       PROVE  r[b] = "once"
  <2>1. r[b] # "absent"
    BY <1>2, <1>13, <1>14 DEF Ended
  <2>2. ASSUME r[b] \in {"unused", "wrong"}
        PROVE  FALSE
    <3>1. Good(stack, l, d, Top.env, Top.scope, {r}, next)
      BY <1>2, <1>10, <1>14 DEF Ended
    <3>2. PICK i \in Ctx(stack, l), y \in Names :
            Has(stack, l, d, i, y) /\ Bound(stack, l, d, i, y) = b
      BY <1>13, <2>2, <3>1 DEF Good, Kept
    <3>3. l + 1 \in Levels(stack, l) /\ ScopeAt(stack, l, Top.scope, l + 1)[x] = b
      BY <1>3, <1>4, <1>10 DEF Levels, ScopeAt
    <3>4. y = x
      BY <3>1, <3>2, <3>3 DEF Good, Named
    <3>5. i # l + 1
      BY <1>14, <3>2, <3>4 DEF Has, DeltaAt
    <3>6. Good(stack, l, ends[p], Top.env, Top.scope, {rp}, next)
      BY <1>2, <1>10, <1>12 DEF Ended
    <3>7. Has(stack, l, ends[p], i, x) /\ Bound(stack, l, ends[p], i, x) = b
      BY <3>2, <3>4, <3>5 DEF Has, Bound, DeltaAt
    <3>8. l + 1 \in Ctx(stack, l)
      BY <1>10 DEF Ctx
    <3>9. Has(stack, l, ends[p], l + 1, x) /\ Bound(stack, l, ends[p], l + 1, x) = b
      BY <1>13, <3>8 DEF Has, Bound, DeltaAt
    <3>. QED
      BY <3>5, <3>6, <3>7, <3>8, <3>9 DEF Good, Distinct
  <2>. QED
    BY <1>13, <1>14, <2>1, <2>2 DEF Runs
<1>15. runs \cup Top.ended \subseteq Runs
  BY <1>1, <1>2, FrameTypes DEF Here
<1>16. ASSUME NEW r \in runs \cup Top.ended
       PROVE  r[b] \in {"unused", "once"}
  BY <1>9, <1>11, <1>14, <1>15
<1>17. PICK rq \in runs \cup Top.ended : rq[b] = "once"
  BY <1>8, <1>14, <1>15
<1>18. {r[b] : r \in runs \cup Top.ended} = {"unused", "once"}
  BY <1>13, <1>16, <1>17
<1>19. scope[x] # 0
  BY <1>4, <1>13, LinearAssumption DEF Bindings
<1>. QED
  BY <1>4, <1>18, <1>19, Zenon DEF Disagree

--------------------------------------------------------------------------------
(* What ends the walk.                                                         *)

\* RejectsOnlyMisuse, of an error and a name.
Misuse(error, x) ==
  /\ error = "LinearUsedTwice" =>
       IF scope[x] = 0 THEN env[x] = None
       ELSE Captures(x) \/ \E r \in runs : r[scope[x]] # "unused"
  /\ error = "LinearUnconsumed" =>
       \/ env[x] # None
       \/ Top.at = "rhs" /\ ~Available(delta, x)
       \/ scope[x] # 0 /\ \E r \in runs : ~(r[scope[x]] # "unused")
  /\ error = "LinearBranchMismatch" =>
       \/ scope[x] # 0 /\ {r[scope[x]] : r \in runs \cup Top.ended} = {"unused", "once"}
       \/ env[x] # None
  /\ error = "LinearCapture" => Captures(x)

Refuses == \E error \in Verdicts \ {"accepted"}, x \in Names \cup {None} :
             Reject(error, x) /\ Misuse(error, x)
Accepts ==
  /\ Top.at = "function" /\ Left(Top) = {} /\ verdict'.is = "accepted"
  /\ UNCHANGED <<delta, env, stack, value, scope, runs, next, nodes>>

\* A name of a scope that ends without its use.
LEMMA LeftName ==
  ASSUME LinearInv, NEW x \in Names, Available(delta, x)
  PROVE  Misuse("LinearUnconsumed", x)
<1>1. CASE env[x] # None
  BY <1>1 DEF Misuse
<1>2. CASE env[x] = None
  <2>1. scope[x] # 0 /\ \A r \in runs : r[scope[x]] = "unused"
    BY <1>2, AvailableIsUnused
  <2>2. runs # {}
    BY DEF LinearInv, WalkGood
  <2>. QED
    BY <2>1, <2>2 DEF Misuse
<1>. QED
  BY <1>1, <1>2

\* A scope that ends with names left.
LEMMA LeftNames ==
  ASSUME LinearInv, Top.at \in {"function", "body", "lambda", "borrow"},
         NEW x \in Left(Top), Reject("LinearUnconsumed", x)
  PROVE  Refuses
<1>1. Top \in Frames
  BY TopTypes DEF LinearInv
<1>2. x \in Names /\ Available(delta, x)
  BY <1>1, FrameTypes DEF Left
<1>. QED
  BY <1>2, LeftName DEF Refuses, Verdicts

\* A name used, or refused.
LEMMA UseVerdicts ==
  ASSUME LinearInv, NEW x \in Names,
         UseUnrestricted(x) \/ UseLinear(x) \/ UsedTwice(x) \/ Capture(x)
  PROVE  verdict' = verdict \/ Refuses
<1>1. CASE UseUnrestricted(x)
  BY <1>1 DEF UseUnrestricted, Give
<1>2. CASE UseLinear(x)
  BY <1>2 DEF UseLinear
<1>3. CASE UsedTwice(x)
  <2>1. Misuse("LinearUsedTwice", x)
    BY <1>3, SecondUse DEF UsedTwice, Misuse
  <2>. QED
    BY <1>3, <2>1 DEF UsedTwice, Refuses, Verdicts
<1>4. CASE Capture(x)
  <2>1. Misuse("LinearCapture", x)
    BY <1>4, CapturedName DEF Capture, Misuse
  <2>. QED
    BY <1>4, <2>1 DEF Capture, Refuses, Verdicts
<1>. QED
  BY <1>1, <1>2, <1>3, <1>4

\* A pattern that drops a resource, or the name of another.
LEMMA BindVerdicts ==
  ASSUME LinearInv, CloseRhs
  PROVE  verdict' = verdict \/ Refuses
<1>. DEFINE t == IF Top.monad THEN Payload(value) ELSE value
<1>0. Top.at = "rhs" /\ Top \in Frames /\ t \in Types
  BY TopTypes, PayloadTypes DEF CloseRhs, LinearInv, TypeOK, Returned
<1>1. PICK pat \in Patterns(t) :
        IF BadSlots(pat, t) = {} THEN UNCHANGED verdict
        ELSE LET j == CHOOSE i \in BadSlots(pat, t) : \A k \in BadSlots(pat, t) : i <= k
             IN Reject(IF pat[j] = None THEN "LinearDiscard" ELSE "LinearUnconsumed", pat[j])
  BY DEF CloseRhs
<1>2. CASE BadSlots(pat, t) = {}
  BY <1>1, <1>2
<1>3. CASE BadSlots(pat, t) # {}
  <2>1. PICK j \in BadSlots(pat, t) :
          /\ pat[j] \in Names \cup {None}
          /\ Reject(IF pat[j] = None THEN "LinearDiscard" ELSE "LinearUnconsumed", pat[j])
    <3>1. PatternView(pat, t)
      BY <1>0, PatternTypes DEF LinearInv, TypeOK
    <3>. HIDE DEF t
    <3>. QED
      BY <1>0, <1>1, <1>3, <3>1, FirstBadSlot
  <2>2. CASE pat[j] = None
    <3>1. Reject("LinearDiscard", pat[j]) /\ Misuse("LinearDiscard", pat[j])
      BY <2>1, <2>2 DEF Misuse
    <3>. QED
      BY <2>1, <3>1 DEF Refuses, Verdicts
  <2>3. CASE pat[j] # None
    <3>1. Misuse("LinearUnconsumed", pat[j])
      <4>1. CASE Available(delta, pat[j])
        BY <2>1, <2>3, <4>1, LeftName
      <4>2. CASE ~Available(delta, pat[j])
        BY <1>0, <4>2 DEF Misuse
      <4>. QED
        BY <4>1, <4>2
    <3>. QED
      BY <2>1, <2>3, <3>1 DEF Refuses, Verdicts
  <2>. QED
    BY <2>2, <2>3
<1>. QED
  BY <1>2, <1>3

\* Arms that left other names.
LEMMA MergeVerdicts ==
  ASSUME LinearInv, Merge
  PROVE  verdict' = verdict \/ Refuses
<1>. DEFINE ends == Append(Top.ends, delta)
<1>0. Top.at = "arm" /\ Top \in Frames
  BY TopTypes DEF Merge, LinearInv
<1>1. CASE Others(ends) = {}
  BY <1>1 DEF Merge
<1>2. CASE Others(ends) # {}
  <2>1. Top.ends \in Seq(Deltas)
    BY <1>0, FrameTypes
  <2>2. DOMAIN ends = 1 .. Len(Top.ends) + 1 /\ Len(Top.ends) \in Nat
    BY <2>1
  <2>3. Others(ends) \in SUBSET Nat /\ Others(ends) \subseteq DOMAIN ends
    BY <2>2 DEF Others
  <2>4. \E i \in Others(ends) : \A j \in Others(ends) : i <= j
    <3>. HIDE DEF ends
    <3>. QED
      BY <1>2, <2>3, LeastElement
  <2>5. PICK k \in Others(ends) :
          \E x \in (Residual(ends[k]) \ Residual(ends[1]))
                   \cup (Residual(ends[1]) \ Residual(ends[k])) :
            Reject("LinearBranchMismatch", x)
    <3>. DEFINE k == CHOOSE i \in Others(ends) : \A j \in Others(ends) : i <= j
    <3>1. k \in Others(ends)
      BY <2>4
    <3>2. \E x \in (Residual(ends[k]) \ Residual(ends[1]))
                     \cup (Residual(ends[1]) \ Residual(ends[k])) :
            Reject("LinearBranchMismatch", x)
      BY <1>2 DEF Merge
    <3>. QED
      BY <3>1, <3>2
  <2>6. PICK x \in (Residual(ends[k]) \ Residual(ends[1]))
                   \cup (Residual(ends[1]) \ Residual(ends[k])) :
          Reject("LinearBranchMismatch", x)
    BY <2>5
  <2>7. k \in DOMAIN ends /\ 1 \in DOMAIN ends /\ x \in Names
    BY <2>2, <2>3 DEF Residual
  <2>8. \E p, q \in DOMAIN ends : Available(ends[p], x) /\ ~Available(ends[q], x)
    BY <2>7, <2>6 DEF Residual
  <2>9. Misuse("LinearBranchMismatch", x)
    <3>1. PICK p \in DOMAIN ends, q \in DOMAIN ends :
            Available(ends[p], x) /\ ~Available(ends[q], x)
      BY <2>8
    <3>2. CASE env[x] # None
      BY <3>2 DEF Misuse
    <3>3. CASE env[x] = None
      <4>1. Disagree(x)
        <5>. HIDE DEF ends
        <5>1. ends = Append(Top.ends, delta)
          BY DEF ends
        <5>. QED
          BY <1>0, <2>7, <3>1, <3>3, <5>1, MismatchedName
      <4>. QED
        BY <4>1, Zenon DEF Misuse, Disagree
    <3>. QED
      BY <3>2, <3>3
  <2>. QED
    BY <2>7, <2>9, <2>6 DEF Refuses, Verdicts
<1>. QED
  BY <1>1, <1>2

\* A step goes on, accepts a function that has spent everything, or refuses a misuse.
LEMMA VerdictStep ==
  ASSUME LinearInv, Next
  PROVE  verdict.is = "checking" /\ (verdict' = verdict \/ Accepts \/ Refuses)
<1>1. ASSUME Literal \/ Gate \/ Allocate \/ Measure \/ Reset \/ Return
      PROVE  verdict.is = "checking" /\ (verdict' = verdict \/ Refuses)
  <2>1. CASE Return
    <3>1. CASE UNCHANGED verdict
      BY <2>1, <3>1 DEF Return, Returned
    <3>2. ASSUME NEW x \in value.names \cap Borrowed, Reject("BorrowEscape", x)
          PROVE  Refuses
      <4>1. x \in Names
        BY <2>1 DEF Return, Returned, LinearInv, TypeOK, Types
      <4>2. Misuse("BorrowEscape", x)
        BY DEF Misuse
      <4>. QED
        BY <3>2, <4>1, <4>2 DEF Refuses, Verdicts
    <3>. QED
      BY <2>1, <3>1, <3>2 DEF Return, Returned
  <2>. QED
    BY <1>1, <2>1 DEF Literal, Gate, Allocate, Measure, Reset, Give, Walking, Returned
<1>2. ASSUME NEW x \in Names, UseUnrestricted(x) \/ UseLinear(x) \/ UsedTwice(x) \/ Capture(x)
      PROVE  verdict.is = "checking" /\ (verdict' = verdict \/ Refuses)
  BY <1>2, UseVerdicts DEF UseUnrestricted, UseLinear, UsedTwice, Capture, Walking
<1>3. ASSUME OpenRhs \/ CloseRhs \/ CloseBody
      PROVE  verdict.is = "checking" /\ (verdict' = verdict \/ Refuses)
  <2>1. CASE OpenRhs
    BY <2>1 DEF OpenRhs, Open, Walking
  <2>2. CASE CloseRhs
    BY <2>2, BindVerdicts DEF CloseRhs, Returned
  <2>3. CASE CloseBody
    BY <2>3, LeftNames DEF CloseBody, Returned
  <2>. QED
    BY <1>3, <2>1, <2>2, <2>3
<1>4. ASSUME OpenBranch \/ NextArm \/ Merge
      PROVE  verdict.is = "checking" /\ (verdict' = verdict \/ Refuses)
  <2>1. CASE OpenBranch
    BY <2>1 DEF OpenBranch, Open, Walking
  <2>2. CASE NextArm
    BY <2>2 DEF NextArm, Returned
  <2>3. CASE Merge
    BY <2>3, MergeVerdicts DEF Merge, Returned
  <2>. QED
    BY <1>4, <2>1, <2>2, <2>3
<1>5. ASSUME OpenLambda \/ CloseLambda \/ OpenFor \/ CloseFor
      PROVE  verdict.is = "checking" /\ (verdict' = verdict \/ Refuses)
  <2>1. CASE CloseLambda
    BY <2>1, LeftNames DEF CloseLambda, Returned
  <2>. QED
    BY <1>5, <2>1 DEF OpenLambda, OpenFor, CloseFor, Open, Walking, Returned
<1>6. ASSUME OpenBorrow \/ CloseBorrow
      PROVE  verdict.is = "checking" /\ (verdict' = verdict \/ Refuses)
  <2>1. CASE CloseBorrow
    BY <2>1, LeftNames DEF CloseBorrow, Returned
  <2>2. CASE OpenBorrow
    <3>1. PICK x \in Names :
            IF Available(delta, x) THEN Walking /\ Reject("LinearUnconsumed", x)
            ELSE Walking /\ verdict' = verdict
      BY <2>2 DEF OpenBorrow, Open
    <3>2. CASE Available(delta, x)
      BY <3>1, <3>2, LeftName DEF Refuses, Verdicts, Walking
    <3>. QED
      BY <3>1, <3>2 DEF Walking
  <2>. QED
    BY <1>6, <2>1, <2>2
<1>7. ASSUME OpenPair \/ CloseLeft \/ CloseRight
      PROVE  verdict.is = "checking" /\ verdict' = verdict
  BY <1>7 DEF OpenPair, CloseLeft, CloseRight, Open, Walking, Returned
<1>8. ASSUME CloseFunction
      PROVE  verdict.is = "checking" /\ (Accepts \/ Refuses)
  BY <1>8, LeftNames DEF CloseFunction, Returned, Accepts
<1>. QED
  BY <1>1, <1>2, <1>3, <1>4, <1>5, <1>6, <1>7, <1>8 DEF Next

--------------------------------------------------------------------------------
(* The theorems.                                                               *)

\* What delta says is left is what the runs so far have left, at every point of the walk
\* of a body in which nothing is run other than once where it is written.
THEOREM RestCorrect ==
  ASSUME Reexecuted = {}
  PROVE  Spec => []DeltaIsTheRest
<1>1. Spec => []LinearInv
  BY Inductive
<1>2. LinearInv => DeltaIsTheRest
  BY LinearInvRest
<1>. QED
  BY <1>1, <1>2, PTL

\* Linearity soundness: every run of an accepted function uses each thing it bound exactly
\* once, whatever the branches, lambdas, borrow blocks and shadowing of its body.
THEOREM SpentCorrect ==
  ASSUME Reexecuted = {}
  PROVE  Spec => []SpentExactlyOnce
<1>1. Init => SpentExactlyOnce
  BY DEF Init, SpentExactlyOnce
<1>2. LinearInv /\ SpentExactlyOnce /\ [Next]_vars => SpentExactlyOnce'
  <2>. SUFFICES ASSUME LinearInv, SpentExactlyOnce, [Next]_vars
                PROVE  SpentExactlyOnce'
    OBVIOUS
  <2>1. CASE UNCHANGED vars
    BY <2>1 DEF vars, SpentExactlyOnce, Bindings
  <2>2. CASE Next
    <3>1. CASE verdict' = verdict
      BY <2>2, <3>1, VerdictStep DEF SpentExactlyOnce
    <3>2. CASE Accepts
      <4>1. \A r \in runs, b \in Bindings : r[b] \in {"absent", "once"}
        BY <3>2, AcceptSpends DEF Accepts
      <4>. QED
        BY <3>2, <4>1 DEF Accepts, SpentExactlyOnce, Bindings
    <3>3. CASE Refuses
      BY <3>3 DEF Refuses, Reject, SpentExactlyOnce
    <3>. QED
      BY <2>2, <3>1, <3>2, <3>3, VerdictStep
  <2>. QED
    BY <2>1, <2>2
<1>3. Spec => []LinearInv
  BY Inductive
<1>. QED
  BY <1>1, <1>2, <1>3, PTL DEF Spec

\* A function is only refused for what it does: the name it is refused for has been used,
\* or has not, or is used by some runs only, or is older than the lambda that mentions it.
THEOREM MisuseCorrect ==
  ASSUME Reexecuted = {}
  PROVE  Spec => []RejectsOnlyMisuse
<1>0. RejectsOnlyMisuse <=> Misuse(verdict.is, verdict.name)
  BY DEF RejectsOnlyMisuse, Misuse, Captures
<1>1. Init => RejectsOnlyMisuse
  BY DEF Init, RejectsOnlyMisuse
<1>2. LinearInv /\ RejectsOnlyMisuse /\ [Next]_vars => RejectsOnlyMisuse'
  <2>. SUFFICES ASSUME LinearInv, RejectsOnlyMisuse, [Next]_vars
                PROVE  RejectsOnlyMisuse'
    OBVIOUS
  <2>1. CASE UNCHANGED vars
    BY <2>1 DEF vars, RejectsOnlyMisuse, Top, Available
  <2>2. CASE Next
    <3>1. CASE verdict' = verdict
      BY <2>2, <3>1, VerdictStep DEF RejectsOnlyMisuse
    <3>2. CASE Accepts
      BY <3>2 DEF Accepts, RejectsOnlyMisuse
    <3>3. CASE Refuses
      <4>1. PICK error \in Verdicts \ {"accepted"}, x \in Names \cup {None} :
              Reject(error, x) /\ Misuse(error, x)
        BY <3>3 DEF Refuses
      <4>2. verdict' = [is |-> error, name |-> x]
        BY <4>1 DEF Reject
      <4>3. Misuse(error, x) /\ verdict'.is = error /\ verdict'.name = x
        BY <4>1, <4>2
      <4>4. UNCHANGED <<delta, env, stack, scope, runs>>
        BY <4>1 DEF Reject
      <4>. QED
        BY <4>3, <4>4 DEF RejectsOnlyMisuse, Misuse, Captures, Top, Available
    <3>. QED
      BY <2>2, <3>1, <3>2, <3>3, VerdictStep
  <2>. QED
    BY <2>1, <2>2
<1>3. Spec => []LinearInv
  BY Inductive
<1>. QED
  BY <1>1, <1>2, <1>3, PTL DEF Spec
================================================================================
