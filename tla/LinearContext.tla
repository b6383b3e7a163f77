----------------------------- MODULE LinearContext -----------------------------
(***************************************************************************)
(* The linear context of the type checker                                  *)
(* (frontend/src/typecheck: linear.rs, mod.rs, classical.rs, monad.rs,     *)
(* circuit.rs).                                                            *)
(*                                                                         *)
(* The checker walks a function body once, from left to right, and threads *)
(* delta through it; so the body may be chosen while it is walked.  A      *)
(* frame of the stack is a call of synth or check that waits for a part of *)
(* its expression.  Only programs are chosen that have no other type error *)
(* than one of linearity.  Conditions and scrutinees are classical and use *)
(* nothing.                                                                *)
(*                                                                         *)
(* The ghosts say what the program does when it runs: runs has one element *)
(* for each way through its branches, and says how often that run has used *)
(* what was bound where; scope is the binding a name denotes by lexical    *)
(* scoping.                                                                *)
(***************************************************************************)
EXTENDS Integers, Sequences, FiniteSets

CONSTANTS Names,        \* the names a program binds
          None,
          Reexecuted,   \* what may be run other than once where it is written
          MaxArms,      \* bound: arms of a match
          MaxNodes,     \* bound: expressions walked
          MaxBindings   \* bound: bindings made

\* int stands for every type that is no resource, lin for Qubit, reg for QReg<2>.
Kinds == {"int", "lin", "reg", "circ"}
Resources == {"lin", "reg", "circ"}

\* A type, whether it is of a computation (Q<..>, or what a partial application leaves)
\* and then whether running it uses a resource; and the borrowed names it mentions.
Types == [kind : Kinds, monadic : BOOLEAN, holds : BOOLEAN, names : SUBSET Names]

ASSUME LinearAssumption ==
  /\ None \notin Names \cup Types
  /\ Reexecuted \subseteq {"loop", "computation"}
  /\ MaxArms \in Nat /\ MaxNodes \in Nat /\ MaxBindings \in Nat

VARIABLES delta,    \* of each name: never linear, available or consumed, and the binding
          env,      \* the type of each unrestricted name, or None
          stack,    \* the calls of synth and check under way, the innermost last
          value,    \* the type just synthesized, or None while an expression is walked
          verdict,  \* "checking", "accepted" or the error
          scope,    \* ghost: the binding a name denotes, 0 if it asks for no use
          runs,     \* ghost: the use of each binding, in each run so far
          next,     \* the next binding
          nodes     \* expressions walked

vars == <<delta, env, stack, value, verdict, scope, runs, next, nodes>>

Bindings == 1 .. MaxBindings

Type(kind, monadic, holds, names) ==
  [kind |-> kind, monadic |-> monadic, holds |-> holds, names |-> names]

Pure(kind) == Type(kind, FALSE, FALSE, {})

IsLinear(t) == ~t.monadic /\ t.kind \in Resources

--------------------------------------------------------------------------------
(* The context.                                                                *)

Unknown == [state |-> "unknown", kind |-> "int", binding |-> 0]
Entry(kind, b) == [state |-> "available", kind |-> kind, binding |-> b]

Available(d, x) == d[x].state = "available"
Residual(d) == {x \in Names : Available(d, x)}

Top == stack[Len(stack)]
Popped == SubSeq(stack, 1, Len(stack) - 1)
Push(f) == Append(stack, f)
Replace(f) == Append(Popped, f)

\* The names a lambda's body may only mention to be told that it captures them.
lambda_linears ==
  UNION {Residual(stack[k].delta) : k \in {i \in DOMAIN stack : stack[i].at = "lambda"}}

\* find_borrow_escape looks for returns of a borrow block's names through binds, lets, ifs
\* and matches only, and so not in a borrow block inside it.
BorrowFrames == {k \in DOMAIN stack : stack[k].at = "borrow"}
Chained(k) == \A j \in k + 1 .. Len(stack) : stack[j].at \in {"rhs", "body", "arm"}
Borrowed == UNION {stack[k].introduced : k \in {i \in BorrowFrames : Chained(i)}}
Mentioned(x) == {x} \cap UNION {stack[k].introduced : k \in BorrowFrames}

--------------------------------------------------------------------------------
(* What runs do (ghost).                                                       *)

\* Inside a loop or a function that was made after it, a binding would be used as often
\* as the code is run.
Repeated(b) ==
  \E k \in DOMAIN stack : stack[k].at \in {"for", "lambda"} /\ b < stack[k].binding

AfterUse(use, b) == IF use = "unused" /\ ~Repeated(b) THEN "once" ELSE "wrong"

UseOf(b) ==
  IF b = 0 THEN runs ELSE {[r EXCEPT ![b] = AfterUse(r[b], b)] : r \in runs}

Owed(bs) == {[b \in Bindings |-> IF b \in bs THEN "unused" ELSE r[b]] : r \in runs}

--------------------------------------------------------------------------------
(* Patterns.                                                                   *)

\* One name or wildcard, or a pair that takes a register apart.
Patterns(t) ==
  LET slots == Names \cup {None}
  IN {<<x>> : x \in slots} \cup
     (IF t.kind = "reg" /\ ~t.monadic THEN {<<x, y>> : x, y \in slots} ELSE {})

SlotKind(pat, t) == IF Len(pat) = 2 THEN "lin" ELSE t.kind

\* The slots that are refused: a resource dropped by a wildcard (a register may be),
\* and a name that still has a resource.
BadSlots(pat, t) ==
  {j \in DOMAIN pat :
     /\ IsLinear(t)
     /\ IF pat[j] = None THEN SlotKind(pat, t) # "reg"
        ELSE Available(delta, pat[j]) \/ \E i \in DOMAIN pat : i < j /\ pat[i] = pat[j]}

Introduced(pat, t) == IF IsLinear(t) THEN {pat[j] : j \in DOMAIN pat} \ {None} ELSE {}

\* The binding of each name: slots are numbered in order.
BindingOf(pat, x) == next - 1 + CHOOSE j \in DOMAIN pat : pat[j] = x

\* What is bound asks for one use if it is a resource, or a computation that uses one;
\* a register dropped by the wildcard asks for none.
Asks(pat, t) ==
  IF IsLinear(t) THEN {BindingOf(pat, x) : x \in Introduced(pat, t)}
  ELSE IF t.holds THEN {next} ELSE {}

BindPattern(pat, t) ==
  /\ next + Len(pat) - 1 <= MaxBindings
  /\ next' = next + Len(pat)
  /\ runs' = Owed(Asks(pat, t))
  /\ IF IsLinear(t)
     THEN /\ delta' = [x \in Names |-> IF x \in Introduced(pat, t)
                                       THEN Entry(SlotKind(pat, t), BindingOf(pat, x))
                                       ELSE delta[x]]
          /\ scope' = [x \in Names |-> IF x \in Introduced(pat, t)
                                       THEN BindingOf(pat, x) ELSE scope[x]]
          /\ env' = env
     ELSE /\ delta' = delta
          /\ scope' = [x \in Names |-> IF x # pat[1] THEN scope[x]
                                       ELSE IF t.holds THEN next ELSE 0]
          /\ env' = [x \in Names |-> IF x = pat[1] THEN t ELSE env[x]]

--------------------------------------------------------------------------------
(* Results and errors.                                                         *)

Walking == verdict.is = "checking" /\ value = None
Returned == verdict.is = "checking" /\ value # None

\* Bound: only expressions are begun that can be finished within MaxNodes.
PartsLeft(f) ==
  CASE f.at \in {"rhs", "left"} -> 1
    [] f.at = "arm" -> f.arms - Len(f.ends) - 1
    [] OTHER -> 0

Ahead == Cardinality(UNION {{<<k, n>> : n \in 1 .. PartsLeft(stack[k])} : k \in DOMAIN stack})

Walk(parts) == nodes + 1 + parts + Ahead <= MaxNodes /\ nodes' = nodes + 1

Reject(error, x) ==
  /\ verdict' = [is |-> error, name |-> x]
  /\ UNCHANGED <<delta, env, stack, value, scope, runs, next, nodes>>

\* ensure_consumed: is a name of a scope that ends still available?
Left(f) == {x \in f.introduced : Available(delta, x)}

\* A scope ends: its names are gone, what was spent stays spent.
Leave(f) == stack' = Popped /\ env' = f.env /\ scope' = f.scope

--------------------------------------------------------------------------------
(* Expressions of one node.                                                    *)

Give(t) == value' = t /\ UNCHANGED <<delta, env, stack, verdict, scope, next>>

Literal == Walking /\ Walk(0) /\ Give(Pure("int")) /\ UNCHANGED runs

\* A gate is a circuit; qubit(), qreg(n), init_one() are computations that use nothing.
Gate == Walking /\ Walk(0) /\ Give(Pure("circ")) /\ UNCHANGED runs

Allocate ==
  \E kind \in {"lin", "reg"} :
    Walking /\ Walk(0) /\ Give(Type(kind, TRUE, FALSE, {})) /\ UNCHANGED runs

\* A name the unrestricted context knows, whatever delta says of it.
UseUnrestricted(x) ==
  /\ Walking /\ env[x] # None /\ Walk(0)
  /\ Give([env[x] EXCEPT !.names = Mentioned(x)])
  /\ runs' = UseOf(scope[x])

UseLinear(x) ==
  /\ Walking /\ env[x] = None /\ Available(delta, x)
  /\ Repeated(scope[x]) => "loop" \in Reexecuted
  /\ Walk(0)
  /\ value' = Type(delta[x].kind, FALSE, TRUE, Mentioned(x))
  /\ delta' = [delta EXCEPT ![x].state = "consumed"]
  /\ runs' = UseOf(scope[x])
  /\ UNCHANGED <<env, stack, verdict, scope, next>>

\* Mutant: delta is asked before the unrestricted context.
UsedTwiceBeforeGamma(x) ==
  /\ Walking /\ delta[x].state = "consumed"
  /\ Reject("LinearUsedTwice", x)

UsedTwice(x) ==
  /\ Walking /\ env[x] = None /\ delta[x].state = "consumed"
  /\ Reject("LinearUsedTwice", x)

Capture(x) ==
  /\ Walking /\ env[x] = None /\ delta[x].state = "unknown" /\ x \in lambda_linears
  /\ Reject("LinearCapture", x)

--------------------------------------------------------------------------------
(* Operations on the expression just walked.                                   *)

\* Measuring or discarding, and a call that is given a resource and gives none back.
Measure ==
  /\ Returned /\ ~value.monadic /\ value.kind \in {"lin", "reg"}
  /\ value' = [value EXCEPT !.kind = "int", !.monadic = TRUE, !.holds = TRUE]
  /\ UNCHANGED <<delta, env, stack, verdict, scope, runs, next, nodes>>

Reset ==
  /\ Returned /\ ~value.monadic /\ value.kind = "lin"
  /\ value' = [value EXCEPT !.monadic = TRUE]
  /\ UNCHANGED <<delta, env, stack, verdict, scope, runs, next, nodes>>

Return ==
  /\ Returned /\ ~value.monadic
  /\ \/ /\ value.names \cap Borrowed = {}
        /\ value' = [value EXCEPT !.monadic = TRUE]
        /\ UNCHANGED <<delta, env, stack, verdict, scope, runs, next, nodes>>
     \/ \E x \in value.names \cap Borrowed : Reject("BorrowEscape", x)

--------------------------------------------------------------------------------
(* let and <-.                                                                 *)

Open(f) ==
  /\ Walking /\ Walk(1 + PartsLeft(f))
  /\ stack' = Push(f)
  /\ UNCHANGED <<value, verdict>>

OpenRhs ==
  /\ \E monad \in BOOLEAN : Open([at |-> "rhs", monad |-> monad])
  /\ UNCHANGED <<delta, env, scope, runs, next>>

\* <- runs a computation and binds what it gives; a resource is lifted.
Payload(t) == [t EXCEPT !.monadic = FALSE, !.holds = t.kind \in Resources]

\* A let of a computation does not run it: the name is as unrestricted as an Int.
CloseRhs ==
  /\ Returned /\ Top.at = "rhs"
  /\ IF Top.monad THEN value.monadic \/ value.kind \in Resources
     ELSE value.monadic /\ value.holds => "computation" \in Reexecuted
  /\ LET t == IF Top.monad THEN Payload(value) ELSE value
     IN \E pat \in Patterns(t) :
          IF BadSlots(pat, t) = {}
          THEN /\ BindPattern(pat, t)
               /\ stack' = Replace([at |-> "body", monad |-> Top.monad,
                                    introduced |-> Introduced(pat, t),
                                    env |-> env, scope |-> scope,
                                    names |-> value.names,
                                    holds |-> Top.monad /\ value.holds])
               /\ value' = None
               /\ UNCHANGED <<verdict, nodes>>
          ELSE LET j == CHOOSE i \in BadSlots(pat, t) : \A k \in BadSlots(pat, t) : i <= k
               IN Reject(IF pat[j] = None THEN "LinearDiscard" ELSE "LinearUnconsumed", pat[j])

CloseBody ==
  /\ Returned /\ Top.at = "body"
  /\ Top.monad => value.monadic
  /\ \/ /\ Left(Top) = {}
        /\ Leave(Top)
        /\ value' = [value EXCEPT !.names = @ \cup Top.names,
                                  !.holds = @ \/ (value.monadic /\ Top.holds)]
        /\ UNCHANGED <<delta, verdict, runs, next, nodes>>
     \/ \E x \in Left(Top) : Reject("LinearUnconsumed", x)

--------------------------------------------------------------------------------
(* if and match.                                                               *)

\* An arm of a match may name its scrutinee.
BindArm(x) ==
  /\ env' = [y \in Names |-> IF y = x THEN Pure("int") ELSE env[y]]
  /\ scope' = [y \in Names |-> IF y = x THEN 0 ELSE scope[y]]

\* Every arm starts from a clone of the context.
OpenBranch ==
  /\ \E match \in BOOLEAN, arms \in 1 .. MaxArms :
       /\ match \/ arms = 2
       /\ Open([at |-> "arm", match |-> match, arms |-> arms, env |-> env, scope |-> scope,
                delta |-> delta, runs |-> runs, ends |-> <<>>, ended |-> {}, result |-> None])
       /\ \E x \in Names \cup {None} : (match \/ x = None) /\ BindArm(x)
  /\ UNCHANGED <<delta, runs, next>>

\* Circuits that differ in depth are joined; all else must have the type of the arms before.
SameType(t) ==
  Top.result # None => t.kind = Top.result.kind /\ t.monadic = Top.result.monadic

Joined(t) ==
  [t EXCEPT !.holds = @ \/ (Top.result # None /\ Top.result.holds),
            !.names = IF Top.match THEN {}
                      ELSE @ \cup (IF Top.result = None THEN {} ELSE Top.result.names)]

\* Mutant: the next arm goes on with the context the arm before it has left.
ArmContextThreaded == delta

ArmContext == Top.delta

NextArm ==
  /\ Returned /\ Top.at = "arm" /\ SameType(value) /\ Len(Top.ends) + 1 < Top.arms
  /\ stack' = Replace([Top EXCEPT !.ends = Append(@, delta), !.ended = @ \cup runs,
                                  !.result = Joined(value)])
  /\ delta' = ArmContext /\ runs' = Top.runs /\ value' = None
  /\ \E x \in Names \cup {None} :
       /\ Top.match \/ x = None
       /\ env' = [y \in Names |-> IF y = x THEN Pure("int") ELSE Top.env[y]]
       /\ scope' = [y \in Names |-> IF y = x THEN 0 ELSE Top.scope[y]]
  /\ UNCHANGED <<verdict, next, nodes>>

\* merge_branches: all arms must have left the same resources.
\* Mutant: the same number of them.
OthersByNumber(ends) ==
  {k \in DOMAIN ends : Cardinality(Residual(ends[k])) # Cardinality(Residual(ends[1]))}

Others(ends) == {k \in DOMAIN ends : Residual(ends[k]) # Residual(ends[1])}

Merge ==
  /\ Returned /\ Top.at = "arm" /\ SameType(value) /\ Len(Top.ends) + 1 = Top.arms
  /\ LET ends == Append(Top.ends, delta)
         others == Others(ends)
     IN IF others = {}
        THEN /\ Leave(Top)
             /\ delta' = ends[1] /\ runs' = Top.ended \cup runs /\ value' = Joined(value)
             /\ UNCHANGED <<verdict, next, nodes>>
        ELSE LET k == CHOOSE i \in others : \A j \in others : i <= j
             IN \E x \in (Residual(ends[k]) \ Residual(ends[1]))
                           \cup (Residual(ends[1]) \ Residual(ends[k])) :
                  Reject("LinearBranchMismatch", x)

--------------------------------------------------------------------------------
(* Lambdas, loops, borrow blocks, tensors.                                     *)

\* A lambda owns a fresh context, with its linear parameter if it has one.
OpenLambda ==
  /\ next <= MaxBindings
  /\ \E x \in Names, kind \in {"int", "lin"} :
       /\ Open([at |-> "lambda", introduced |-> IF kind = "lin" THEN {x} ELSE {},
                env |-> env, scope |-> scope, delta |-> delta, binding |-> next])
       /\ delta' = [y \in Names |-> IF kind = "lin" /\ y = x THEN Entry(kind, next) ELSE Unknown]
       /\ env' = IF kind = "lin" THEN env ELSE [env EXCEPT ![x] = Pure("int")]
       /\ scope' = [scope EXCEPT ![x] = IF kind = "lin" THEN next ELSE 0]
       /\ runs' = Owed(IF kind = "lin" THEN {next} ELSE {})
       /\ next' = next + 1

CloseLambda ==
  /\ Returned /\ Top.at = "lambda"
  /\ \/ /\ Left(Top) = {}
        /\ Leave(Top)
        /\ delta' = Top.delta /\ value' = Pure("int")
        /\ UNCHANGED <<verdict, runs, next, nodes>>
     \/ \E x \in Left(Top) : Reject("LinearUnconsumed", x)

\* The body of a loop is walked once, with the context of the loop.
OpenFor ==
  /\ \E x \in Names :
       /\ Open([at |-> "for", env |-> env, scope |-> scope, binding |-> next])
       /\ BindArm(x)
  /\ UNCHANGED <<delta, runs, next>>

CloseFor ==
  /\ Returned /\ Top.at = "for" /\ ~value.monadic /\ value.kind = "circ"
  /\ Leave(Top)
  /\ value' = [value EXCEPT !.names = {}]
  /\ UNCHANGED <<delta, verdict, runs, next, nodes>>

\* One ancilla (several are nested blocks but for the escape check).
OpenBorrow ==
  \E x \in Names :
    IF Available(delta, x) THEN Walking /\ Reject("LinearUnconsumed", x)
    ELSE /\ next <= MaxBindings
         /\ Open([at |-> "borrow", introduced |-> {x}, env |-> env, scope |-> scope])
         /\ delta' = [delta EXCEPT ![x] = Entry("lin", next)]
         /\ scope' = [scope EXCEPT ![x] = next]
         /\ runs' = Owed({next})
         /\ next' = next + 1
         /\ UNCHANGED env

CloseBorrow ==
  /\ Returned /\ Top.at = "borrow" /\ value.monadic
  /\ \/ /\ Left(Top) = {}
        /\ Leave(Top)
        /\ value' = [value EXCEPT !.names = {}]
        /\ UNCHANGED <<delta, verdict, runs, next, nodes>>
     \/ \E x \in Left(Top) : Reject("LinearUnconsumed", x)

\* (a, b) of two qubits is a register; the context goes from left to right.
OpenPair ==
  Open([at |-> "left"]) /\ UNCHANGED <<delta, env, scope, runs, next>>

CloseLeft ==
  /\ Returned /\ Top.at = "left" /\ ~value.monadic /\ value.kind = "lin"
  /\ stack' = Replace([at |-> "right", names |-> value.names])
  /\ value' = None
  /\ UNCHANGED <<delta, env, verdict, scope, runs, next, nodes>>

CloseRight ==
  /\ Returned /\ Top.at = "right" /\ ~value.monadic /\ value.kind = "lin"
  /\ stack' = Popped
  /\ value' = [value EXCEPT !.kind = "reg", !.names = @ \cup Top.names]
  /\ UNCHANGED <<delta, env, verdict, scope, runs, next, nodes>>

--------------------------------------------------------------------------------
(* A function.                                                                 *)

\* The function's parameters: some names, of some kinds.
Init ==
  \E params \in [Names -> Kinds \cup {None}], order \in [Names -> Bindings \cup {0}],
     count \in Bindings \cup {0} :
    LET linear == {x \in Names : params[x] \in Resources}
    IN /\ \A x \in Names : order[x] = 0 <=> x \notin linear
       /\ \A x, y \in linear : order[x] = order[y] => x = y
       /\ {order[x] : x \in linear} = 1 .. count
       /\ delta = [x \in Names |-> IF x \in linear THEN Entry(params[x], order[x]) ELSE Unknown]
       /\ env = [x \in Names |-> IF params[x] = "int" THEN Pure("int") ELSE None]
       /\ stack = <<[at |-> "function", introduced |-> linear]>>
       /\ scope = order
       /\ runs = {[b \in Bindings |-> IF b <= count THEN "unused" ELSE "absent"]}
       /\ next = count + 1
  /\ value = None
  /\ verdict = [is |-> "checking", name |-> None]
  /\ nodes = 0

CloseFunction ==
  /\ Returned /\ Top.at = "function"
  /\ \/ /\ Left(Top) = {}
        /\ verdict' = [is |-> "accepted", name |-> None]
        /\ UNCHANGED <<delta, env, stack, value, scope, runs, next, nodes>>
     \/ \E x \in Left(Top) : Reject("LinearUnconsumed", x)

Next ==
  \/ Literal \/ Gate \/ Allocate
  \/ \E x \in Names : UseUnrestricted(x) \/ UseLinear(x) \/ UsedTwice(x) \/ Capture(x)
  \/ Measure \/ Reset \/ Return
  \/ OpenRhs \/ CloseRhs \/ CloseBody
  \/ OpenBranch \/ NextArm \/ Merge
  \/ OpenLambda \/ CloseLambda \/ OpenFor \/ CloseFor \/ OpenBorrow \/ CloseBorrow
  \/ OpenPair \/ CloseLeft \/ CloseRight
  \/ CloseFunction

Spec == Init /\ [][Next]_vars

--------------------------------------------------------------------------------
(* Properties.                                                                 *)

\* Linearity soundness: however the branches of an accepted function go, what was bound
\* is used exactly once (the promise of linear.rs:3).
SpentExactlyOnce ==
  verdict.is = "accepted" =>
    \A r \in runs, b \in Bindings : r[b] \in {"absent", "once"}

\* While the body is walked, delta is what is left: an available name is unused in every
\* run so far, and what some run has not used is available, here or outside a lambda.
\* (A name that the unrestricted context hides cannot be used.)
Contexts ==
  {<<delta, env>>} \cup
  {<<stack[k].delta, stack[k].env>> : k \in {i \in DOMAIN stack : stack[i].at = "lambda"}}

DeltaIsTheRest ==
  /\ \A c \in Contexts, x \in Names :
       Available(c[1], x) /\ c[2][x] = None => \A r \in runs : r[c[1][x].binding] = "unused"
  /\ \A r \in runs, b \in Bindings :
       r[b] = "unused" => \E c \in Contexts, x \in Names :
                            Available(c[1], x) /\ c[1][x].binding = b

\* A refused function misuses the name it is refused for: some run has used it already,
\* some run has not used it, two runs disagree, or a lambda mentions what is older (which
\* is reported as a second use if an inner binding of that name was spent).
RejectsOnlyMisuse ==
  LET x == verdict.name
      Used(r) == r[scope[x]] # "unused"
      Captured == \E k \in DOMAIN stack :
                    stack[k].at = "lambda" /\ scope[x] \in 1 .. stack[k].binding - 1
  IN /\ verdict.is = "LinearUsedTwice" =>
          IF scope[x] = 0 THEN env[x] = None ELSE Captured \/ \E r \in runs : Used(r)
     /\ verdict.is = "LinearUnconsumed" =>
          \/ env[x] # None
          \/ Top.at = "rhs" /\ ~Available(delta, x)
          \/ scope[x] # 0 /\ \E r \in runs : ~Used(r)
     /\ verdict.is = "LinearBranchMismatch" =>
          \/ scope[x] # 0 /\ {r[scope[x]] : r \in runs \cup Top.ended} = {"unused", "once"}
          \/ env[x] # None
     /\ verdict.is = "LinearCapture" => Captured
================================================================================
