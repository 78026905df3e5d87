------------------------------ MODULE Calculus ------------------------------
(***************************************************************************)
(* Differentiation three ways and limits (prima-runtime): the symbolic     *)
(* rules and L'Hopital's rule of diff.rs, and the tape of ad.rs, run       *)
(* backward for every parameter at once or forward with dual numbers for   *)
(* one.  The state is the expression a program has built so far; each      *)
(* action is one operation of the evaluator on symbolic values, which ends *)
(* with the simplifier.                                                    *)
(***************************************************************************)
EXTENDS Symbolic

CONSTANTS
  Atoms,       \* the operands a program combines its expression with
  Operators,   \* "add", "sub", "mul", "div", "pow"
  Functions,   \* the elementary functions it applies
  Variables,   \* sequence: the symbols to differentiate by, in interning order
  Points,      \* values of the variables to compare derivatives at
  Targets,     \* the numbers limits are taken at
  LHopitalMaxIter,  \* L_HOPITAL_MAX_ITER
  MaxSteps     \* bound: operations of a program

BuiltinConstants == {"e", "pi", "i"}

VARIABLES
  expr,       \* the value of the program's variable
  meant,      \* point -> what the same operations give on numbers
  repeated,   \* an angle with two factors \pi or \i was simplified
  steps

vars == <<expr, meant, repeated, steps>>

(***************************************************************************)
(* diff.rs                                                                 *)
(***************************************************************************)
RECURSIVE ContainsSymbol(_, _)

ContainsSymbol(e, x) == e = Sym(x) \/ \E i \in DOMAIN e.args : ContainsSymbol(e.args[i], x)

FunctionDerivative(f, arg) ==
  CASE f = "sin" -> Apply("cos", <<arg>>)
    [] f = "cos" -> MulN(<<Whole(-1), Apply("sin", <<arg>>)>>)
    [] f = "tan" -> Pow2(Apply("cos", <<arg>>), Whole(-2))
    [] f = "exp" -> Apply("exp", <<arg>>)
    [] f \in {"ln", "log"} -> Div2(Whole(1), arg)
    [] f = "sqrt" -> Div2(Whole(1), Mul2(Whole(2), Apply("sqrt", <<arg>>)))
    [] f = "abs" -> Div2(arg, Apply("abs", <<arg>>))
    [] OTHER -> Whole(0)

(* The product rule: each factor's derivative times the other factors. *)
ProductRule(items, derivatives) ==
  FoldLeft(Add2, Whole(0),
    [i \in DOMAIN items |->
       Mul2(MulN(SubSeq(items, 1, i - 1) \o SubSeq(items, i + 1, Len(items))), derivatives[i])])

PowerRule(e, x, db, de) ==
  LET b == e.args[1]
      n == e.args[2]
      ln == Apply("ln", <<b>>)
  IN IF ~ ContainsSymbol(n, x) THEN MulN(<<n, Pow2(b, Sub2(n, Whole(1))), db>>)
     ELSE IF ~ ContainsSymbol(b, x) THEN MulN(<<e, ln, de>>)
     ELSE Mul2(e, Add2(Mul2(n, Div2(db, b)), Mul2(de, ln)))

RECURSIVE Derivative(_, _)

Derivative(e, x) ==
  LET d == [i \in DOMAIN e.args |-> Derivative(e.args[i], x)]
  IN CASE e.op = "num" -> Whole(0)
       [] e.op = "sym" -> IF e.s = x THEN Whole(1) ELSE Whole(0)
       [] e.op = "add" -> FoldLeft(Add2, d[1], Tail(d))
       [] e.op = "mul" -> ProductRule(e.args, d)
       [] e.op = "pow" -> PowerRule(e, x, d[1], d[2])
       [] e.op = "apply" -> Mul2(FunctionDerivative(e.s, e.args[1]), d[1])

\* In interning order, without the built-in constants.
FreeSymbols(e) ==
  SelectSeq(Variables, LAMBDA s : s \notin BuiltinConstants /\ ContainsSymbol(e, s))

Gradient(e) == LET by == FreeSymbols(e) IN [i \in DOMAIN by |-> Derivative(e, by[i])]

RECURSIVE Substitute(_, _, _)

Substitute(e, x, value) ==
  LET parts == [i \in DOMAIN e.args |-> Substitute(e.args[i], x, value)]
  IN CASE e.op = "num" -> e
       [] e.op = "sym" -> IF e.s = x THEN value ELSE e
       [] e.op = "add" -> AddN(parts)
       [] e.op = "mul" -> MulN(parts)
       [] e.op = "pow" -> Pow2(parts[1], parts[2])
       [] e.op = "apply" -> Apply(e.s, parts)

(* f/g is the product of f and g^-1: the first such factor is taken. *)
SplitRatio(e) ==
  LET inverses == {i \in DOMAIN e.args : e.op = "mul" /\ e.args[i].op = "pow"
                                          /\ e.args[i].args[2] = Whole(-1)}
      i == Min(inverses)
  IN IF inverses = {} THEN <<e, Whole(1)>>
     ELSE <<MulN(SubSeq(e.args, 1, i - 1) \o SubSeq(e.args, i + 1, Len(e.args))),
            e.args[i].args[1]>>

(* One round: the two parts at the point decide, or both are              *)
(* differentiated and the next round decides.                             *)
RECURSIVE LimitFrom(_, _, _, _, _)

LimitFrom(num, den, x, at, round) ==
  LET top == Simplify(Substitute(num, x, at))
      bottom == Simplify(Substitute(den, x, at))
  IN IF round > LHopitalMaxIter THEN Simplify(Div2(num, den))
     ELSE IF IsNum(top) /\ IsNum(bottom) /\ ~ IsZero(bottom)
       THEN Num(Quotient(top.n, bottom.n))
     ELSE IF IsNum(top) /\ ~ IsZero(top) THEN Div2(top, bottom)
     ELSE LimitFrom(Derivative(num, x), Derivative(den, x), x, at, round + 1)

Limit(e, x, at) == LimitFrom(SplitRatio(e)[1], SplitRatio(e)[2], x, at, 0)

(***************************************************************************)
(* The tape of ad.rs: the nodes of the expression, children first, each    *)
(* expression once.  `built` is 0 when a node has no numeric form.         *)
(***************************************************************************)
TapeNode(kind, value, l, r) == [kind |-> kind, value |-> value, l |-> l, r |-> r]

EmptyTape == [nodes |-> <<>>, memo |-> {}, params |-> [s \in Range(Variables) |-> 0], built |-> 0]

Push(b, node) == [b EXCEPT !.nodes = Append(@, node), !.built = Len(b.nodes) + 1]

Remember(b, e) ==
  IF b.built = 0 THEN b ELSE [b EXCEPT !.memo = @ \union {<<e, b.built>>}]

Fails(b) == [b EXCEPT !.built = 0]

(* A memo that only knows the composite expressions. *)
SeenComposite(b, e) == {m[2] : m \in {k \in b.memo : k[1] = e /\ e.args # <<>>}}

Seen(b, e) == {m[2] : m \in {k \in b.memo : k[1] = e}}

BuildSymbol(b, s) ==
  IF s \in Range(Variables)
  THEN [Push(b, TapeNode("param", s, 0, 0)) EXCEPT !.params[s] = Len(b.nodes) + 1]
  ELSE IF s = "pi" THEN Push(b, TapeNode("const", PiValue, 0, 0))
  ELSE IF s = "e" THEN Push(b, TapeNode("const", EValue, 0, 0))
  ELSE Fails(b)

Combine(b, kind, l) ==
  IF b.built = 0 THEN b ELSE Push(b, TapeNode(kind, 0, l, b.built))

RECURSIVE BuildNode(_, _)

(* A sum or a product is a chain of binary nodes, from the left. *)
Chain(b, e) ==
  FoldLeft(LAMBDA acc, it : IF acc.built = 0 THEN acc
                            ELSE Combine(BuildNode(acc, it), e.op, acc.built),
           BuildNode(b, e.args[1]), Tail(e.args))

BuildNew(b, e) ==
  CASE e.op = "num" -> Push(b, TapeNode("const", Ratio(e.n[1], e.n[2]), 0, 0))
    [] e.op = "sym" -> BuildSymbol(b, e.s)
    [] e.op \in {"add", "mul", "pow"} -> Chain(b, e)
    [] e.op = "apply" -> Combine(BuildNode(b, e.args[1]), e.s, 0)

BuildNode(b, e) ==
  IF Seen(b, e) # {} THEN [b EXCEPT !.built = CHOOSE i \in Seen(b, e) : TRUE]
  ELSE Remember(BuildNew(b, e), e)

(* A parameter the expression does not mention gets a constant to read     *)
(* its zero adjoint from.                                                  *)
AddMissing(b, s) ==
  IF b.params[s] # 0 THEN b
  ELSE [b EXCEPT !.nodes = Append(@, TapeNode("const", 0, 0, 0)),
                 !.params[s] = Len(b.nodes) + 1]

BuildTape(e) ==
  LET b == BuildNode(EmptyTape, e)
  IN [tape |-> FoldLeft(AddMissing, b, Variables), output |-> b.built]

NodeValue(node, vals, inputs) ==
  CASE node.kind = "const" -> node.value
    [] node.kind = "param" -> inputs[node.value]
    [] node.kind = "add" -> FAdd(vals[node.l], vals[node.r])
    [] node.kind = "mul" -> FMul(vals[node.l], vals[node.r])
    [] node.kind = "pow" -> FPow(vals[node.l], vals[node.r])
    [] OTHER -> Function(node.kind, vals[node.r])

Forward(nodes, inputs) ==
  FoldLeft(LAMBDA vals, node : Append(vals, NodeValue(node, vals, inputs)), <<>>, nodes)

(* What a node adds to the adjoint of its left and of its right child. *)
MathAdjoint(f, v) ==
  CASE f = "sin" -> FCos(v)
    [] f = "cos" -> FNeg(FSin(v))
    [] f = "tan" -> FAdd(1, FMul(FTan(v), FTan(v)))
    [] f = "exp" -> FExp(v)
    [] f \in {"ln", "log"} -> FDiv(1, v)
    [] f = "sqrt" -> FDiv(1, FMul(2, FSqrt[v]))
    [] f = "abs" -> FSignum(v)

(* A Pow node: a v u^(v-1) to the base and a ln(u) u^v to the exponent.    *)
LeftFactor(node, vals) ==
  LET u == vals[node.l]
      v == vals[node.r]
  IN CASE node.kind = "add" -> 1
       [] node.kind = "mul" -> v
       [] node.kind = "pow" -> FMul(v, FPow(u, FSub(v, 1)))

RightFactor(node, vals) ==
  CASE node.kind = "add" -> 1
    [] node.kind = "mul" -> vals[node.l]
    [] node.kind = "pow" -> FMul(FLn(vals[node.l]), FPow(vals[node.l], vals[node.r]))
    [] OTHER -> MathAdjoint(node.kind, vals[node.r])

Leaf(node) == node.kind \in {"const", "param"}

Backward(nodes, vals, seeded) ==
  FoldRight(LAMBDA i, adj :
              LET node == nodes[i]
                  left == IF Leaf(node) \/ node.l = 0 THEN adj
                          ELSE [adj EXCEPT ![node.l] =
                                  FAdd(@, FMul(adj[i], LeftFactor(node, vals)))]
              IN IF Leaf(node) THEN adj
                 ELSE [left EXCEPT ![node.r] =
                         FAdd(@, FMul(adj[i], RightFactor(node, vals)))],
            [i \in DOMAIN nodes |-> i], seeded)

(* `grad`: forward for the values, backward from the output's adjoint 1. *)
Grad(t, inputs) ==
  LET nodes == t.tape.nodes
      adj == Backward(nodes, Forward(nodes, inputs),
                      [i \in DOMAIN nodes |-> IF i = t.output THEN 1 ELSE 0])
  IN [s \in Range(Variables) |-> adj[t.tape.params[s]]]

(* Dual numbers <<value, derivative>>. *)
DualMul(a, b) == <<FMul(a[1], b[1]), FAdd(FMul(a[2], b[1]), FMul(a[1], b[2]))>>

DualPow(a, b) ==
  LET power == FPow(a[1], b[1])
  IN <<power, FAdd(FMul(FMul(b[1], FPow(a[1], FSub(b[1], 1))), a[2]),
                   FMul(FMul(FLn(a[1]), power), b[2]))>>

DualMath(f, a) == <<Function(f, a[1]), FMul(a[2], MathAdjoint(f, a[1]))>>

DualNode(node, duals, inputs, wrt) ==
  CASE node.kind = "const" -> <<node.value, 0>>
    [] node.kind = "param" -> <<inputs[node.value], IF node.value = wrt THEN 1 ELSE 0>>
    [] node.kind = "add" -> <<FAdd(duals[node.l][1], duals[node.r][1]),
                              FAdd(duals[node.l][2], duals[node.r][2])>>
    [] node.kind = "mul" -> DualMul(duals[node.l], duals[node.r])
    [] node.kind = "pow" -> DualPow(duals[node.l], duals[node.r])
    [] OTHER -> DualMath(node.kind, duals[node.r])

ForwardDerivative(t, inputs, wrt) ==
  FoldLeft(LAMBDA duals, node : Append(duals, DualNode(node, duals, inputs, wrt)),
           <<>>, t.tape.nodes)[t.output][2]

(***************************************************************************)
(* The evaluator: an operation on two values, at least one of them         *)
(* symbolic, an elementary function, a negation, `derivative`, `limit`.    *)
(* meant holds the values the operations give when each is done on         *)
(* numbers; repeated is set when a function or a power is given a product  *)
(* with two factors \pi or \i, which the simplifier's angles count once.   *)
(***************************************************************************)
Env(p) == p @@ [s \in BuiltinConstants |->
                  CASE s = "pi" -> PiValue [] s = "e" -> EValue [] s = "i" -> IValue]

Values(e) == [p \in Points |-> Value(e, Env(p))]

Symbolic2(op, a, b) ==
  CASE op = "add" -> Add2(a, b)
    [] op = "sub" -> Sub2(a, b)
    [] op = "mul" -> Mul2(a, b)
    [] op = "div" -> Div2(a, b)
    [] op = "pow" -> Pow2(a, b)

Numeric2(op, a, b) ==
  CASE op = "add" -> FAdd(a, b)
    [] op = "sub" -> FSub(a, b)
    [] op = "mul" -> FMul(a, b)
    [] op = "div" -> FDiv(a, b)
    [] op = "pow" -> FPow(a, b)

Init ==
  /\ expr \in Atoms
  /\ meant = Values(expr)
  /\ repeated = FALSE
  /\ steps = 0

Twice(e) ==
  e.op = "mul" /\ \E i, j \in DOMAIN e.args : i # j /\ e.args[i] = e.args[j]
                                               /\ e.args[i] \in {Sym("pi"), Sym("i")}

Step == steps < MaxSteps /\ steps' = steps + 1

Operate(op, a, b, x, y) ==
  /\ Step
  /\ ~ (IsNum(a) /\ IsNum(b))
  /\ expr' = Simplify(Symbolic2(op, a, b))
  /\ meant' = [p \in Points |-> Numeric2(op, x[p], y[p])]
  /\ repeated' = (repeated \/ (op = "pow" /\ Twice(b)))

(* `eval_binary` with the expression on the left or on the right. *)
EvalBinary(op, a) ==
  \/ Operate(op, expr, a, meant, Values(a))
  \/ Operate(op, a, expr, Values(a), meant)

(* An elementary function; one of a number is folded or left as it is. *)
CallFunction(f) ==
  /\ Step
  /\ expr' = Simplify(Apply(f, <<expr>>))
  /\ meant' = [p \in Points |-> IF meant[p] = Nan THEN Nan ELSE Function(f, meant[p])]
  /\ repeated' = (repeated \/ Twice(expr))

EvalUnary ==
  /\ Step
  /\ ~ IsNum(expr)
  /\ expr' = Simplify(Mul2(Whole(-1), expr))
  /\ meant' = [p \in Points |-> FNeg(meant[p])]
  /\ UNCHANGED repeated

(* `derivative(expr, x)`: what it should mean is DerivativesAgree's. *)
EvalDerivative(x) ==
  /\ Step
  /\ expr' = Simplify(Derivative(expr, x))
  /\ meant' = Values(expr')
  /\ repeated' = FALSE

EvalLimit(x, at) ==
  /\ Step
  /\ expr' = Limit(expr, x, at)
  /\ meant' = Values(expr')
  /\ repeated' = FALSE

Next ==
  \/ \E op \in Operators, a \in Atoms : EvalBinary(op, a)
  \/ \E f \in Functions : CallFunction(f)
  \/ EvalUnary
  \/ \E x \in Range(Variables) : EvalDerivative(x) \/ \E at \in Targets : EvalLimit(x, at)

Spec == Init /\ [][Next]_vars

-----------------------------------------------------------------------------
(* The simplifier never changes a value: at every point where doing the    *)
(* operations one by one on numbers gives a number, the expression built   *)
(* by the constructors and the rules has that value (simplify.rs:          *)
(* "Simplification never changes the mathematical value").  Products that  *)
(* repeat \pi or \i inside an angle are excepted.                          *)
ValueKept ==
  repeated \/ \A p \in Points : meant[p] # Nan => Value(expr, Env(p)) = meant[p]

(* The derivatives are one: wherever all are numbers, the symbolic         *)
(* gradient (`grad`, where a symbol it leaves out stands for 0), the tape  *)
(* run backward for all variables at once, with shared subexpressions      *)
(* adding up their adjoints, and dual numbers run forward for one variable *)
(* give the same (diff.rs, ad.rs).                                         *)
DerivativesAgree ==
  LET t  == BuildTape(expr)
      by == FreeSymbols(expr)
      d  == Gradient(expr)
  IN t.output # 0 =>
       \A x \in Range(Variables) :
         LET Partials == {Simplify(d[i]) : i \in {i \in DOMAIN by : by[i] = x}}
             partial  == IF Partials = {} THEN Whole(0) ELSE CHOOSE e \in Partials : TRUE
         IN \A p \in Points :
              LET values == {Value(partial, Env(p)), Grad(t, p)[x], ForwardDerivative(t, p, x)}
              IN Nan \in values \/ \E v \in values : values = {v}

At(p, x, at) == [Env(p) EXCEPT ![x] = Ratio(at.n[1], at.n[2])]

(* `limit` has the value of the expression at the point wherever it has    *)
(* one: L'Hopital's rule is for a ratio whose two parts vanish, and what   *)
(* has no numeric limit is the substituted expression (diff.rs).           *)
LimitIsValue ==
  \A x \in Range(Variables), at \in Targets, p \in Points :
    LET value == Value(expr, At(p, x, at))
        limit == Value(Limit(expr, x, at), Env(p))
    IN value # Nan => limit = value
=============================================================================
