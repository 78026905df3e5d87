------------------------------ MODULE Symbolic ------------------------------
(***************************************************************************)
(* Symbolic expressions (prima-core): the constructors that keep them in   *)
(* canonical form (expr_pool.rs), the simplifier (simplify.rs) and the     *)
(* numeric value (collapse.rs).  An expression is the content of its node; *)
(* interning gives equal contents one id, which ExprPool models, so ids    *)
(* are left out here.  Sums and products are in the order of their ranks;  *)
(* where the code then orders by id, that is by age, they stay as written. *)
(* Numbers are the exact layer, fractions <<numerator, denominator>>.      *)
(***************************************************************************)
EXTENDS Integers, Sequences, SequencesExt, FiniteSetsExt, Field

CONSTANT MaxPowBits   \* MAX_POW_BITS: the size of the largest exact power

Node(op, n, s, args) == [op |-> op, n |-> n, s |-> s, args |-> args]

Num(q) == Node("num", q, "", <<>>)
Sym(s) == Node("sym", <<0, 1>>, s, <<>>)
Pow(b, e) == Node("pow", <<0, 1>>, "", <<b, e>>)
Apply(f, args) == Node("apply", <<0, 1>>, f, args)

IsNum(e) == e.op = "num"

(* Exact numbers. *)
Abs1(k) == IF k < 0 THEN -k ELSE k

Gcd[p \in Nat \X Nat] == IF p[2] = 0 THEN p[1] ELSE Gcd[<<p[2], p[1] % p[2]>>]

Normalized(n, d) == LET g == Gcd[<<Abs1(n), Abs1(d)>>] * (IF d < 0 THEN -1 ELSE 1)
                    IN <<n \div g, d \div g>>

Zero == <<0, 1>>
One == <<1, 1>>
Plus(p, q) == Normalized(p[1] * q[2] + q[1] * p[2], p[2] * q[2])
Times(p, q) == Normalized(p[1] * q[1], p[2] * q[2])
Quotient(p, q) == Normalized(p[1] * q[2], p[2] * q[1])

Whole(k) == Num(<<k, 1>>)

IsOne(e) == e = Num(One)
IsZero(e) == e = Num(Zero)

(* `Number::pow`: a whole power, or the exact root of a perfect square. *)
NoNumber == {}

Isqrt(n) == {k \in 0..Min({n, 2 ^ (MaxPowBits \div 2)}) : k * k = n}

SqrtNumber(q) == {<<p, d>> : p \in Isqrt(q[1]), d \in Isqrt(q[2])}

Bits(n) == CHOOSE b \in 0..30 : Abs1(n) < 2 ^ b /\ (b = 0 \/ Abs1(n) >= 2 ^ (b - 1))

RaiseWhole(q, k) ==
  LET magnitude == Abs1(k)
      p == <<q[1] ^ magnitude, q[2] ^ magnitude>>
  IN IF k < 0 /\ q[1] = 0 THEN NoNumber
     ELSE IF Max({Bits(q[1]), Bits(q[2])}) * magnitude > MaxPowBits THEN NoNumber
     ELSE {IF k < 0 THEN Normalized(p[2], p[1]) ELSE p}

PowNumber(q, e) ==
  IF e[2] = 1 THEN RaiseWhole(q, e[1])
  ELSE IF e = <<1, 2>> THEN SqrtNumber(q)
  ELSE NoNumber

(***************************************************************************)
(* `add_n`, `mul_n`, `pow2` and what is built from them.                   *)
(***************************************************************************)
NodeRank(e) == IF IsNum(e) THEN 0 ELSE IF e.op = "sym" THEN 1 ELSE 2

Sorted(items) == FlattenSeq([r \in 1..3 |-> SelectSeq(items, LAMBDA e : NodeRank(e) = r - 1)])

Flat(op, items) == FlattenSeq([i \in DOMAIN items |->
                     IF items[i].op = op THEN items[i].args ELSE <<items[i]>>])

Constants(items) == SelectSeq(items, IsNum)
Others(items) == SelectSeq(items, LAMBDA e : ~ IsNum(e))

Fold(combine(_, _), unit, items) ==
  FoldLeft(LAMBDA acc, e : combine(acc, e.n), unit, Constants(items))

Group(op, unit, items) ==
  IF items = <<>> THEN Num(unit)
  ELSE IF Len(items) = 1 THEN items[1]
  ELSE Node(op, Zero, "", Sorted(items))

(* The constant is left out when it is the unit. *)
Canonical(op, unit, constant, items) ==
  Group(op, unit, IF constant = unit THEN items ELSE Append(items, Num(constant)))

AddN(items) ==
  LET flat == Flat("add", items)
  IN Canonical("add", Zero, Fold(Plus, Zero, flat), Others(flat))

MulN(items) ==
  LET flat == Flat("mul", items)
      product == Fold(Times, One, flat)
  IN IF product = Zero THEN Num(Zero)
     ELSE Canonical("mul", One, product, Others(flat))

Add2(a, b) == AddN(<<a, b>>)
Mul2(a, b) == MulN(<<a, b>>)

Pow2(b, e) ==
  LET exact == IF IsNum(b) /\ IsNum(e) THEN PowNumber(b.n, e.n) ELSE NoNumber
  IN IF IsZero(e) THEN Whole(1)
     ELSE IF IsOne(e) THEN b
     ELSE IF IsOne(b) THEN Whole(1)
     ELSE IF exact # NoNumber THEN Num(CHOOSE q \in exact : TRUE)
     ELSE Pow(b, e)

Sub2(a, b) == Add2(a, Mul2(Whole(-1), b))
Div2(a, b) == Mul2(a, Pow2(b, Whole(-1)))

(***************************************************************************)
(* The angle k of an argument k \pi, and the exact values of the table.    *)
(* Each factor \pi only sets a flag.                                       *)
(***************************************************************************)
PiCoefficient(e) ==
  IF e = Sym("pi") THEN {One}
  ELSE IF IsZero(e) THEN {Zero}
  ELSE IF /\ e.op = "mul"
          /\ \A i \in DOMAIN e.args : IsNum(e.args[i]) \/ e.args[i] = Sym("pi")
          /\ \E i \in DOMAIN e.args : e.args[i] = Sym("pi")
       THEN {Fold(Times, One, e.args)}
  ELSE {}

(* <<cos, sin>> at the multiples of a right angle. *)
ExactTrig(q) ==
  LET turns == (2 * q[1]) \div q[2]
  IN IF (2 * q[1]) % q[2] = 0
     THEN {<< <<1, 0>>, <<0, 1>>, <<-1, 0>>, <<0, -1>> >>[(turns % 4) + 1]}
     ELSE {}

TrigOfAngle(e) == UNION {ExactTrig(q) : q \in PiCoefficient(e)}

TrigRule(f, t) ==
  CASE f = "sin" -> {Whole(t[2])}
    [] f = "cos" -> {Whole(t[1])}
    [] f = "tan" /\ t[1] # 0 -> {Whole(t[2] \div t[1])}
    [] OTHER -> {}

(* `apply_rule`: what a function of one argument folds to, if anything. *)
ApplyRule(f, arg) ==
  CASE f = "sqrt" /\ IsNum(arg) -> {Num(q) : q \in SqrtNumber(arg.n)}
    [] f \in {"sin", "cos", "tan"} -> UNION {TrigRule(f, t) : t \in TrigOfAngle(arg)}
    [] f = "exp" /\ IsZero(arg) -> {Whole(1)}
    [] f \in {"log", "ln"} /\ IsOne(arg) -> {Whole(0)}
    [] f \in {"log", "ln"} /\ arg = Sym("e") -> {Whole(1)}
    [] f = "abs" /\ IsNum(arg) -> {Num(<<Abs1(arg.n[1]), arg.n[2]>>)}
    [] OTHER -> {}

(* `euler`: e^(i angle) at the multiples of a right angle. *)
Euler(z) ==
  LET rest == SelectSeq(z.args, LAMBDA a : a # Sym("i"))
      theta == FoldLeft(Mul2, rest[1], Tail(rest))
      unit(t) == IF t[2] = 0 THEN Whole(t[1]) ELSE Mul2(Whole(t[2]), Sym("i"))
  IN IF z.op = "mul" /\ rest # <<>> /\ rest # z.args
     THEN {unit(t) : t \in TrigOfAngle(theta)}
     ELSE {}

(* The rule without a look at the exponent. *)
SqrtEliminatedAnyPower(b, e) == b.op = "apply" /\ b.s = "sqrt" /\ IsNum(e)

(* `sqrt(u)^2` is u. *)
SqrtEliminated(b, e) == b.op = "apply" /\ b.s = "sqrt" /\ e = Whole(2)

PowRule(b, e) == IF b = Sym("e") THEN Euler(e) ELSE {}

OneOf(folded, otherwise) ==
  IF folded = {} THEN otherwise ELSE CHOOSE r \in folded : TRUE

RECURSIVE Simplify(_)

Simplify(id) ==
  LET parts == [i \in DOMAIN id.args |-> Simplify(id.args[i])]
  IN CASE id.op = "add" -> FoldLeft(Add2, parts[1], Tail(parts))
       [] id.op = "mul" -> FoldLeft(Mul2, parts[1], Tail(parts))
       [] id.op = "pow" ->
            IF SqrtEliminated(parts[1], parts[2]) THEN Simplify(parts[1].args[1])
            ELSE OneOf(PowRule(parts[1], parts[2]), Pow2(parts[1], parts[2]))
       [] id.op = "apply" -> OneOf(ApplyRule(id.s, parts[1]), Apply(id.s, parts))
       [] OTHER -> id

(***************************************************************************)
(* `numeric_value`: the value of an expression where env gives its         *)
(* symbols theirs.                                                         *)
(***************************************************************************)
Function(f, v) ==
  CASE f = "sqrt" -> FSqrt[v]
    [] f = "abs" -> FAbs(v)
    [] f = "exp" -> FExp(v)
    [] f \in {"log", "ln"} -> FLn(v)
    [] f = "sin" -> FSin(v)
    [] f = "cos" -> FCos(v)
    [] f = "tan" -> FTan(v)

RECURSIVE Value(_, _)

Value(e, env) ==
  LET parts == [i \in DOMAIN e.args |-> Value(e.args[i], env)]
  IN CASE e.op = "num" -> Ratio(e.n[1], e.n[2])
       [] e.op = "sym" -> env[e.s]
       [] e.op = "add" -> FoldLeft(FAdd, 0, parts)
       [] e.op = "mul" -> FoldLeft(FMul, 1, parts)
       [] e.op = "pow" -> FPow(parts[1], parts[2])
       [] e.op = "apply" -> Function(e.s, parts[1])
=============================================================================
