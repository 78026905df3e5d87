--------------------------------- MODULE Values ---------------------------------
(***************************************************************************)
(* The values of a program and the operators on them that both tiers call  *)
(* (prima-runtime, eval/expr.rs, eval/apply.rs, eval/class.rs), and the    *)
(* scopes names are looked up in (eval/env.rs).  Values are integers,      *)
(* booleans, arrays, tuples, options, symbols and Nil; every error is one  *)
(* value, because nothing here depends on its text.  An array is a         *)
(* sequence: assignment copies it, which is what the copy-on-write handles *)
(* amount to.                                                              *)
(***************************************************************************)
EXTENDS Integers, Sequences, SequencesExt, FiniteSets

-----------------------------------------------------------------------------
(* Values *)

Num(n) == <<"num", n>>
Bool(b) == <<"bool", b>>
Array(s) == <<"array", s>>
Tuple(s) == <<"tuple", s>>
Some(v) == <<"some", v>>
None == <<"none">>
Nil == <<"nil">>
Symbol(x) == <<"symbol", x>>
Error == <<"error">>

Is(kind, v) == v[1] = kind
Of(v) == v[2]

Arithmetic == {"+", "-", "*", "%"}
Ordering == {"<", "<=", "==", "!="}

-----------------------------------------------------------------------------
(* Operators *)

(* Rust's remainder takes the sign of the dividend. *)
Remainder(x, y) ==
  LET r == (IF x < 0 THEN -x ELSE x) % (IF y < 0 THEN -y ELSE y) IN IF x < 0 THEN -r ELSE r

NumberBinary(op, x, y) ==
  CASE op = "+" -> Num(x + y)
    [] op = "-" -> Num(x - y)
    [] op = "*" -> Num(x * y)
    [] op = "%" -> IF y = 0 THEN Error ELSE Num(Remainder(x, y))

AllNums(s) == \A i \in DOMAIN s : Is("num", s[i])

(* Array + Array concatenates; otherwise element by element, or element    *)
(* and scalar; an empty array or one that is not all numbers is an error.  *)
ArrayBinary(op, a, b) ==
  LET elem(v, i) == IF Is("array", v) THEN Of(v)[i] ELSE v
      arrays == {v \in {a, b} : Is("array", v)}
      len == Len(Of(CHOOSE v \in arrays : TRUE))
      out == [i \in 1..len |-> NumberBinary(op, Of(elem(a, i)), Of(elem(b, i)))]
  IN  IF op = "+" /\ Is("array", a) /\ Is("array", b) THEN Array(Of(a) \o Of(b))
      ELSE IF /\ len > 0
              /\ \A v \in {a, b} : IF Is("array", v) THEN Len(Of(v)) = len /\ AllNums(Of(v)) ELSE Is("num", v)
              /\ \A i \in 1..len : out[i] # Error
      THEN Array(out) ELSE Error

(* What is not a number becomes a node of the expression pool, where the   *)
(* operands of + and * have no order.                                      *)
SymbolicBinary(op, a, b) ==
  IF op = "%" \/ \E v \in {a, b} : v[1] \notin {"num", "symbol", "sum", "diff"} THEN Error
  ELSE IF op = "-" THEN <<"diff", <<a, b>>>> ELSE <<"sum", <<op, {<<"l", a>>, <<"l", b>>}>>>>

Compare(op, a, b) ==
  CASE Is("num", a) /\ Is("num", b) ->
         Bool(CASE op = "<" -> Of(a) < Of(b) [] op = "<=" -> Of(a) <= Of(b)
                [] op = "==" -> Of(a) = Of(b) [] op = "!=" -> Of(a) # Of(b))
    [] Is("bool", a) /\ Is("bool", b) -> Bool(CASE op = "==" -> a = b [] op = "!=" -> a # b [] OTHER -> FALSE)
    [] Is("array", a) /\ Is("array", b) /\ op \in {"==", "!="} -> Bool((a = b) = (op = "=="))
    [] OTHER -> Error

Binary(op, a, b) ==
  CASE op \in Ordering -> Compare(op, a, b)
    [] op \in {"&&", "||"} ->
         IF ~(Is("bool", a) /\ Is("bool", b)) THEN Error
         ELSE Bool(IF op = "&&" THEN Of(a) /\ Of(b) ELSE Of(a) \/ Of(b))
    [] OTHER -> IF Is("array", a) \/ Is("array", b) THEN ArrayBinary(op, a, b)
                ELSE IF Is("num", a) /\ Is("num", b) THEN NumberBinary(op, Of(a), Of(b))
                ELSE SymbolicBinary(op, a, b)

Negate(v) ==
  CASE Is("num", v) -> Num(-Of(v))
    [] Is("array", v) -> IF AllNums(Of(v)) THEN Array([i \in DOMAIN Of(v) |-> Num(-Of(Of(v)[i]))]) ELSE Error
    [] v[1] \in {"symbol", "sum", "diff"} -> SymbolicBinary("*", Num(-1), v)
    [] OTHER -> Error

(* A negative index counts from the end; 0 stands for out of range. *)
Position(len, i) ==
  LET r == IF i < 0 THEN len + i ELSE i IN IF r \in 0..len - 1 THEN r + 1 ELSE 0

Element(a, i) ==
  IF Is("array", a) /\ Is("num", i) /\ Position(Len(Of(a)), Of(i)) > 0
  THEN Of(a)[Position(Len(Of(a)), Of(i))] ELSE Error

Replaced(a, i, v) ==
  IF Is("array", a) /\ Is("num", i) /\ Position(Len(Of(a)), Of(i)) > 0
  THEN Array([Of(a) EXCEPT ![Position(Len(Of(a)), Of(i))] = v]) ELSE Error

Apply(op, vs) ==
  CASE op = "array" -> Array(vs)
    [] op = "tuple" -> Tuple(vs)
    [] op = "at" -> Element(vs[1], vs[2])
    [] op = "neg" -> Negate(vs[1])
    [] op = "not" -> IF Is("bool", vs[1]) THEN Bool(~Of(vs[1])) ELSE Error
    [] op = "pos" -> vs[1]
    [] op = "len" -> IF Is("array", vs[1]) THEN Num(Len(Of(vs[1]))) ELSE Error
    [] OTHER -> Binary(op, vs[1], vs[2])

(* A mutating method on an array: what it leaves and what it answers. *)
Mutated(op, s, args) ==
  CASE op = "push" -> <<Append(s, args[1]), Nil>>
    [] op = "pop" -> IF s = <<>> THEN <<s, None>> ELSE <<Front(s), Some(Last(s))>>
    [] op = "clear" -> <<<<>>, Nil>>
    [] op = "reverse" -> <<Reverse(s), Nil>>

-----------------------------------------------------------------------------
(* Environments: the scopes of a call, the outermost first *)

NoNames == [x \in {} |-> Nil]

Where(env, x) == {i \in 1..Len(env) : x \in DOMAIN env[i]}
Innermost(env, x) == CHOOSE i \in Where(env, x) : \A j \in Where(env, x) : j <= i
(* An unbound name is a symbol. *)
Lookup(env, x) == IF Where(env, x) = {} THEN Symbol(x) ELSE env[Innermost(env, x)][x]

=============================================================================
