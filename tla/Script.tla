--------------------------------- MODULE Script ---------------------------------
(***************************************************************************)
(* The statements and expressions of a `fn` body and what the AST          *)
(* interpreter makes of them (prima-runtime, eval/stmt.rs, eval/expr.rs,   *)
(* eval/apply.rs, eval/class.rs).                                          *)
(*                                                                         *)
(* The loop formula is a parameter: without it the interpreter is what the *)
(* other ways to run a body are compared with.                             *)
(***************************************************************************)
EXTENDS Values, TLC

CONSTANT LoopFormula   \* loop_optimization and opt_level >= O1

ASSUME LoopFormulaAssumption == LoopFormula \in BOOLEAN

-----------------------------------------------------------------------------
(* Expressions: literals, names, one node form for every operator, and the *)
(* methods that change the array a variable holds.                         *)
Lit(v) == [k |-> "lit", v |-> v]
Var(x) == [k |-> "var", x |-> x]
Node(op, args) == [k |-> "node", op |-> op, args |-> args]
Change(x, op, args) == [k |-> "change", x |-> x, op |-> op, args |-> args]

(* Statements.  An elif is an `if` in the else block.  `x op= e` is        *)
(* Set(x, op, e), `a[i] = e` is Put(a, i, e).                              *)
Let(x, e) == [k |-> "let", x |-> x, e |-> e]
Set(x, op, e) == [k |-> "set", x |-> x, op |-> op, e |-> e]
Put(x, i, e) == [k |-> "put", x |-> x, i |-> i, e |-> e]
Do(e) == [k |-> "do", e |-> e]
Return(e) == [k |-> "return", e |-> e]
If(e, then, else) == [k |-> "if", e |-> e, b |-> then, c |-> else]
While(e, b) == [k |-> "while", e |-> e, b |-> b]
For(x, lo, hi, by, b) == [k |-> "for", x |-> x, lo |-> lo, hi |-> hi, by |-> by, b |-> b]

Func(params, body) == [params |-> params, body |-> body]

-----------------------------------------------------------------------------
(* Environments *)

Bind(env, i, x, v) == [env EXCEPT ![i] = (x :> v) @@ @]

(* set_existing along the chain, or else the scope at hand. *)
Assign(env, x, v) == Bind(env, IF Where(env, x) = {} THEN Len(env) ELSE Innermost(env, x), x, v)

-----------------------------------------------------------------------------
(* The interpreter.  A result is the environment, a value, and whether to  *)
(* go on, return, or stop on an error.                                     *)

Got(env, v) == [env |-> env, v |-> v, sig |-> IF v = Error THEN "error" ELSE "go"]
Then(r, Rest(_)) == IF r.sig = "go" THEN Rest(r) ELSE r

RECURSIVE Eval(_, _), EvalAll(_, _), Exec(_, _), ExecAll(_, _), Loop(_, _), Turns(_, _, _, _, _)

EvalAll(es, env) ==
  IF es = <<>> THEN [env |-> env, v |-> <<>>, sig |-> "go"]
  ELSE Then(Eval(Head(es), env), LAMBDA r :
         Then(EvalAll(Tail(es), r.env), LAMBDA rest : [rest EXCEPT !.v = <<r.v>> \o @]))

(* A mutating method finds its array before and after its arguments. *)
Mutate(e, r, was) ==
  IF ~Is("array", was) \/ ~Is("array", Lookup(r.env, e.x)) THEN Got(r.env, Error)
  ELSE LET m == Mutated(e.op, Of(Lookup(r.env, e.x)), r.v) IN Got(Assign(r.env, e.x, Array(m[1])), m[2])

Eval(e, env) ==
  IF e.k = "lit" THEN Got(env, e.v)
  ELSE IF e.k = "var" THEN Got(env, Lookup(env, e.x))
  ELSE Then(EvalAll(e.args, env), LAMBDA r :
         IF e.k = "node" THEN Got(r.env, Apply(e.op, r.v)) ELSE Mutate(e, r, Lookup(env, e.x)))

(* expr_is_side_effect_free: indexing and calls are not. *)
RECURSIVE Pure(_)
Pure(e) == \/ e.k \in {"lit", "var"}
           \/ e.k = "node" /\ e.op \notin {"at", "len"} /\ \A i \in DOMAIN e.args : Pure(e.args[i])

Stored(env, x, v) == IF v = Error THEN Got(env, Error) ELSE Got(Assign(env, x, v), Nil)

(* The array is read before the index is evaluated, and when the index may *)
(* run code that array is written back whole.                              *)
StoreElement(st, env) ==
  Then(EvalAll(<<st.e, Var(st.x), st.i>>, env), LAMBDA r :
    Stored(r.env, st.x, Replaced(IF Pure(st.i) THEN Lookup(r.env, st.x) ELSE r.v[2], r.v[3], r.v[1])))

(* `x += e` and `x -= e` take 0 for an unbound x. *)
StoreName(st, env) ==
  Then(Eval(st.e, env), LAMBDA r :
    Stored(r.env, st.x,
           IF st.op = "=" THEN r.v
           ELSE Binary(st.op, IF Where(r.env, st.x) = {} THEN Num(0) ELSE Lookup(r.env, st.x), r.v)))

ExecAll(b, env) ==
  IF b = <<>> THEN Got(env, Nil)
  ELSE Then(Exec(Head(b), env), LAMBDA r : ExecAll(Tail(b), r.env))

(* A block has a scope of its own. *)
InScope(b, env, names) == [ExecAll(b, Append(env, names)) EXCEPT !.env = Front(@)]

Condition(e, env) ==
  Then(Eval(e, env), LAMBDA r : IF Is("bool", r.v) THEN r ELSE Got(r.env, Error))

Loop(st, env) ==
  Then(Condition(st.e, env), LAMBDA r :
    IF Of(r.v) THEN Then(InScope(st.b, r.env, NoNames), LAMBDA turn : Loop(st, turn.env))
    ELSE Got(r.env, Nil))

(* The counter is the interpreter's own; the variable is bound to it anew  *)
(* in the scope of each turn.                                              *)
Turns(st, env, i, end, by) ==
  IF IF by > 0 THEN i < end ELSE i > end
  THEN Then(InScope(st.b, env, st.x :> Num(i)), LAMBDA r : Turns(st, r.env, i + by, end, by))
  ELSE Got(env, Nil)

(* `for i in 0..n { acc += i }` and `for i in 1..n { acc += i }`. *)
SumsItsVariable(st) ==
  /\ st.by = <<>> /\ Len(st.b) = 1
  /\ st.b[1].k = "set" /\ st.b[1].op = "+" /\ st.b[1].e = Var(st.x)
ArithmeticSum(start, end) ==
  CASE start = 0 /\ end > 0 -> <<(end * (end - 1)) \div 2>>
    [] start = 1 /\ end >= 1 -> <<(end * (end + 1)) \div 2>>
    [] OTHER -> <<>>

Integers(es, env) ==
  Then(EvalAll(es, env), LAMBDA r : IF AllNums(r.v) THEN r ELSE Got(r.env, Error))

Count(st, env) ==
  Then(Integers(<<st.lo, st.hi>> \o st.by, env), LAMBDA r :
    Turns(st, r.env, Of(r.v[1]), Of(r.v[2]), IF st.by = <<>> THEN 1 ELSE Of(r.v[3])))

(* The bounds are evaluated for the formula and, when it does not apply,   *)
(* again for the loop.                                                     *)
Formula(st, env) ==
  Then(Integers(<<st.lo, st.hi>>, env), LAMBDA r :
    LET sum == ArithmeticSum(Of(r.v[1]), Of(r.v[2])) IN
    IF sum = <<>> THEN Count(st, r.env)
    ELSE StoreName(Set(st.b[1].x, "+", Lit(Num(sum[1]))), r.env))

Exec(st, env) ==
  CASE st.k = "let" -> Then(Eval(st.e, env), LAMBDA r : Got(Bind(r.env, Len(env), st.x, r.v), Nil))
    [] st.k = "set" -> StoreName(st, env)
    [] st.k = "put" -> StoreElement(st, env)
    [] st.k = "do" -> Eval(st.e, env)
    [] st.k = "return" -> Then(Eval(st.e, env), LAMBDA r : [r EXCEPT !.sig = "return"])
    [] st.k = "if" -> Then(Condition(st.e, env), LAMBDA r :
                        InScope(IF Of(r.v) THEN st.b ELSE st.c, r.env, NoNames))
    [] st.k = "while" -> Loop(st, env)
    [] st.k = "for" -> IF LoopFormula /\ SumsItsVariable(st) THEN Formula(st, env) ELSE Count(st, env)

(* A call: parameters in the scope of the call, under the scope the `fn`   *)
(* was defined in; a trailing expression statement is the answer.          *)
Frame(f, args, globals) ==
  <<globals, [x \in ToSet(f.params) |-> args[CHOOSE i \in DOMAIN args : f.params[i] = x]]>>
Answered(r) == [ans |-> IF r.sig = "error" THEN Error ELSE r.v, globals |-> r.env[1]]
Run(f, args, globals) ==
  IF f.body # <<>> /\ Last(f.body).k = "do"
  THEN Answered(Then(ExecAll(Front(f.body), Frame(f, args, globals)), LAMBDA r : Eval(Last(f.body).e, r.env)))
  ELSE Answered(ExecAll(f.body, Frame(f, args, globals)))

=============================================================================
