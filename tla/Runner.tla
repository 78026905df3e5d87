------------------------------- MODULE Runner --------------------------------
(* Running a program: which names its parts find, and where `return`, `?` and *)
(* `self` lead.  A value is <<kind, ...>>; numbers are small integers, and an *)
(* operation on anything else gives a symbolic value.  The machine keeps every *)
(* environment ever made, since functions refer to the one they were defined   *)
(* in; how a body is executed (VM, native code) is the subject of other        *)
(* modules, and nothing here changes what it answers.                          *)
EXTENDS Checker

CONSTANTS MaxCalls,        \* calls that may be open at once, 2000 in the code
          NumberOf         \* the value of an integer literal

Machine ==
    [envs |-> <<[up |-> 0, vals |-> <<>>, fns |-> <<>>, mods |-> <<>>]>>, classes |-> <<>>,
     selfs |-> <<>>, calls |-> 0, val |-> <<"nil">>, flow |-> "go", err |-> "",
     read |-> {}, ran |-> <<>>]

Going(m) == m.flow = "go"
Stop(m, e) == IF Going(m) THEN [m EXCEPT !.flow = "error", !.err = e] ELSE m
Give(m, v) == IF Going(m) THEN [m EXCEPT !.val = v] ELSE m
Put(f, k, v) == [x \in DOMAIN f \cup {k} |-> IF x = k THEN v ELSE f[x]]

\* The environments from e outwards, innermost first.
RECURSIVE Chain(_, _)
Chain(m, e) == IF e = 0 THEN <<>> ELSE <<e>> \o Chain(m, m.envs[e].up)
\* The environment that holds a name as a value, a function or a module.
Holder(m, e, n, what) ==
    LET hs == SelectSeq(Chain(m, e), LAMBDA i : n \in DOMAIN m.envs[i][what])
    IN IF hs = <<>> THEN 0 ELSE hs[1]
HasVal(m, e, n) == Holder(m, e, n, "vals")
HasFn(m, e, n) == Holder(m, e, n, "fns")
HasMod(m, e, q) == Holder(m, e, q, "mods")
SetVal(m, e, n, v) == IF Going(m) THEN [m EXCEPT !.envs[e].vals = Put(@, n, v)] ELSE m
SetFn(m, e, n, f) == IF Going(m) THEN [m EXCEPT !.envs[e].fns = Put(@, n, f)] ELSE m
Child(m, e) == [m EXCEPT !.envs = Append(@, [up |-> e, vals |-> <<>>, fns |-> <<>>, mods |-> <<>>])]
\* What is read in the root environment is remembered.
Reading(m, e, n) == IF e = 1 THEN [m EXCEPT !.read = @ \cup {n}] ELSE m
Assign(m, e, n, v) == SetVal(m, IF HasVal(m, e, n) = 0 THEN e ELSE HasVal(m, e, n), n, v)

RECURSIVE BindAll(_, _, _)
BindAll(m, e, pairs) ==
    IF pairs = <<>> THEN m ELSE BindAll(SetVal(m, e, pairs[1][1], pairs[1][2]), e, Tail(pairs))

-----------------------------------------------------------------------------
(* Patterns: the pairs a pattern binds, or "no".                              *)

No == <<<<"no">>>>
Both(a, b) == IF a = No \/ b = No THEN No ELSE a \o b
RECURSIVE MatchPattern(_, _), MatchEach(_, _)
MatchEach(ps, vs) ==
    IF ps = <<>> \/ ps[1].k = "Rest" THEN <<>>
    ELSE Both(MatchPattern(ps[1], vs[1]), MatchEach(Tail(ps), Tail(vs)))
Shape(ps, n) == IF ps # <<>> /\ Last(ps).k = "Rest" THEN n >= Len(ps) - 1 ELSE n = Len(ps)
MatchLiteral(p, v) ==
    CASE p.v[1] \in {"true", "false"} -> v = <<"bool", p.v[1] = "true">>
      [] p.v[1] \in DOMAIN NumberOf -> v = <<"int", NumberOf[p.v[1]]>>
      [] OTHER -> FALSE
Unpacked(p, v) ==
    CASE p.v[1] = "Some" -> v[1] = "some" /\ Len(p.c) = 1
      [] p.v[1] = "None" -> v[1] = "none" /\ Len(p.c) = 0
      [] p.v[1] = "Ok" -> v[1] = "ok" /\ Len(p.c) = 1
      [] p.v[1] = "Err" -> v[1] = "err" /\ Len(p.c) = 1
      [] OTHER -> FALSE
\* A field without a pattern binds its own name.
MatchField(f, v) ==
    IF f.c[1].v[1] \notin DOMAIN v[3] THEN No
    ELSE IF Len(f.c) = 1 THEN <<<<f.c[1].v[1], v[3][f.c[1].v[1]]>>>>
    ELSE MatchPattern(f.c[2], v[3][f.c[1].v[1]])
RECURSIVE MatchFields(_, _), MatchAny(_, _)
MatchFields(fs, v) ==
    IF fs = <<>> \/ fs[1].k = "Rest" THEN <<>> ELSE Both(MatchField(fs[1], v), MatchFields(Tail(fs), v))
MatchAny(ps, v) ==
    IF ps = <<>> THEN No
    ELSE IF MatchPattern(ps[1], v) # No THEN MatchPattern(ps[1], v) ELSE MatchAny(Tail(ps), v)
MatchPattern(p, v) ==
    CASE p.k = "Wildcard" -> <<>>
      [] p.k = "Binding" -> <<<<p.v[1], v>>>>
      [] p.k = "PLiteral" -> IF MatchLiteral(p, v) THEN <<>> ELSE No
      [] p.k = "PTuple" -> IF v[1] = "tuple" /\ Shape(p.c, Len(v[2])) THEN MatchEach(p.c, v[2]) ELSE No
      [] p.k = "PArray" -> IF v[1] = "array" /\ Shape(p.c, Len(v[2])) THEN MatchEach(p.c, v[2]) ELSE No
      [] p.k = "PStruct" -> IF v[1] = "object" /\ v[2] = p.v[1] THEN MatchFields(p.c, v) ELSE No
      [] p.k = "Variant" -> IF Unpacked(p, v) THEN MatchEach(p.c, Tail(v)) ELSE No
      [] p.k = "Or" -> MatchAny(p.c, v)

-----------------------------------------------------------------------------
(* Running.  Run(what, n, e, m) runs the node n in the environment e.         *)

RECURSIVE Run(_, _, _, _)
Eval(n, e, m) == IF Going(m) THEN Run("expr", n, e, m) ELSE m
Exec(n, e, m) == IF Going(m) THEN Run("stmt", n, e, m) ELSE m
Stmts1(ss, e, m) == FoldLeft(LAMBDA r, n : Exec(n, e, r), m, ss)
\* A block has an environment of its own, a child of e.
Block(b, e, m) == IF Going(m) THEN Stmts1(b.c, Len(m.envs) + 1, Child(m, e)) ELSE m
BlockWith(b, pairs, e, m) ==
    IF Going(m) THEN Stmts1(b.c, Len(m.envs) + 1, BindAll(Child(m, e), Len(m.envs) + 1, pairs)) ELSE m

\* The expressions in order; the value is the sequence of theirs.
EvalSeq(ns, e, m) ==
    FoldLeft(LAMBDA r, n : LET q == Eval(n, e, r) IN IF Going(q) THEN [q EXCEPT !.val = Append(r.val, q.val)] ELSE q,
             Give(m, <<>>), ns)

Noted(m, n) == IF Going(m) THEN [m EXCEPT !.ran = Append(@, n)] ELSE m
\* The value of a body: a last expression statement is its value.
Tailed(b, e, m) ==
    IF b.c # <<>> /\ Last(b.c).k = "Expr"
    THEN Eval(Last(b.c).c[1], e, Noted(Stmts1(Front(b.c), e, m), Last(b.c)))
    ELSE Give(Stmts1(b.c, e, m), <<"nil">>)
\* A call ends where its `return` or its `?` ends.
Caught(m) == IF m.flow \in {"return", "propagate"} THEN [m EXCEPT !.flow = "go"] ELSE m

Entered(m, e, ps, args) ==
    BindAll([Child(m, e) EXCEPT !.calls = @ + 1], Len(m.envs) + 1,
            [i \in DOMAIN ps |-> <<ParamName(ps[i]), args[i]>>])
Left(m0, m) == [Caught(m) EXCEPT !.calls = m0.calls, !.selfs = m0.selfs]
Called(f, args, m) ==
    IF Len(args) # Len(f.params) THEN Stop(m, "arguments")
    ELSE IF m.calls >= MaxCalls THEN Stop(m, "too deep")
    ELSE Left(m, LET c == Entered(m, f.env, f.params, args)
                 IN IF f.kind = "math" THEN Eval(f.body, Len(m.envs) + 1, c)
                    ELSE Tailed(f.body, Len(m.envs) + 1, c))
Builtin(name, args, m) ==
    CASE name = "Some" /\ Len(args) = 1 -> Give(m, <<"some", args[1]>>)
      [] name = "None" /\ args = <<>> -> Give(m, <<"none">>)
      [] name = "Ok" /\ Len(args) = 1 -> Give(m, <<"ok", args[1]>>)
      [] name = "Err" /\ Len(args) = 1 -> Give(m, <<"err", <<"string">>>>)
      [] name \in {"print", "println"} -> Give(m, <<"nil">>)
      [] OTHER -> Stop(m, "arguments")
ApplyFunction(f, args, m) ==
    IF ~Going(m) THEN m
    ELSE IF f.kind = "builtin" THEN Builtin(f.name, args, m) ELSE Called(f, args, m)

\* A function by its name, or by its module and name.
ModuleItem(m, e, path) ==
    IF HasMod(m, e, Front(path)) = 0 THEN <<>>
    ELSE LET items == m.envs[HasMod(m, e, Front(path))].mods[Front(path)]
         IN IF Last(path) \in DOMAIN items THEN <<items[Last(path)]>> ELSE <<>>
Builtins == {"Some", "None", "Ok", "Err", "print", "println", "map"}
ResolveFunc(m, e, path) ==
    IF Len(path) > 1
    THEN SelectSeq(ModuleItem(m, e, path), LAMBDA i : i.kind # "value")
    ELSE IF HasFn(m, e, path[1]) # 0 THEN <<m.envs[HasFn(m, e, path[1])].fns[path[1]]>>
    ELSE IF path[1] \in Builtins THEN <<[kind |-> "builtin", name |-> path[1]]>> ELSE <<>>
NoteCall(m, e, path) == IF Len(path) = 1 THEN Reading(m, HasFn(m, e, path[1]), path[1]) ELSE m

LambdaFn(n, e) == [kind |-> "math", params |-> Kids(n, "Param"), body |-> Last(n.c), env |-> e]
\* map takes its function by name or as a lambda, then the array.
MapOver(f, m) ==
    IF ~Going(m) THEN m
    ELSE IF m.val[1] # "array" THEN Stop(m, "not an array")
    ELSE LET r == FoldLeft(LAMBDA q, v : LET a == ApplyFunction(f, <<v>>, q)
                                         IN IF Going(a) THEN [a EXCEPT !.val = Append(q.val, a.val)] ELSE a,
                           Give(m, <<>>), m.val[2])
         IN IF Going(r) THEN Give(r, <<"array", r.val>>) ELSE r
EvalMap(n, e, m) ==
    IF Len(n.c) # 3 THEN Stop(m, "arguments")
    ELSE IF n.c[2].k = "Lambda" THEN MapOver(LambdaFn(n.c[2], e), Eval(n.c[3], e, m))
    ELSE IF n.c[2].k # "Path" \/ Len(n.c[2].v) # 1 THEN Stop(m, "not a function")
    ELSE IF ResolveFunc(m, e, n.c[2].v) = <<>> THEN Stop(m, "no such function")
    ELSE MapOver(ResolveFunc(m, e, n.c[2].v)[1], Eval(n.c[3], e, NoteCall(m, e, n.c[2].v)))

\* T::f(args): an associated function of a class.
Associated(n, e, m, class) ==
    LET f == Last(n.c[1].v)
        a == EvalSeq(Tail(n.c), e, m)
    IN IF ~Going(a) THEN a
       ELSE IF f \notin DOMAIN class.methods THEN Stop(a, "unknown method")
       ELSE IF \E q \in ToSet(class.methods[f].params) : Self1(q) THEN Stop(a, "a method")
       ELSE ApplyFunction(class.methods[f], a.val, a)
\* Why a name or a path is nothing: the name, the item of a module, the module.
NotFound(m, e, path) ==
    IF Len(path) = 1 THEN "unknown function"
    ELSE IF HasMod(m, e, Front(path)) = 0 THEN "unknown path" ELSE "no item"
EvalCall(n, e, m) ==
    IF n.c[1].k # "Path" THEN Stop(EvalSeq(Tail(n.c), e, m), "invalid call")
    ELSE IF n.c[1].v = <<"map">> /\ HasFn(m, e, "map") = 0 THEN EvalMap(n, e, m)
    ELSE IF Len(n.c[1].v) = 2 /\ n.c[1].v[1] \in DOMAIN m.classes
    THEN Associated(n, e, m, m.classes[n.c[1].v[1]])
    ELSE LET a == EvalSeq(Tail(n.c), e, m)
         IN IF ~Going(a) THEN a
            ELSE IF ResolveFunc(a, e, n.c[1].v) = <<>> THEN Stop(a, NotFound(a, e, n.c[1].v))
            ELSE ApplyFunction(ResolveFunc(a, e, n.c[1].v)[1], a.val, NoteCall(a, e, n.c[1].v))

\* A method runs with its receiver as `self`.
MethodOn(n, m, a) ==
    IF ~Going(a) THEN a
    ELSE IF m.val[1] # "object" THEN Stop(a, "unknown method")
    ELSE LET ms == a.classes[m.val[2]].methods
             f == ms[n.c[2].v[1]]
         IN IF n.c[2].v[1] \notin DOMAIN ms THEN Stop(a, "unknown method")
            ELSE IF f.params = <<>> \/ ~Self1(f.params[1]) THEN Stop(a, "associated")
            ELSE Left(a, Called([f EXCEPT !.params = Tail(@)], a.val, [a EXCEPT !.selfs = Append(@, m.val)]))
EvalMethodCall(n, e, m) == MethodOn(n, m, EvalSeq(SubSeq(n.c, 3, Len(n.c)), e, m))
EvalField(n, m) ==
    IF ~Going(m) THEN m
    ELSE IF m.val[1] # "object" \/ n.c[2].v[1] \notin DOMAIN m.val[3] THEN Stop(m, "no field")
    ELSE Give(m, m.val[3][n.c[2].v[1]])

\* T { f: e, g, ..base }
FieldGiven(f, e, m) ==
    IF Len(f.c) = 2 THEN Eval(f.c[2], e, m)
    ELSE IF HasVal(m, e, f.c[1].v[1]) = 0 THEN Stop(m, "no value")
    ELSE Give(Reading(m, HasVal(m, e, f.c[1].v[1]), f.c[1].v[1]),
              m.envs[HasVal(m, e, f.c[1].v[1])].vals[f.c[1].v[1]])
WithField(class, e, r, f) ==
    IF f.k # "FieldValue" \/ ~Going(r) THEN r
    ELSE IF f.c[1].v[1] \notin class.fields THEN Stop(r, "E0060")
    ELSE LET q == FieldGiven(f, e, r)
         IN IF Going(q) THEN [q EXCEPT !.val = Put(r.val, f.c[1].v[1], q.val)] ELSE q
Based(bs, name, e, m) ==
    IF bs = <<>> \/ ~Going(m) THEN m
    ELSE LET b == Eval(bs[1].c[1], e, m)
         IN IF ~Going(b) THEN b
            ELSE IF b.val[1] # "object" \/ b.val[2] # name THEN Stop(b, "base")
            ELSE [b EXCEPT !.val = [x \in DOMAIN b.val[3] \cup DOMAIN m.val |->
                                      IF x \in DOMAIN m.val THEN m.val[x] ELSE b.val[3][x]]]
Built(m, name, class) ==
    IF ~Going(m) THEN m
    ELSE IF class.fields \subseteq DOMAIN m.val THEN Give(m, <<"object", name, m.val>>) ELSE Stop(m, "E0061")
StructValue(n, e, m) ==
    LET name == n.c[1].v[1]
    IN IF name \notin DOMAIN m.classes THEN Stop(m, "unknown class")
       ELSE Built(Based(Kids(n, "Base"), name, e,
                        FoldLeft(LAMBDA r, f : WithField(m.classes[name], e, r, f), Give(m, <<>>), Tail(n.c))),
                  name, m.classes[name])

Symbolic == <<"expr">>
Operate(op, a, b) ==
    IF a[1] = "int" /\ b[1] = "int"
    THEN CASE op = "+" -> <<"int", a[2] + b[2]>> [] op = "-" -> <<"int", a[2] - b[2]>>
           [] op = "<" -> <<"bool", a[2] < b[2]>> [] op = "==" -> <<"bool", a[2] = b[2]>>
           [] OTHER -> Symbolic
    ELSE Symbolic
EvalBinary(n, m) == IF Going(m) THEN Give(m, Operate(n.v[1], m.val[1], m.val[2])) ELSE m

\* `?` unpacks, or ends the call with the value it could not unpack.
EvalTry(m) ==
    IF ~Going(m) THEN m
    ELSE CASE m.val[1] \in {"ok", "some"} -> Give(m, m.val[2])
           [] m.val[1] \in {"err", "none"} -> [m EXCEPT !.flow = "propagate"]
           [] OTHER -> Stop(m, "not a Result")

\* Clauses from outside in; the outputs are gathered in order.
RECURSIVE RunClauses(_, _, _, _)
Iterated(n, cs, e, items, m) ==
    FoldLeft(LAMBDA r, v : IF ~Going(r) THEN r
                           ELSE RunClauses(n, Tail(cs), Len(r.envs) + 1,
                                    SetVal(Child(r, e), Len(r.envs) + 1, cs[1].c[1].v[1], v)),
             m, items)
Filtered(n, cs, e, out, m) ==
    IF ~Going(m) THEN m
    ELSE IF m.val[1] # "bool" THEN Stop(m, "not a bool")
    ELSE IF m.val[2] THEN RunClauses(n, Tail(cs), e, [m EXCEPT !.val = out]) ELSE [m EXCEPT !.val = out]
Overs(n, cs, e, out, m) ==
    IF ~Going(m) THEN m
    ELSE IF m.val[1] \in {"array", "tuple"} THEN Iterated(n, cs, e, m.val[2], [m EXCEPT !.val = out])
    ELSE Stop(m, "not iterable")
RunClauses(n, cs, e, m) ==
    IF cs = <<>>
    THEN LET q == Eval(n.c[1], e, m) IN IF Going(q) THEN [q EXCEPT !.val = Append(m.val, q.val)] ELSE q
    ELSE IF cs[1].k = "For" THEN Overs(n, cs, e, m.val, Eval(cs[1].c[2], e, m))
    ELSE Filtered(n, cs, e, m.val, Eval(cs[1].c[1], e, m))
EvalComprehension(n, e, m) ==
    LET r == RunClauses(n, Tail(n.c), e, Give(m, <<>>))
    IN IF Going(r) THEN Give(r, <<n.v[1], r.val>>) ELSE r

\* The first arm whose pattern matches and whose guard holds.
RECURSIVE Arms1(_, _, _, _)
Guarded(as, v, e, m) ==
    IF ~Going(m) THEN m
    ELSE IF m.val[1] # "bool" THEN Stop(m, "not a bool")
    ELSE IF m.val[2] THEN Eval(Last(as[1].c), e, m) ELSE Arms1(Tail(as), v, m.envs[e].up, m)
Bound1(as, v, e, m) ==
    IF as[1].c[2].k = "Guard" THEN Guarded(as, v, e, Eval(as[1].c[2].c[1], e, m))
    ELSE Eval(Last(as[1].c), e, m)
Arms1(as, v, e, m) ==
    IF as = <<>> THEN Stop(m, "no arm")
    ELSE LET b == MatchPattern(as[1].c[1], v)
         IN IF b = No THEN Arms1(Tail(as), v, e, m)
            ELSE Bound1(as, v, Len(m.envs) + 1, BindAll(Child(m, e), Len(m.envs) + 1, b))
EvalMatch(n, e, m) == IF Going(m) THEN Arms1(Tail(n.c), m.val, e, m) ELSE m

EvalPath(n, e, m) ==
    IF Len(n.v) > 1
    THEN LET i == ModuleItem(m, e, n.v)
         IN IF i = <<>> THEN Stop(m, NotFound(m, e, n.v))
            ELSE IF i[1].kind = "value" THEN Give(m, i[1].val) ELSE Stop(m, "a function")
    ELSE LET h == HasVal(m, e, n.v[1])
         IN IF h # 0 THEN Give(Reading(m, h, n.v[1]), m.envs[h].vals[n.v[1]])
            ELSE IF ResolveFunc(m, e, n.v) # <<>> THEN Stop(m, "a function")
            ELSE Give(m, <<"symbol", n.v[1]>>)

RunExpr(n, e, m) ==
    CASE n.k = "Literal" -> Give(m, IF n.v[1] \in {"true", "false"} THEN <<"bool", n.v[1] = "true">>
                                    ELSE IF n.v[1] \in DOMAIN NumberOf THEN <<"int", NumberOf[n.v[1]]>>
                                    ELSE <<"string">>)
      [] n.k = "Symbol" -> Give(m, <<"symbol", n.v[1]>>)
      [] n.k = "Path" -> EvalPath(n, e, m)
      [] n.k = "Self" -> IF m.selfs = <<>> THEN Stop(m, "self outside") ELSE Give(m, Last(m.selfs))
      [] n.k = "Call" -> EvalCall(n, e, m)
      [] n.k = "MethodCall" -> EvalMethodCall(n, e, Eval(n.c[1], e, m))
      [] n.k = "Field" -> EvalField(n, Eval(n.c[1], e, m))
      [] n.k = "StructLiteral" -> StructValue(n, e, m)
      [] n.k = "Binary" -> EvalBinary(n, EvalSeq(n.c, e, m))
      [] n.k = "Unary" -> Give(Eval(n.c[1], e, m), Symbolic)
      [] n.k = "Try" -> EvalTry(Eval(n.c[1], e, m))
      [] n.k \in {"Array", "Tuple"} ->
            LET q == EvalSeq(n.c, e, m)
            IN IF Going(q) THEN Give(q, <<IF n.k = "Array" THEN "array" ELSE "tuple", q.val>>) ELSE q
      [] n.k = "FString" -> Give(EvalSeq(SelectSeq(n.c, LAMBDA c : c.k = "Interp"), e, m), <<"string">>)
      [] n.k = "Interp" -> Eval(n.c[1], e, m)
      [] n.k = "Comprehension" -> EvalComprehension(n, e, m)
      [] n.k = "Lambda" -> Stop(m, "a lambda")
      [] n.k = "Match" -> EvalMatch(n, e, Eval(n.c[1], e, m))
      [] OTHER -> Stop(m, "not modelled")

-----------------------------------------------------------------------------
(* Statements.                                                                *)

Destructure(p, e, m) ==
    IF ~Going(m) THEN m
    ELSE IF MatchPattern(p, m.val) = No THEN Stop(m, "refutable pattern")
    ELSE BindAll(m, e, MatchPattern(p, m.val))
RunLet(n, e, m) ==
    IF n.c[1].k = "Binding" /\ Last(n.c).k = "Lambda"
    THEN SetFn(m, e, n.c[1].v[1], LambdaFn(Last(n.c), e))
    ELSE Destructure(n.c[1], e, Eval(Last(n.c), e, m))

MethodFn(f, e) == [kind |-> "host", params |-> Kid(f, "Params").c, env |-> e,
                   body |-> IF Kids(f, "Block") = <<>> THEN Node("Block", <<>>, <<>>) ELSE Kid(f, "Block")]
ClassOf(n, e) ==
    LET ms == {Docless(c) : c \in {c \in ToSet(n.c) : Docless(c).k = "Method"}}
    IN [fields |-> {Docless(c).v[2] : c \in {c \in ToSet(n.c) : Docless(c).k = "FieldDecl"}},
        methods |-> [q \in {f.v[2] : f \in ms} |-> MethodFn(CHOOSE f \in ms : f.v[2] = q, e)]]
FnOf(n, e) ==
    IF n.k = "MathDef"
    THEN [kind |-> "math", params |-> Kid(n, "Params").c, body |-> n.c[3], env |-> e]
    ELSE [kind |-> "host", params |-> Kid(n, "Params").c, body |-> Kid(n, "Block"), env |-> e]
\* A signature of a builtin is bound to it.
RunFn(n, e, m) ==
    IF <<"builtin">> \notin AnnsOn(n) THEN SetFn(m, e, Last(n.v), FnOf(n, e))
    ELSE IF Last(n.v) \in Registered THEN SetFn(m, e, Last(n.v), [kind |-> "builtin", name |-> Last(n.v)])
    ELSE Stop(m, "E0055")

RECURSIVE Branches(_, _, _)
\* A condition, its block, and what follows: another pair, a block or nothing.
Chosen(cs, e, m) ==
    IF ~Going(m) THEN m
    ELSE IF m.val[1] # "bool" THEN Stop(m, "not a bool")
    ELSE IF m.val[2] THEN Block(cs[2], e, m) ELSE Branches(SubSeq(cs, 3, Len(cs)), e, m)
Branches(cs, e, m) ==
    IF cs = <<>> THEN m
    ELSE IF Len(cs) = 1 THEN Block(cs[1], e, m) ELSE Chosen(cs, e, Eval(cs[1], e, m))
RunIfLet(n, e, m) ==
    IF ~Going(m) THEN m
    ELSE LET b == MatchPattern(n.c[1], m.val)
         IN IF b # No THEN BlockWith(n.c[3], b, e, m)
            ELSE IF Len(n.c) = 4 THEN Block(n.c[4], e, m) ELSE m
RECURSIVE WhileLetAgain(_, _, _), WhileAgain(_, _, _), Counting(_, _, _, _, _)
WhileLetAgain(n, e, m) ==
    IF ~Going(m) \/ MatchPattern(n.c[1], m.val) = No THEN m
    ELSE WhileLetAgain(n, e, Eval(n.c[2], e, BlockWith(n.c[3], MatchPattern(n.c[1], m.val), e, m)))
WhileAgain(n, e, m) ==
    IF ~Going(m) THEN m
    ELSE IF m.val[1] # "bool" THEN Stop(m, "not a bool")
    ELSE IF m.val[2] THEN WhileAgain(n, e, Eval(n.c[1], e, Block(n.c[2], e, m))) ELSE m
Counting(n, i, to, e, m) ==
    IF ~Going(m) \/ i >= to THEN m
    ELSE Counting(n, i + 1, to, e, BlockWith(Last(n.c), <<<<n.c[1].v[1], <<"int", i>>>>>>, e, m))
RunFor(n, e, m) ==
    IF ~Going(m) THEN m
    ELSE IF m.val[1][1] # "int" \/ m.val[2][1] # "int" THEN Stop(m, "not an integer")
    ELSE Counting(n, m.val[1][2], m.val[2][2], e, m)

RunStmt(n, e, m) ==
    CASE n.k = "Let" -> RunLet(n, e, m)
      [] n.k = "Const" -> LET q == Eval(n.c[3], e, m) IN SetVal(q, e, n.c[1].v[1], q.val)
      [] n.k = "MathDef" -> SetFn(m, e, n.v[1], FnOf(n, e))
      [] n.k = "FnDef" -> RunFn(n, e, m)
      [] n.k = "ClassDef" -> [m EXCEPT !.classes = Put(@, n.v[1], ClassOf(n, e))]
      [] n.k = "Impl" -> m
      [] n.k = "Expr" -> Eval(n.c[1], e, m)
      [] n.k = "Assign" -> LET q == Eval(n.c[2], e, m) IN Assign(q, e, n.c[1].v[1], q.val)
      [] n.k = "If" -> Branches(n.c, e, m)
      [] n.k = "IfLet" -> RunIfLet(n, e, Eval(n.c[2], e, m))
      [] n.k = "While" -> WhileAgain(n, e, Eval(n.c[1], e, m))
      [] n.k = "WhileLet" -> WhileLetAgain(n, e, Eval(n.c[2], e, m))
      [] n.k = "For" -> RunFor(n, e, EvalSeq(SubSeq(n.c, 2, 3), e, m))
      [] n.k = "Match" -> EvalMatch(n, e, Eval(n.c[1], e, m))
      [] n.k = "Return" ->
            LET q == IF n.c = <<>> THEN Give(m, <<"nil">>) ELSE Eval(n.c[1], e, m)
            IN IF Going(q) THEN [q EXCEPT !.flow = "return"] ELSE q
      [] n.k = "WithConfig" ->
            IF \E c \in ToSet(n.c[1].c) : c.c[1].v[1] \notin KnownKeys THEN Stop(m, "unknown policy")
            ELSE Block(n.c[2], e, m)
      [] n.k \in {"Pub", "Doc"} -> Exec(n.c[1], e, m)
      [] OTHER -> Stop(m, "not modelled")

Run(what, n, e, m) ==
    IF what = "expr" THEN RunExpr(n, e, m) ELSE RunStmt(n, e, Noted(m, n))

-----------------------------------------------------------------------------
(* Programs: imports are bound, then the statements run in order.             *)

\* The public items of a module, which runs in an environment of its own.
PubItems(p, e, m) ==
    LET pubs == {Item1(n) : n \in {n \in ToSet(p) : IsPub(n)}}
        names == UNION {IF n.k \in {"FnDef", "MathDef"} THEN {Last(n.v)}
                        ELSE IF n.k = "Let" THEN {n.c[1].v[1]} ELSE {} : n \in pubs}
    IN [q \in names |-> IF q \in DOMAIN m.envs[e].fns THEN m.envs[e].fns[q]
                        ELSE [kind |-> "value", val |-> m.envs[e].vals[q]]]
BindItem(m, n, i) == IF i.kind = "value" THEN SetVal(m, 1, n, i.val) ELSE SetFn(m, 1, n, i)
BindFrom(m, it, items) ==
    IF ~Going(m) THEN m
    ELSE IF it.k = "Star" THEN FoldLeft(LAMBDA r, n : BindItem(r, n, items[n]), m, SetToSeq(DOMAIN items))
    ELSE IF it.c[1].v[1] \notin DOMAIN items THEN Stop(m, "no item")
    ELSE BindItem(m, Last(it.c).v[1], items[it.c[1].v[1]])
BindItems(n, items, q) ==
    IF n.k = "Import"
    THEN [q EXCEPT !.envs[1].mods = Put(@, IF Len(n.c) = 2 THEN n.c[2].v ELSE n.c[1].v, items)]
    ELSE FoldLeft(LAMBDA r, it : BindFrom(r, it, items), q, Tail(n.c))
Loaded(n, e, q) == IF Going(q) THEN BindItems(n, PubItems(Modules[n.c[1].v], e, q), q) ELSE q
BindImport(m, n) ==
    IF ~Going(m) THEN m
    ELSE IF n.c[1].v \notin DOMAIN Modules THEN Stop(m, "no module")
    ELSE Loaded(n, Len(m.envs) + 1, Stmts1(Modules[n.c[1].v], Len(m.envs) + 1, Child(m, 0)))

\* A `return` or a `?` that no call ends stops the program with an error.
Ended(r) ==
    CASE r.flow = "return" -> Stop([r EXCEPT !.flow = "go"], "return outside")
      [] r.flow = "propagate" -> Stop([r EXCEPT !.flow = "go"], "propagated")
      [] OTHER -> r
RunProgram(p) == Ended(Stmts1(Statements(p), 1, FoldLeft(BindImport, Machine, Imports(p))))
=============================================================================
