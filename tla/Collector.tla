------------------------------ MODULE Collector ------------------------------
(* The rest of `prima check`: inferred types, call signatures, `?`,           *)
(* annotations, imports, policies and unreachable statements; and the report. *)
EXTENDS Checker

-----------------------------------------------------------------------------
(* Types.  A type name is the sequence of its constructors from outside in;   *)
(* <<"unknown">> is what cannot be told before running.                       *)

RECURSIVE TypeName(_)
TypeName(t) ==
    IF t.v[1] = "Value" THEN <<"unknown">>
    ELSE IF t.v[1] \in {"Array", "Matrix"} THEN t.v \o TypeName(t.c[1])
    ELSE <<t.v[1]>>

RECURSIVE Refutable(_)
Refutable(p) ==
    CASE p.k \in {"Wildcard", "Binding", "Rest", "Name"} -> FALSE
      [] p.k \in {"PTuple", "PArray", "PStruct", "PField", "Or"} ->
            \E c \in ToSet(p.c) : Refutable(c)
      [] OTHER -> TRUE

\* The signatures a program may call: [key, params, ret] in the order harvested.
Harvest(p, key) ==
    LET fns == SelectSeq(p, LAMBDA n : IsPub(n) /\ Item1(n).k = "FnDef")
        TypeOfParam(q) == IF Len(q.c) = 2 THEN q.c[2] ELSE Node("Type", <<"Value">>, <<>>)
    IN [i \in DOMAIN fns |->
          [key |-> Append(key, Last(Item1(fns[i]).v)),
           params |-> [j \in DOMAIN Kid(Item1(fns[i]), "Params").c |->
                         TypeOfParam(Kid(Item1(fns[i]), "Params").c[j])],
           ret |-> Kid(Item1(fns[i]), "Ret").c]]
ImportSigs(n) ==
    LET path == n.c[1].v
        sigs == Harvest(Modules[path], path)
        as == [i \in DOMAIN sigs |->
                 IF n.k = "Import"
                 THEN IF Len(n.c) = 2 THEN {<<n.c[2].v[1], Last(sigs[i].key)>>} ELSE {}
                 ELSE {<<Last(it.c).v[1]>> : it \in {it \in ToSet(Tail(n.c)) :
                          it.k = "ImportItem" /\ it.c[1].v[1] = Last(sigs[i].key)}}]
    IN IF path \notin Embedded THEN <<>>
       ELSE sigs \o FlattenSeq([i \in DOMAIN sigs |->
                       [j \in 1..Cardinality(as[i]) |-> [sigs[i] EXCEPT !.key = SetToSeq(as[i])[j]]]])
SignatureTable(p) == FlattenSeq([i \in DOMAIN Imports(p) |-> ImportSigs(Imports(p)[i])])
Candidates(sigs, path) == SelectSeq(sigs, LAMBDA s : s.key = path)

Collapses == [to_f64 |-> "F64", to_bigint |-> "Integer", to_rational |-> "Rational",
              print |-> "Nil", println |-> "Nil", get |-> "Option", Some |-> "Option",
              None |-> "Option", Ok |-> "Result", Err |-> "Result",
              try_i32 |-> "Result", checked_add |-> "Result"]
CombineNumeric(l, r) ==
    IF <<"Expr">> \in {l, r} THEN <<"Expr">>
    ELSE IF <<"F64">> \in {l, r} THEN <<"F64">>
    ELSE IF <<"Rational">> \in {l, r} THEN <<"Rational">> ELSE <<"Integer">>
Divide(l, r) == IF {l, r} \subseteq {<<"Integer">>, <<"Rational">>} THEN <<"Rational">> ELSE <<"F64">>
LiteralType(l) ==
    IF l \in {"true", "false"} THEN <<"Bool">> ELSE IF l \in Strings THEN <<"String">>
    ELSE IF l \in Floats THEN <<"F64">> ELSE <<"Integer">>
CallType(n, sigs) ==
    IF n.c[1].k # "Path" THEN <<"unknown">>
    ELSE LET cs == Candidates(sigs, n.c[1].v)
         IN IF cs # <<>> THEN IF cs[1].ret = <<>> THEN <<"unit">> ELSE TypeName(cs[1].ret[1])
            ELSE IF Len(n.c[1].v) > 1 THEN <<"unknown">>
            ELSE IF n.c[1].v[1] \in DOMAIN Collapses THEN <<Collapses[n.c[1].v[1]]>> ELSE <<"Expr">>
ArrayType(ts) ==
    IF Cardinality(ts) = 1 /\ <<"unknown">> \notin ts THEN <<"Array">> \o (CHOOSE t \in ts : TRUE)
    ELSE <<"array">>

RECURSIVE Infer(_, _)
Infer(n, sigs) ==
    CASE n.k = "Literal" -> LiteralType(n.v[1])
      [] n.k = "FString" -> <<"String">>
      [] n.k = "Symbol" -> <<"Expr">>
      [] n.k = "Call" -> CallType(n, sigs)
      [] n.k = "Unary" -> IF n.v[1] = "!" THEN <<"Bool">> ELSE Infer(n.c[1], sigs)
      [] n.k = "Try" -> Infer(n.c[1], sigs)
      [] n.k = "Binary" /\ n.v[1] \in {"+", "-", "*"} ->
            CombineNumeric(Infer(n.c[1], sigs), Infer(n.c[2], sigs))
      [] n.k = "Binary" /\ n.v[1] = "/" -> Divide(Infer(n.c[1], sigs), Infer(n.c[2], sigs))
      [] n.k = "Binary" -> <<"Expr">>
      [] n.k = "Array" -> ArrayType({Infer(c, sigs) : c \in ToSet(n.c)})
      [] n.k = "Tuple" -> <<"tuple">>
      [] n.k = "Comprehension" -> <<IF n.v[1] = "array" THEN "Array" ELSE n.v[1]>>
      [] n.k = "Lambda" -> <<"Fn">>
      [] OTHER -> <<"unknown">>

\* What the annotation of a `let` or a `const` accepts.
AnnotAccepts(t, inf) ==
    CASE t.v[1] = "Integer" -> inf[1] \in {"Integer", "Rational", "Complex"}
      [] t.v[1] = "Rational" -> inf[1] \in {"Integer", "Rational"}
      [] t.v[1] = "F64" -> inf[1] \in {"Integer", "Rational", "F64", "F32"}
      [] t.v[1] = "Number" -> inf[1] \in {"Integer", "Rational", "F64", "F32", "Complex"}
      [] t.v[1] \in {"Bool", "String"} -> inf[1] = t.v[1]
      [] t.v[1] = "Array" -> inf[1] \in {"Array", "array"}
      [] t.v[1] = "Tuple" -> inf[1] \in {"Tuple", "tuple"}
      [] t.v[1] \in {"Option", "Result"} -> inf[1] = t.v[1]
      [] OTHER -> TRUE

\* What a parameter of an embedded function accepts.
RECURSIVE Assignable(_, _)
Assignable(t, got) ==
    IF got[1] \in {"unknown", "Expr"} THEN TRUE
    ELSE CASE t.v[1] \in {"Value", "Any"} -> TRUE
           [] t.v[1] = "Number" -> got[1] \in {"Integer", "Rational", "F64", "F32", "Complex"}
           [] t.v[1] = "F64" -> got[1] \in {"Integer", "Rational", "F64", "F32"}
           [] t.v[1] = "Rational" -> got[1] \in {"Integer", "Rational"}
           [] t.v[1] = "Array" -> got[1] = "array" \/ (got[1] = "Array" /\ Len(got) > 1
                                                       /\ Assignable(t.c[1], Tail(got)))
           [] t.v[1] = "Matrix" -> /\ Len(got) > 1
                                   /\ got[1] = "Matrix" \/ (got[1] = "Array" /\ got[2] = "Array" /\ Len(got) > 2)
                                   /\ Assignable(t.c[1], IF got[1] = "Matrix" THEN Tail(got) ELSE Tail(Tail(got)))
           [] t.v[1] = "Tuple" -> got[1] \in {"Tuple", "tuple"}
           [] OTHER -> got[1] = t.v[1]

\* Trailing arguments may be missing; any overload will do.
Accepts(s, args, sigs) ==
    /\ Len(args) <= Len(s.params)
    /\ \A i \in DOMAIN args : Assignable(s.params[i], Infer(args[i], sigs))
CallSignature(n, sigs) ==
    LET cs == IF n.c[1].k = "Path" THEN Candidates(sigs, n.c[1].v) ELSE <<>>
    IN IF cs = <<>> \/ \E s \in ToSet(cs) : Accepts(s, Tail(n.c), sigs) THEN {}
       ELSE {<<"E0050", Last(n.c[1].v)>>}

-----------------------------------------------------------------------------
(* The walk over statements and expressions: is `?` allowed here?             *)

Levels(n) == {IF Len(a) = 1 THEN 0 ELSE 1 : a \in {a \in AnnsOn(n) : a[1] = "builtin"}}
CTypes == {"int", "double", "char"}
CType(t) == Len(t.v) = 2 /\ t.v[1] = "c_api" /\ t.v[2] \in CTypes
\* @builtin alone is a signature of a registered builtin; @builtin(ON) has a
\* body; an exported C function is public and has C types.
AnnotationErrors(n, pub) ==
    LET name == Last(n.v)
        body == Last(Kids(n, "Block")).c # <<>>
    IN (IF Levels(n) = {} THEN {}
        ELSE IF Max(Levels(n)) = 0
        THEN IF body THEN {<<"E0056", name>>} ELSE IF name \notin Registered THEN {<<"E0055", name>>} ELSE {}
        ELSE IF body THEN {} ELSE {<<"E0056", name>>})
       \cup (IF <<"c_api">> \notin AnnsOn(n) THEN {}
             ELSE (IF pub THEN {} ELSE {<<"E0072", name>>})
                  \cup (IF /\ \A q \in ToSet(Kid(n, "Params").c) : Len(q.c) = 2 /\ CType(q.c[2])
                           /\ \A t \in ToSet(Kid(n, "Ret").c) : CType(t)
                        THEN {} ELSE {<<"E0071", name>>}))
MissingTypeAnn(n, name) ==
    IF AnnsOn(n) \cap {<<"builtin">>, <<"builtin", "O1">>, <<"c_api">>} = {} THEN {}
    ELSE (IF \E q \in ToSet(Kid(n, "Params").c) : ~Self1(q) /\ Len(q.c) = 1 THEN {<<"E0051", name>>} ELSE {})
         \cup (IF <<"c_api">> \in AnnsOn(n) /\ Kid(n, "Ret").c = <<>> THEN {<<"E0051", name>>} ELSE {})
OpOverload(n) ==
    LET ps(m) == Kid(m, "Params").c
        selfs(m) == {i \in DOMAIN ps(m) : Self1(ps(m)[i])}
    IN UNION {(IF selfs(m) # {} /\ Min(selfs(m)) # 1 THEN {<<"E0063", "self">>} ELSE {})
              \cup (IF selfs(m) = {} \/ Len(ps(m)) # (IF n.v[1] = "Neg" THEN 1 ELSE 2)
                    THEN {<<"E0081", m.v[1]>>} ELSE {}) : m \in ToSet(n.c)}

Annotated1(n, value, sigs) ==
    IF Kid(n, "Ret").c = <<>> \/ AnnotAccepts(Kid(n, "Ret").c[1], Infer(value, sigs)) THEN {}
    ELSE {<<"E0050", "let">>}
ConstTyped(n, sigs) == IF AnnotAccepts(n.c[2], Infer(n.c[3], sigs)) THEN {} ELSE {<<"E0050", "const">>}
ReturnsResult(n) == Kid(n, "Ret").c # <<>> /\ Kid(n, "Ret").c[1].v[1] \in {"Result", "Option"}

RECURSIVE Collect(_, _, _, _)
\* try: `?` is allowed; pub: the statement is published.
CollectAll(ns, try, sigs) == UNION {Collect(c, try, FALSE, sigs) : c \in ToSet(ns)}
\* Mutant: the expressions written in a string are not looked at.
CollectNoFString(n, try, sigs) ==
    IF n.k = "FString" THEN {} ELSE CollectAll(n.c, try, sigs)
CollectKids(n, try, sigs) == CollectAll(n.c, try, sigs)
Collect(n, try, pub, sigs) ==
    CASE n.k = "Try" -> (IF try THEN {} ELSE {<<"E0054", "?">>}) \cup CollectAll(n.c, try, sigs)
      [] n.k = "Call" -> CallSignature(n, sigs) \cup CollectAll(n.c, try, sigs)
      [] n.k = "Let" -> (IF Refutable(n.c[1]) THEN {<<"E0053", "let">>} ELSE {})
                        \cup Annotated1(n, Last(n.c), sigs) \cup Collect(Last(n.c), try, FALSE, sigs)
      [] n.k = "Const" -> ConstTyped(n, sigs) \cup Collect(n.c[3], try, FALSE, sigs)
      [] n.k = "FnDef" -> AnnotationErrors(n, pub) \cup MissingTypeAnn(n, Last(n.v))
                          \cup CollectAll(Kids(n, "Block"), ReturnsResult(n), sigs)
      [] n.k = "MathDef" -> MissingTypeAnn(n, n.v[1]) \cup Collect(n.c[3], FALSE, FALSE, sigs)
      [] n.k = "ClassDef" -> (IF \E a \in AnnsOn(n) : a[1] = "builtin" THEN {<<"E0055", n.v[1]>>} ELSE {})
                             \cup UNION {Collect(Docless(m), FALSE, FALSE, sigs) : m \in ToSet(n.c)}
      [] n.k = "Method" -> MissingTypeAnn(n, n.v[2])
                           \cup CollectAll(Kids(n, "Block"), ReturnsResult(n), sigs)
      [] n.k = "Impl" -> OpOverload(n) \cup CollectAll(n.c, try, sigs)
      [] n.k = "Pub" -> Collect(n.c[1], try, TRUE, sigs)
      [] n.k = "Doc" -> Collect(n.c[1], try, pub, sigs)
      [] n.k \in {"Anns", "Name", "Path", "Literal", "Type"} -> {}
      [] OTHER -> CollectKids(n, try, sigs)

-----------------------------------------------------------------------------
(* Imports, policies, unreachable statements, and the whole report.           *)

ItemNames(n) ==
    CASE n.k = "Let" -> PatternNames(n.c[1])
      [] n.k = "Const" -> {n.c[1].v[1]}
      [] n.k \in {"FnDef", "MathDef", "ClassDef"} -> {Last(n.v)}
      [] OTHER -> {}
Exports(p) ==
    [public |-> UNION {ItemNames(Item1(n)) : n \in {n \in ToSet(p) : IsPub(n)}},
     all |-> UNION {ItemNames(Item1(n)) : n \in ToSet(p)}]
ImportErrors(n) ==
    IF n.c[1].v \notin DOMAIN Modules THEN {<<"E0030", n.c[1].v[1]>>}
    ELSE LET e == Exports(Modules[n.c[1].v])
         IN {<<IF it.c[1].v[1] \in e.all THEN "E0032" ELSE "E0040", it.c[1].v[1]>> :
               it \in {it \in ToSet(Tail(n.c)) : it.k = "ImportItem" /\ it.c[1].v[1] \notin e.public}}
\* The modules a program may name, by path or by alias.
ModuleMap(p) ==
    LET ns == SelectSeq(Imports(p), LAMBDA n : n.k = "Import" /\ n.c[1].v \in DOMAIN Modules)
        Prefix(n) == IF Len(n.c) = 2 THEN n.c[2].v ELSE n.c[1].v
    IN [q \in {Prefix(n) : n \in ToSet(ns)} |->
          Exports(Modules[Last(SelectSeq(ns, LAMBDA n : Prefix(n) = q)).c[1].v])]

\* Every policy set anywhere in the program is a known one.
RECURSIVE Policies(_)
Policies(n) ==
    UNION {Policies(c) : c \in ToSet(n.c)}
    \cup {<<"E0022", e.c[1].v[1]>> :
            e \in {e \in ToSet(n.c) : e.k = "ConfigEntry" /\ e.c[1].v[1] \notin KnownKeys}}

RECURSIVE Unreachable(_)
\* Mutant: a branch that returns ends its block.
ReturnsInside(n) == n.k = "Return" \/ (n.k = "If" /\ n.c[2].c # <<>> /\ Last(n.c[2].c).k = "Return")
Returns(n) == n.k = "Return"
\* The first statement behind a `return` of each list of statements.
Behind(ss) ==
    LET r == SelectInSeq(ss, Returns)
    IN IF r = 0 \/ r = Len(ss) THEN UNION {Unreachable(c) : c \in ToSet(ss)}
       ELSE {ss[r + 1]} \cup UNION {Unreachable(ss[i]) : i \in 1..(r - 1)}
Unreachable(n) == IF n.k = "Block" THEN Behind(n.c)
                  ELSE UNION {Unreachable(c) : c \in ToSet(n.c)}

CheckProgram(p) ==
    LET sigs == SignatureTable(p)
        x == ProgramNames(p, ModuleMap(p))
    IN [errors |-> x.errs \cup UNION {ImportErrors(n) : n \in ToSet(Imports(p))}
                   \cup CollectAll(Statements(p), FALSE, sigs)
                   \cup UNION {Policies(n) : n \in ToSet(p)},
        unused |-> Unused(x),
        unreachable |-> Behind(Statements(p))]
=============================================================================
