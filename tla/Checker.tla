------------------------------- MODULE Checker -------------------------------
(* `prima check` over one parsed program: the names, the types, the uses of   *)
(* `?`, the annotations, the imports, the configuration keys, and the         *)
(* warnings.  A report is a set of <<code, name>> pairs; where in the file a  *)
(* pair is shown, and its help, are left out.                                 *)
EXTENDS Parser, FiniteSetsExt

CONSTANTS Modules,       \* the modules on disk and embedded: path |-> program
          Embedded,      \* those among them that are embedded in the tool
          Floats,        \* the literals that are floats
          RootNames,     \* ROOT_NAMES: the names every program starts with
          KnownKeys,     \* KNOWN_KEYS: the policies a config block may set
          Registered     \* the names Builtin::from_name knows

TypeNames == Primitives \cup {"Array", "Matrix", "Tuple", "Option", "Result", "Self", "Value", "Error"}

Docless(n) == IF n.k = "Doc" THEN n.c[1] ELSE n
\* The statement a `pub` and its docs stand before.
Item1(n) == IF n.k = "Pub" THEN Docless(n.c[1]) ELSE Docless(n)
IsPub(n) == n.k = "Pub"
Imports(p) == SelectSeq(p, LAMBDA n : n.k \in {"Import", "From"})
Statements(p) == SelectSeq(p, LAMBDA n : n.k \notin {"Import", "From", "ConfigBlock", "ModuleDoc"})
Kids(n, k) == SelectSeq(n.c, LAMBDA c : c.k = k)
Kid(n, k) == Kids(n, k)[1]
AnnsOn(n) == {a.v : a \in ToSet(Kid(n, "Anns").c)}
Self1(q) == q.v[1] = "self"
ParamName(q) == q.c[1].v[1]

\* The names a pattern binds; a field of a struct pattern binds nothing here
\* when it has no pattern of its own.
RECURSIVE PatternNames(_)
PatternNames(p) ==
    CASE p.k = "Binding" -> {p.v[1]}
      [] p.k = "PField" -> IF Len(p.c) = 1 THEN {} ELSE PatternNames(p.c[2])
      [] p.k = "Name" -> {}
      [] OTHER -> UNION {PatternNames(c) : c \in ToSet(p.c)}

-----------------------------------------------------------------------------
(* Names: a walk with a stack of scopes.                                      *)

Scope0 == [binds |-> {}, defs |-> {}, used |-> {}]
NameCtx(mods, known) ==
    [scopes |-> <<[Scope0 EXCEPT !.binds = RootNames \cup TypeNames]>>, fnDepth |-> 0,
     modules |-> mods, known |-> known, errs |-> {}]

Report(x, code, n) == [x EXCEPT !.errs = @ \cup {<<code, n>>}]
PushScope(x) == [x EXCEPT !.scopes = Append(@, Scope0)]
\* Mutant: the block's names stay with those around it.
PopScopeKept(x) ==
    LET k == Len(x.scopes)
    IN [x EXCEPT !.scopes = Append(SubSeq(@, 1, k - 2),
            [@[k - 1] EXCEPT !.binds = @ \cup x.scopes[k].binds])]
PopScope(x) == [x EXCEPT !.scopes = Front(@)]
Bind(x, ns) == [x EXCEPT !.scopes[Len(x.scopes)].binds = @ \cup ns]
IsBound(x, n) == \E i \in DOMAIN x.scopes : n \in x.scopes[i].binds
\* Mutant: only the innermost scope is looked at.
MarkUsedHere(x, n) ==
    IF n \in Last(x.scopes).binds THEN [x EXCEPT !.scopes[Len(x.scopes)].used = @ \cup {n}] ELSE x
\* The innermost scope that binds the name marks it.
MarkUsed(x, n) ==
    IF ~IsBound(x, n) THEN x
    ELSE LET i == Max({j \in DOMAIN x.scopes : n \in x.scopes[j].binds})
         IN [x EXCEPT !.scopes[i].used = @ \cup {n}]
\* A definition may be made once in a scope; a `let` may be repeated.
DefineName(x, n) ==
    IF n \in Last(x.scopes).defs THEN Report(x, "E0041", n)
    ELSE Bind([x EXCEPT !.scopes[Len(x.scopes)].defs = @ \cup {n}], {n})

Repeated(ns) == {ns[i] : i \in {i \in DOMAIN ns : \E j \in 1..(i - 1) : ns[j] = ns[i]}}
ReportAll(x, code, ns) == [x EXCEPT !.errs = @ \cup {<<code, n>> : n \in ns}]

\* module::item, one level deep, against what the module declares.
QualifiedAccess(x, path) ==
    LET item == Last(path)
    IN IF Front(path) \notin DOMAIN x.modules THEN x
       ELSE IF item \in x.modules[Front(path)].public THEN x
       ELSE Report(x, IF item \in x.modules[Front(path)].all THEN "E0032" ELSE "E0040", item)

\* The type names a program may use: the primitive ones, its own classes, and
\* what an embedded module it imports declares or mentions.
RECURSIVE UserTypes(_)
UserTypes(n) == (IF n.k = "Type" /\ Len(n.v) = 1 THEN {n.v[1]} ELSE {})
                \cup UNION {UserTypes(c) : c \in ToSet(n.c)}
Signatured(n) ==
    UNION {UserTypes(c) : c \in {c \in ToSet(n.c) : c.k \in {"Params", "Ret", "FieldDecl", "Method"}}}
ModuleTypes(p) ==
    UNION {LET n == Item1(p[i])
           IN (IF n.k = "ClassDef" \/ (n.k = "FnDef" /\ Len(n.v) > 1) THEN {n.v[1]} ELSE {})
              \cup (IF n.k \in {"ClassDef", "FnDef", "MathDef"} THEN Signatured(n) ELSE {})
           : i \in DOMAIN p}
KnownTypes(p) ==
    TypeNames \cup {Item1(n).v[1] : n \in {n \in ToSet(p) : Item1(n).k = "ClassDef"}}
    \cup UNION {ModuleTypes(Modules[n.c[1].v]) :
                   n \in {n \in ToSet(Imports(p)) : n.c[1].v \in Embedded}}

RECURSIVE Walk(_, _)
WalkAll(ns, x) ==
    LET walked[i \in 0..Len(ns)] == IF i = 0 THEN x ELSE Walk(ns[i], walked[i - 1])
    IN walked[Len(ns)]
Scoped(x, ns, inner) == PopScope(WalkAll(inner, Bind(PushScope(x), ns)))

BindParams(x, ps) ==
    LET ns == [i \in DOMAIN ps |-> ParamName(ps[i])]
    IN Bind(ReportAll(x, "E0041", Repeated(ns)), ToSet(ns))
\* A body with the parameters of its function around it.
InFunction(x, ps, ns) ==
    LET named == SelectSeq(ps, LAMBDA q : ~Self1(q))
        y == BindParams(PushScope([x EXCEPT !.fnDepth = @ + 1]), named)
    IN [PopScope(WalkAll(ns, y)) EXCEPT !.fnDepth = @ - 1]

SelfNotFirst(x, ps) ==
    IF \E i \in DOMAIN ps : i > 1 /\ Self1(ps[i]) THEN Report(x, "E0063", "self") ELSE x
CheckMethod(x, n) == InFunction(SelfNotFirst(x, Kid(n, "Params").c), Kid(n, "Params").c, n.c)
CheckMember(x, m) == IF Docless(m).k = "Method" THEN CheckMethod(x, Docless(m))
                     ELSE WalkAll(Docless(m).c, x)
MemberNames(n, k) == LET ms == SelectSeq(n.c, LAMBDA m : Docless(m).k = k)
                     IN [i \in DOMAIN ms |-> Docless(ms[i]).v[2]]
CheckClass(x, n) ==
    FoldLeft(CheckMember,
             ReportAll(DefineName(x, n.v[1]), "E0041",
                       Repeated(MemberNames(n, "FieldDecl")) \cup Repeated(MemberNames(n, "Method"))),
             SelectSeq(n.c, LAMBDA m : m.k # "Anns"))

CheckReturn(x, n) == WalkAll(n.c, IF x.fnDepth = 0 THEN Report(x, "E0080", "return") ELSE x)
\* In call position a bare name must be bound.
CheckCall(x, n) ==
    IF n.c[1].k = "Path" /\ Len(n.c[1].v) = 1 /\ ~IsBound(x, n.c[1].v[1])
    THEN WalkAll(Tail(n.c), Report(x, "E0040", n.c[1].v[1]))
    ELSE WalkAll(n.c, x)
\* A clause is walked after the expression that uses its variable.
CheckClause(x, c) == IF c.k = "For" THEN Bind(Walk(c.c[2], x), {c.c[1].v[1]}) ELSE WalkAll(c.c, x)
CheckComprehension(x, n) == PopScope(FoldLeft(CheckClause, Walk(n.c[1], PushScope(x)), Tail(n.c)))
CheckLambda(x, n) ==
    LET ps == Kids(n, "Param")
        y == BindParams(PushScope(x), ps)
    IN PopScope(WalkAll(n.c, y))
\* A guard is walked before the pattern of its arm binds.
CheckArm(x, a) ==
    Scoped(IF a.c[2].k = "Guard" THEN WalkAll(a.c[2].c, x) ELSE x,
           PatternNames(a.c[1]), <<Last(a.c)>>)

Walk(n, x) ==
    CASE n.k = "Path" /\ Len(n.v) = 1 -> MarkUsed(x, n.v[1])
      [] n.k = "Path" -> QualifiedAccess(MarkUsed(x, n.v[1]), n.v)
      [] n.k = "Self" -> IF x.fnDepth = 0 THEN Report(x, "E0062", "self") ELSE x
      [] n.k = "Type" ->
            WalkAll(n.c, IF Len(n.v) = 1 /\ n.v[1] \in Names \ x.known
                            /\ n.v[1] \notin {"Fn", "MFn"}
                         THEN Report(x, "E0052", n.v[1]) ELSE x)
      [] n.k = "Let" -> Bind(WalkAll(Tail(n.c), x), PatternNames(n.c[1]))
      [] n.k = "Const" -> DefineName(WalkAll(n.c, x), n.c[1].v[1])
      [] n.k \in {"FnDef", "MathDef"} ->
            InFunction(DefineName(x, Last(n.v)), Kid(n, "Params").c, n.c)
      [] n.k = "ClassDef" -> CheckClass(x, n)
      [] n.k \in {"For", "ParFor"} ->
            Scoped(WalkAll(Front(n.c), x), {n.c[1].v[1]}, <<Last(n.c)>>)
      [] n.k \in {"IfLet", "WhileLet"} ->
            WalkAll(SubSeq(n.c, 4, Len(n.c)), Scoped(Walk(n.c[2], x), PatternNames(n.c[1]), <<n.c[3]>>))
      [] n.k = "Block" -> Scoped(x, {}, n.c)
      [] n.k = "WithConfig" -> Walk(n.c[2], x)
      [] n.k = "Return" -> CheckReturn(x, n)
      [] n.k = "Call" -> CheckCall(x, n)
      [] n.k = "StructLiteral" -> WalkAll(Tail(n.c), x)
      [] n.k = "Comprehension" -> CheckComprehension(x, n)
      [] n.k = "Lambda" -> CheckLambda(x, n)
      [] n.k = "Arm" -> CheckArm(x, n)
      [] n.k \in {"Anns", "Name"} -> x
      [] OTHER -> WalkAll(n.c, x)

ProgramNames(p, mods) == WalkAll(Statements(p), NameCtx(mods, KnownTypes(p)))
\* W0003: the names of the scopes left at the end that nothing marked.
Unused(x) == UNION {s.binds \ (s.used \cup RootNames \cup TypeNames) : s \in ToSet(x.scopes)}
=============================================================================
