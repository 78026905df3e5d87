------------------------------ MODULE Printer -------------------------------
(* The printer of `prima fmt`: syntax trees (see Parser) back to text.       *)
(* Parentheses are put in again from the binding powers; indentation is      *)
(* layout and left out, newlines and spaces are atoms of the text.           *)
EXTENDS Syntax

AtomBp == 100
PrinterUnaryBp == 7
BinopLbp == [t \in {"||"} |-> 2] @@ [t \in {"&&"} |-> 3]
            @@ [t \in {"==", "!=", "<", "<=", ">", ">=", "in"} |-> 4]
            @@ [t \in {"+", "-", "union", "\\"} |-> 5]
            @@ [t \in {"*", "/", "%", "@", "@.", "intersect"} |-> 6] @@ [t \in {"^"} |-> 8]
\* Mutant: no operator asks more of its right operand than of its left.
BinopRbpLeft(op) == BinopLbp[op]
BinopRbp(op) == IF op = "^" THEN 8 ELSE BinopLbp[op] + 1
LeftMin(op) == IF op = "^" THEN BinopLbp[op] + 1 ELSE BinopLbp[op]
\* What an expression binds like as an operand: only operators bind loosely.
RootPrec(e) == CASE e.k = "Binary" -> BinopLbp[e.v[1]]
                 [] e.k = "Unary" -> PrinterUnaryBp
                 [] OTHER -> AtomBp

RECURSIVE Join(_, _)
\* The texts ts with sep between them.
Join(ts, sep) == IF ts = <<>> THEN <<>>
                 ELSE IF Len(ts) = 1 THEN ts[1]
                 ELSE ts[1] \o sep \o Join(Tail(ts), sep)
Comma == <<",", " ">>
Each(ns, F(_)) == [i \in DOMAIN ns |-> F(ns[i])]
PathText(v) == Join([i \in DOMAIN v |-> <<v[i]>>], <<"::">>)

RECURSIVE FormatType(_), FormatPattern(_), FormatExpr(_, _), FormatStmt(_)

FormatType(t) ==
    IF t.c = <<>> /\ t.v # <<"Tuple">> THEN PathText(t.v)
    ELSE IF t.v[1] \in {"Fn", "MFn"}
    THEN <<t.v[1], "(">> \o Join(Each(Front(t.c), FormatType), Comma)
         \o <<")", " ", "->", " ">> \o FormatType(Last(t.c))
    ELSE t.v \o <<"<">> \o Join(Each(t.c, FormatType), Comma) \o <<">">>

FormatParam(p) ==
    IF p.v = <<"self">> THEN <<"self">>
    ELSE p.c[1].v \o (IF Len(p.c) = 2 THEN <<":", " ">> \o FormatType(p.c[2]) ELSE <<>>)
FormatParams(n) == <<"(">> \o Join(Each(n.c, FormatParam), Comma) \o <<")">>
FormatRet(n) == IF n.c = <<>> THEN <<>> ELSE <<" ", "->", " ">> \o FormatType(n.c[1])
FormatAnn(a) == <<"@">> \o (CASE a.v[1] = "c_api" -> <<"c_api", "::", "extern">>
                              [] Len(a.v) = 2 -> <<"builtin", "(", a.v[2], ")">>
                              [] OTHER -> a.v) \o <<" ">>
FormatAnns(n) == FlattenSeq(Each(n.c, FormatAnn))

FormatPattern(p) ==
    LET list == Join(Each(p.c, FormatPattern), Comma)
    IN CASE p.k = "PTuple" -> <<"(">> \o list \o <<")">>
         [] p.k = "PArray" -> <<"[">> \o list \o <<"]">>
         [] p.k = "Rest" -> <<"..">>
         [] p.k = "PStruct" -> p.v \o <<" ", "{", " ">> \o list \o <<" ", "}">>
         [] p.k = "PField" ->
               p.c[1].v \o (IF Len(p.c) = 2 THEN <<":", " ">> \o FormatPattern(p.c[2]) ELSE <<>>)
         [] p.k = "Variant" -> p.v \o (IF p.c = <<>> THEN <<>> ELSE <<"(">> \o list \o <<")">>)
         [] p.k = "Or" -> Join(Each(p.c, FormatPattern), <<" ", "|", " ">>)
         [] OTHER -> p.v

-----------------------------------------------------------------------------
Text(e, F(_)) == F(e)
Expr0(e) == Text(e, LAMBDA x : FormatExpr(x, 0))
ExprList(es) == Join(Each(es, Expr0), Comma)
Args(es) == <<"(">> \o ExprList(es) \o <<")">>

FormatIndexItem(i) ==
    CASE i.k = "Elem" -> Expr0(i.c[1])
      [] i.v = <<"to">> -> <<"..">> \o ExprList(i.c)
      [] OTHER -> Expr0(i.c[1]) \o <<"..">> \o ExprList(Tail(i.c))

FormatEntry(e) == Expr0(e.c[1]) \o <<":", " ">> \o Expr0(e.c[2])
FormatField(f) ==
    IF f.k = "Base" THEN <<"..">> \o Expr0(f.c[1])
    ELSE f.c[1].v \o (IF Len(f.c) = 2 THEN <<":", " ">> \o Expr0(f.c[2]) ELSE <<>>)
\* An output that is a key and its value prints as one, whatever the kind.
FormatOutput(e) == IF e.k = "Entry" THEN FormatEntry(e) ELSE Expr0(e)
FormatClause(c) ==
    IF c.k = "For" THEN <<" ", "for", " ">> \o c.c[1].v \o <<" ", "in", " ">> \o Expr0(c.c[2])
    ELSE <<" ", "if", " ">> \o Expr0(c.c[1])
CompFrame(kind) == CASE kind = "array" -> <<"[">> [] kind = "tuple" -> <<"(">>
                     [] OTHER -> <<"{", " ">>
CompClose(kind) == CASE kind = "array" -> <<"]">> [] kind = "tuple" -> <<")">>
                     [] OTHER -> <<" ", "}">>

FormatArm(a) ==
    FormatPattern(a.c[1])
    \o (IF Len(a.c) = 3 THEN <<" ", "if", " ">> \o Expr0(a.c[2].c[1]) ELSE <<>>)
    \o <<" ", "=>", " ">> \o Expr0(Last(a.c)) \o <<",", "\n">>
FormatMatch(e) ==
    <<"match", " ">> \o Expr0(e.c[1]) \o <<" ", "{", "\n">>
    \o FlattenSeq(Each(Tail(e.c), FormatArm)) \o <<"}">>

\* Literal braces are doubled.  An expression that starts or ends with a brace
\* is kept apart from the braces around it by a space.
FormatPart(p) ==
    IF p.k = "Lit" THEN IF p.v[1] \in {"{", "}"} THEN p.v \o p.v ELSE p.v
    ELSE LET e == Expr0(p.c[1])
         IN <<"{">> \o (IF Head(e) = "{" THEN <<" ">> ELSE <<>>) \o e
            \o (IF p.v = <<>> THEN <<>> ELSE <<":">> \o Tail(p.v))
            \o (IF Last(e) = "}" THEN <<" ">> ELSE <<>>) \o <<"}">>

FormatBinary(e) ==
    LET op == e.v[1]
        sp == IF op = "^" THEN <<>> ELSE <<" ">>
    IN FormatExpr(e.c[1], LeftMin(op))
       \o sp \o <<op>> \o sp \o FormatExpr(e.c[2], BinopRbp(op))

FormatExpr(e, minBp) ==
    LET head == FormatExpr(e.c[1], AtomBp)
    IN CASE RootPrec(e) < minBp -> <<"(">> \o FormatExpr(e, 0) \o <<")">>
         [] e.k \in {"Literal", "Self", "Symbol"} -> e.v
         [] e.k = "Path" -> PathText(e.v)
         [] e.k = "FString" -> <<"f\"">> \o FlattenSeq(Each(e.c, FormatPart)) \o <<"\"">>
         [] e.k = "Call" -> head \o Args(Tail(e.c))
         [] e.k = "MethodCall" -> head \o <<".">> \o e.c[2].v \o Args(SubSeq(e.c, 3, Len(e.c)))
         [] e.k = "Field" -> head \o <<".">> \o e.c[2].v
         [] e.k = "Index" -> head \o <<"[">> \o Join(Each(Tail(e.c), FormatIndexItem), Comma) \o <<"]">>
         [] e.k = "Try" -> head \o <<"?">>
         [] e.k = "StructLiteral" ->
               e.c[1].v \o <<" ", "{", " ">> \o Join(Each(Tail(e.c), FormatField), Comma) \o <<" ", "}">>
         [] e.k = "Binary" -> FormatBinary(e)
         [] e.k = "Unary" -> e.v \o FormatExpr(e.c[1], PrinterUnaryBp)
         [] e.k = "Array" -> <<"[">> \o ExprList(e.c) \o <<"]">>
         [] e.k = "Tuple" -> <<"(">> \o ExprList(e.c) \o <<")">>
         [] e.k \in {"Dict", "Set"} /\ e.c = <<>> -> <<"{", "}">>
         [] e.k = "Dict" -> <<"{", " ">> \o Join(Each(e.c, FormatEntry), Comma) \o <<" ", "}">>
         [] e.k = "Set" -> <<"{", " ">> \o ExprList(e.c) \o <<" ", "}">>
         [] e.k = "Comprehension" ->
               CompFrame(e.v[1])
               \o FormatOutput(e.c[1])
               \o FlattenSeq(Each(SelectSeq(e.c, LAMBDA c : c.k \in {"For", "If"}), FormatClause))
               \o CompClose(e.v[1])
         [] e.k = "Lambda" ->
               <<"|">> \o Join(Each(Front(e.c), FormatParam), Comma) \o <<"|", " ">>
               \o Expr0(Last(e.c))
         [] e.k = "Match" -> FormatMatch(e)
         [] e.k = "Custom" ->
               <<"custom", " ", "{", " ">>
               \o Join(Each(e.c, LAMBDA r : Expr0(r.c[1]) \o <<" ", ":=", " ">> \o Expr0(r.c[2])),
                       Comma) \o <<" ", "}">>

-----------------------------------------------------------------------------
NeedsSemicolon(k) == k \notin {"FnDef", "ClassDef", "Impl", "For", "ParFor", "While", "If",
                               "IfLet", "WhileLet", "Match", "WithConfig"}
FormatDocs(v) == FlattenSeq([i \in DOMAIN v |-> <<v[i], "\n">>])
Lines(ns) == FlattenSeq(Each(ns, LAMBDA n : FormatStmt(n) \o <<"\n">>))
FormatBlock(b) == <<"{", "\n">> \o Lines(b.c) \o <<"}">>

FormatConfigEntry(e) ==
    e.c[1].v \o (IF Len(e.c) = 3 THEN <<":", " ">> \o FormatType(e.c[2]) \o <<" ", "=", " ">>
                 ELSE <<" ", ":=", " ">>) \o Expr0(Last(e.c))
FormatConfig(n) ==
    <<"config", " ", "{", " ">> \o Join(Each(n.c, FormatConfigEntry), Comma) \o <<" ", "}">>

FormatVis(v) == CASE v = "private" -> <<>>
                  [] v = "module" -> <<"pub", "(", "mod", ")", " ">>
                  [] v = "public" -> <<"pub", " ">>
RECURSIVE FormatMember(_)
FormatMember(m) ==
    CASE m.k = "Doc" -> FormatDocs(m.v) \o FormatMember(m.c[1])
      [] m.k = "FieldDecl" ->
            FormatVis(m.v[1]) \o <<m.v[2], ":", " ">> \o FormatType(m.c[1]) \o <<",", "\n">>
      [] OTHER ->
            FormatVis(m.v[1]) \o FormatAnns(m.c[3]) \o <<"fn", " ", m.v[2]>>
            \o FormatParams(m.c[1]) \o FormatRet(m.c[2])
            \o (IF Len(m.c) = 4 THEN <<" ">> \o FormatBlock(m.c[4]) ELSE <<";">>) \o <<"\n">>

RECURSIVE FormatElifs(_)
\* Pairs of a condition and a block, then perhaps the block of the last else.
FormatElifs(c) ==
    CASE c = <<>> -> <<>>
      [] Len(c) = 1 -> <<" ", "else", " ">> \o FormatBlock(c[1])
      [] OTHER -> <<" ", "else", " ", "if", " ">> \o Expr0(c[1]) \o <<" ">> \o FormatBlock(c[2])
                  \o FormatElifs(SubSeq(c, 3, Len(c)))
LetHeadText(n) == <<"let", " ">> \o FormatPattern(n.c[1]) \o <<" ", "=", " ">>
                  \o Expr0(n.c[2]) \o <<" ">> \o FormatBlock(n.c[3])
\* An annotated type of a `let`: `: T`.
LetType(n) == IF n.c = <<>> THEN <<>> ELSE <<":", " ">> \o FormatType(n.c[1])

FormatBare(n, pub) ==
    CASE n.k = "Let" ->
            pub \o <<"let", " ">> \o (IF n.v = <<"mut">> THEN <<"mut", " ">> ELSE <<>>)
            \o FormatPattern(n.c[1]) \o LetType(n.c[2]) \o <<" ", "=", " ">> \o Expr0(n.c[3])
      [] n.k = "Const" ->
            pub \o <<"const", " ">> \o n.c[1].v \o <<":", " ">> \o FormatType(n.c[2])
            \o <<" ", "=", " ">> \o Expr0(n.c[3])
      [] n.k = "FnDef" ->
            FormatAnns(n.c[4]) \o pub \o <<"fn", " ">> \o PathText(n.v) \o FormatParams(n.c[1])
            \o FormatRet(n.c[2]) \o <<" ">> \o FormatBlock(n.c[3])
      [] n.k = "MathDef" ->
            pub \o <<"let", " ">> \o n.v \o FormatParams(n.c[1]) \o FormatRet(n.c[2])
            \o FormatAnns(n.c[4]) \o <<" ", "=", " ">> \o Expr0(n.c[3])
      [] n.k = "ClassDef" ->
            FormatAnns(Last(n.c)) \o pub \o <<"class", " ">> \o n.v \o <<" ", "{", "\n">>
            \o FlattenSeq(Each(Front(n.c), FormatMember)) \o <<"}">>
      [] n.k = "Impl" ->
            <<"impl", " ", "ops", "::", n.v[1], " ", "for", " ", n.v[2], " ", "{", "\n">>
            \o Lines(n.c) \o <<"}">>
      [] n.k = "Assign" ->
            FormatExpr(n.c[1], AtomBp) \o <<" ">> \o n.v \o <<" ">> \o Expr0(n.c[2])
      [] n.k = "Expr" -> Expr0(n.c[1])
      [] n.k \in {"For", "ParFor"} ->
            <<IF n.k = "For" THEN "for" ELSE "parfor", " ">> \o n.c[1].v \o <<" ", "in", " ">>
            \o Expr0(n.c[2]) \o <<"..">> \o Expr0(n.c[3])
            \o (IF Len(n.c) = 5 THEN <<" ", "step", " ">> \o Expr0(n.c[4]) ELSE <<>>)
            \o <<" ">> \o FormatBlock(Last(n.c))
      [] n.k = "While" -> <<"while", " ">> \o Expr0(n.c[1]) \o <<" ">> \o FormatBlock(n.c[2])
      [] n.k = "If" ->
            <<"if", " ">> \o Expr0(n.c[1]) \o <<" ">> \o FormatBlock(n.c[2])
            \o FormatElifs(SubSeq(n.c, 3, Len(n.c)))
      [] n.k = "IfLet" -> <<"if", " ">> \o LetHeadText(n) \o FormatElifs(SubSeq(n.c, 4, Len(n.c)))
      [] n.k = "WhileLet" -> <<"while", " ">> \o LetHeadText(n)
      [] n.k = "Match" -> FormatMatch(n)
      [] n.k = "Return" ->
            <<"return">> \o (IF n.c = <<>> THEN <<>> ELSE <<" ">> \o Expr0(n.c[1]))
      [] n.k = "WithConfig" ->
            <<"with", " ">> \o FormatConfig(n.c[1]) \o <<" ">> \o FormatBlock(n.c[2])

\* The docs stand above the statement, `pub` in front of the bare statement.
FormatStmt(n) ==
    LET inner == IF n.k = "Pub" THEN n.c[1] ELSE n
        bare == IF inner.k = "Doc" THEN inner.c[1] ELSE inner
    IN (IF inner.k = "Doc" THEN FormatDocs(inner.v) ELSE <<>>)
       \o FormatBare(bare, IF n.k = "Pub" THEN <<"pub", " ">> ELSE <<>>)
       \o (IF NeedsSemicolon(bare.k) THEN <<";">> ELSE <<>>)

FormatImportItem(i) == i.c[1].v \o (IF Len(i.c) = 2 THEN <<" ", "as", " ">> \o i.c[2].v ELSE <<>>)
FormatImport(n) ==
    FormatDocs(n.v)
    \o (IF n.k = "Import"
        THEN <<"import", " ">> \o PathText(n.c[1].v)
             \o (IF Len(n.c) = 2 THEN <<" ", "as", " ">> \o n.c[2].v ELSE <<>>)
        ELSE <<"from", " ">> \o PathText(n.c[1].v) \o <<" ", "import", " ">>
             \o Join(Each(Tail(n.c), LAMBDA i : IF i.k = "Star" THEN i.v ELSE FormatImportItem(i)), Comma))
    \o <<";">>

\* Module docs, the config block, the imports and the statements of a program.
FormatProgram(p) ==
    LET imports == SelectSeq(p, LAMBDA n : n.k \in {"Import", "From"})
        stmts == SelectSeq(p, LAMBDA n : n.k \notin {"ModuleDoc", "ConfigBlock", "Import", "From"})
        of(k) == SelectSeq(p, LAMBDA n : n.k = k)
    IN FlattenSeq(Each(of("ModuleDoc"), LAMBDA n : FormatDocs(n.v) \o <<"\n">>))
       \o FlattenSeq(Each(of("ConfigBlock"), LAMBDA n : FormatConfig(n.c[1]) \o <<"\n", "\n">>))
       \o FlattenSeq(Each(imports, LAMBDA n : FormatImport(n) \o <<"\n">>))
       \o (IF imports # <<>> THEN <<"\n">> ELSE <<>>)
       \o Lines(stmts)
=============================================================================
