------------------------------- MODULE Parser -------------------------------
(* The grammar of prima-syntax: one rule per parse function, each from a     *)
(* parser state to the next one (see Syntax).  A rule that meets an error    *)
(* records the first and leaves the rest of the work undone.                 *)
EXTENDS Syntax

(* The rules that contain each other call one another through Rule, by name:  *)
(* an expression down to a binding power, a pattern, a type, a block, ...     *)
RECURSIVE Rule(_, _, _), Items(_, _)

ParseExprBp(s, bp) == Rule("expr", bp, s)
ParseExpr(s) == Rule("expr", 0, s)
ParsePattern(s) == Rule("pattern", 0, s)
ParseType(s) == Rule("type", 0, s)
ParseBlock(s) == Rule("block", 0, s)
\* Mutant: the switch stays as the scrutinee set it.
ParseScrutineeKept(s) == ParseExpr([s EXCEPT !.noStruct = TRUE])
\* A head before a `{`: a struct literal may not stand in it.
ParseScrutinee(s) ==
    LET r == ParseExpr([s EXCEPT !.noStruct = TRUE])
    IN [r EXCEPT !.noStruct = s.noStruct]

\* A parameter: a name with or without a type, or `self` in a method.
ParseParam(s, method) ==
    IF method /\ At(s, "self") THEN Bump(Push(s, Node("Param", <<"self">>, <<>>)))
    ELSE LET n == Ident(s)
         IN Wrap(s, IF At(n, ":") THEN ParseType(Bump(n)) ELSE n, 0, "Param", <<"name">>)

Item(what, s) == Rule(what, 0, s)

\* One or more items with commas between them; the depth is the deepest's.
ItemsRest(what, s) == IF At(s, ",") THEN Items(what, Bump(s)) ELSE s
Items(what, s) == IF Bad(s) THEN s ELSE ItemsRest(what, Deeper(s, Item(what, s)))
ListTo(what, close, s) ==
    IF At(s, close) THEN Bump([s EXCEPT !.d = 1])
    ELSE Expect(Items(what, [s EXCEPT !.d = 1]), close)

-----------------------------------------------------------------------------
(* Operators (Pratt climbing): left and right binding powers.                *)

BinopBp ==
    [t \in {"||"} |-> <<2, 3>>] @@ [t \in {"&&"} |-> <<3, 4>>]
    @@ [t \in {"==", "!=", "<", "<=", ">", ">=", "in"} |-> <<4, 5>>]
    @@ [t \in {"+", "-", "union", "\\"} |-> <<5, 6>>]
    @@ [t \in {"*", "/", "%", "@", "@.", "intersect"} |-> <<6, 7>>]
    @@ [t \in {"^", "**"} |-> <<8, 8>>]
OpName(t) == IF t = "**" THEN "^" ELSE t
UnaryBp == 7

RECURSIVE Climb(_, _)
\* The operand on top of the stack takes every operator that binds it.
ClimbRhs(s, r, bp) ==
    IF Bad(r) THEN r
    ELSE Climb(SetDepth(Wrap(s, r, 1, "Binary", <<OpName(Peek(s))>>),
                        Max2(s.d, r.d) + 1), bp)
Climb(s, bp) ==
    IF At(s, "|>") THEN Fail(s, "E0010")
    ELSE IF Bad(s) \/ Peek(s) \notin DOMAIN BinopBp THEN s
    ELSE IF BinopBp[Peek(s)][1] < bp THEN s
    ELSE ClimbRhs(s, ParseExprBp(Bump(s), BinopBp[Peek(s)][2]), bp)

-----------------------------------------------------------------------------
(* Atoms.                                                                    *)

\* The parts of an f-string up to `f>`: each interpolation is read by a parser
\* of its own, with its own recursion budget, and must be one expression.
RECURSIVE FParts(_)
FInterp(s, r) ==
    IF Bad(r) THEN r
    ELSE IF At(r, "f:")
         THEN LET e == SelectInSeq(r.in, LAMBDA t : t = "f}")
              IN [Wrap(s, r, 0, "Interp", SubSeq(r.in, 1, e - 1))
                    EXCEPT !.in = SubSeq(@, e + 1, Len(@))]
    ELSE Expect(Wrap(s, r, 0, "Interp", <<>>), "f}")
FParts(s) ==
    IF At(s, "f.") THEN FParts(Bump(Bump(Push(s, Node("Lit", <<s.in[2]>>, <<>>)))))
    ELSE IF At(s, "f{")
         THEN FParts(LET r == FInterp(s, ParseExpr([Bump(s) EXCEPT !.nest = 0,
                                                                  !.noStruct = FALSE]))
                     IN Deeper(s, [r EXCEPT !.nest = s.nest, !.noStruct = s.noStruct]))
    ELSE Expect(s, "f>")

RECURSIVE Clauses(_)
\* `for x in e` and `if e`, as often as they come.
Clauses(s) ==
    IF At(s, "for")
    THEN LET v == Expect(Ident(Bump(s)), "in")
             r == ParseExpr(v)
         IN Clauses(Deeper(s, Wrap(s, r, 0, "For", <<>>)))
    ELSE IF At(s, "if")
         THEN LET r == ParseExpr(Bump(s)) IN Clauses(Deeper(s, Wrap(s, r, 0, "If", <<>>)))
    ELSE s
Comprehension(s0, s, kind, close) ==
    LET r == Expect(Clauses(s), close)
    IN SetDepth(Wrap(s0, r, 0, "Comprehension", <<kind>>), 1 + r.d)

\* After `(`: unit, tuple, comprehension, or a group, which leaves no node.
ParenRest(s0, s) ==
    IF At(s, ",")
    THEN LET r == IF At(Bump(s), ")") THEN Bump(Bump(s))
                  ELSE Expect(ItemsRest("expr", s), ")")
         IN SetDepth(Wrap(s0, r, 0, "Tuple", <<>>), 1 + r.d)
    ELSE IF At(s, "for") THEN Comprehension(s0, s, "tuple", ")")
    ELSE Expect(s, ")")
ParseParen(s) ==
    IF At(s, ")") THEN Bump([Push(s, Node("Tuple", <<>>, <<>>)) EXCEPT !.d = 1])
    ELSE ParenRest(s, ParseExpr(s))

ArrayRest(s0, s) ==
    IF At(s, "for")
    THEN IF Len(s.out) # Len(s0.out) + 1 THEN Fail(s, "E0010")
         ELSE Comprehension(s0, s, "array", "]")
    ELSE LET r == Expect(s, "]") IN SetDepth(Wrap(s0, r, 0, "Array", <<>>), 1 + r.d)
ParseArray(s) ==
    ArrayRest(s, IF At(s, "]") THEN [s EXCEPT !.d = 1] ELSE Items("expr", [s EXCEPT !.d = 1]))

RECURSIVE DictRest(_), SetRest(_)
Entry(s0, s) == Wrap(s0, Deeper(s, ParseExpr(Expect(s, ":"))), 0, "Entry", <<>>)
DictRest(s) ==
    IF Bad(s) \/ At(s, "}") THEN Bump(s)
    ELSE LET c == Expect(s, ",") IN DictRest(Entry(c, Deeper(c, ParseExpr(c))))
SetRest(s) ==
    IF Bad(s) \/ At(s, "}") THEN Bump(s)
    ELSE SetRest(Deeper(s, ParseExpr(Expect(s, ","))))
BraceEntry(s0, s) ==
    IF At(s, "for") THEN Comprehension(s0, SetDepth(s, 1 + s.d), "dict", "}")
    ELSE LET r == DictRest(s) IN SetDepth(Wrap(s0, r, 0, "Dict", <<>>), 1 + r.d)
BraceRest(s0, s) ==
    IF At(s, "for") THEN Comprehension(s0, s, "set", "}")
    ELSE IF At(s, ":") THEN BraceEntry(s0, Entry(s0, s))
    ELSE LET r == SetRest(s) IN SetDepth(Wrap(s0, r, 0, "Set", <<>>), 1 + r.d)
ParseBrace(s) ==
    IF At(s, "}") THEN Bump([Push(s, Node("Dict", <<>>, <<>>)) EXCEPT !.d = 1])
    ELSE BraceRest(s, ParseExpr(s))

ParseLambda(s) ==
    LET ps == IF At(s, "|") THEN Bump(s) ELSE Expect(Items("lambda param", s), "|")
        r == ParseExpr(ps)
    IN SetDepth(Wrap(s, r, 0, "Lambda", <<>>), r.d + 1)

RECURSIVE Arms(_)
\* pattern [if guard] => body, with or without a separator after it.
ArmBody(s0, s) ==
    LET b == ParseExpr(Expect(s, "=>"))
    IN Arms(Eat(Eat(Deeper(s, Wrap(s0, b, 0, "Arm", <<>>)), ","), ";"))
Arms(s) ==
    IF Bad(s) \/ At(s, "}") THEN Bump(s)
    ELSE LET p == ParsePattern(s)
         IN IF At(p, "if")
            THEN LET g == ParseExpr(Bump(p)) IN ArmBody(s, Deeper(p, Wrap(p, g, 0, "Guard", <<>>)))
            ELSE ArmBody(s, p)
ParseMatch(s) == Wrap(s, Arms(Expect(ParseScrutinee(s), "{")), 0, "Match", <<>>)

Leaf(s, k) == Bump([Push(s, Node(k, <<Peek(s)>>, <<>>)) EXCEPT !.d = 1])
ParseAtom(s) ==
    CASE Bad(s) -> s
      [] Peek(s) \in Literals \cup {"true", "false"} -> Leaf(s, "Literal")
      [] Peek(s) \in Symbols -> [SymbolLeaf(s, "Symbol") EXCEPT !.d = 1]
      [] Peek(s) = "self" -> Leaf(s, "Self")
      [] Peek(s) \in Names -> [ModulePath(s) EXCEPT !.d = 1]
      [] Peek(s) = "f<" ->
            LET r == FParts([Bump(s) EXCEPT !.d = 0])
            IN SetDepth(Wrap(s, r, 0, "FString", <<>>), 1 + r.d)
      [] Peek(s) = "(" -> ParseParen(Bump(s))
      [] Peek(s) = "[" -> ParseArray(Bump(s))
      [] Peek(s) = "{" -> ParseBrace(Bump(s))
      [] Peek(s) = "|" -> ParseLambda(Bump(s))
      [] Peek(s) = "match" -> LET r == ParseMatch(Bump(s)) IN SetDepth(r, 1 + r.d)
      [] OTHER -> Fail(s, "E0010")

-----------------------------------------------------------------------------
(* Postfix chains and struct literals.                                       *)

RECURSIVE IndexItems(_), Fields(_), Postfix(_)
Bound(s) == IF At(s, ",") \/ At(s, "]") THEN s ELSE Deeper(s, ParseExpr(s))
IndexItem(s) ==
    IF At(s, "..") THEN Wrap(s, Bound(Bump(s)), 0, "Slice", <<"to">>)
    ELSE LET e == Deeper(s, ParseExpr(s))
         IN IF At(e, "..") THEN Wrap(s, Bound(Bump(e)), 0, "Slice", <<"from">>)
            ELSE Wrap(s, e, 0, "Elem", <<>>)
IndexItems(s) ==
    IF Bad(s) THEN s
    ELSE LET r == IndexItem(s) IN IF At(r, ",") THEN IndexItems(Bump(r)) ELSE Expect(r, "]")

\* The node of a postfix step over the receiver r.out ends with; q is the state
\* after the step's own arguments.
PostfixNode(s, q, k, v) == SetDepth(Wrap(s, q, 1, k, v), 1 + Max2(s.d, q.d))
Method(s, n) ==
    IF At(n, "(") THEN PostfixNode(s, ListTo("expr", ")", Bump(n)), "MethodCall", <<>>)
    ELSE PostfixNode(s, n, "Field", <<>>)
Postfix(s) ==
    CASE At(s, "(") -> Postfix(PostfixNode(s, ListTo("expr", ")", Bump(s)), "Call", <<>>))
      [] At(s, "[") ->
            Postfix(PostfixNode(s, IndexItems([Bump(s) EXCEPT !.d = 1]), "Index", <<>>))
      [] At(s, ".") -> Postfix(Method(s, Ident(Bump(s))))
      [] At(s, "?") -> Postfix(PostfixNode(s, Bump(s), "Try", <<>>))
      [] OTHER -> s

FieldValue(s) ==
    LET n == Ident(s)
    IN Wrap(s, IF At(n, ":") THEN Deeper(n, ParseExpr(Bump(n))) ELSE n, 0, "FieldValue", <<>>)
FieldsRest(s) == IF At(s, ",") THEN Fields(Bump(s)) ELSE Expect(s, "}")
Fields(s) ==
    IF Bad(s) \/ At(s, "}") THEN Bump(s)
    ELSE IF At(s, "..")
         THEN Expect(Wrap(s, Deeper(s, ParseExpr(Bump(s))), 0, "Base", <<>>), "}")
    ELSE FieldsRest(FieldValue(s))
StructLiteral(s) ==
    IF ~s.noStruct /\ At(s, "{") /\ Top(s).k = "Path" /\ Len(Top(s).v) = 1
    THEN PostfixNode(s, Fields(Bump(s)), "StructLiteral", <<>>)
    ELSE s

\* A chain starts at depth 1, whatever the depth of its first atom.
ParsePostfix(s) == IF Bad(s) THEN s ELSE StructLiteral(Postfix([s EXCEPT !.d = 1]))

ParsePrefix(s) ==
    IF Bad(s) THEN s
    ELSE IF Peek(s) \in {"-", "!", "+"}
    THEN LET r == ParseExprBp(Bump(s), UnaryBp)
         IN SetDepth(Wrap(s, r, 0, "Unary", <<Peek(s)>>), r.d + 1)
    ELSE ParsePostfix(ParseAtom(s))

ExprRule(s, bp) == Leave(Climb(ParsePrefix(Enter(s)), bp))

-----------------------------------------------------------------------------
(* Patterns and types.                                                       *)

Numbers == {l \in Literals : l \notin Strings}

RangePattern(s) ==
    IF At(s, "..") \/ At(s, "..=")
    THEN IF s.in[2] \in Numbers
         THEN [Bump(Bump(s)) EXCEPT !.out = Append(Front(@),
                  Node("PRange", <<Top(s).v[1], Peek(s), s.in[2]>>, <<>>))]
         ELSE Fail(s, "E0010")
    ELSE s

RECURSIVE SubPatterns(_, _), FieldPatterns(_)
\* The patterns of a tuple or an array up to its closing bracket, `..` last.
SubPatterns(s, close) ==
    IF At(s, "..") THEN Expect(Push(Bump(s), Node("Rest", <<>>, <<>>)), close)
    ELSE LET p == ParsePattern(s)
         IN IF Bad(p) THEN p ELSE IF At(p, ",") THEN SubPatterns(Bump(p), close) ELSE Expect(p, close)
FieldPattern(s) ==
    LET n == Ident(s)
    IN Wrap(s, IF At(n, ":") THEN ParsePattern(Bump(n)) ELSE n, 0, "PField", <<>>)
FieldPatterns(s) ==
    IF Bad(s) \/ At(s, "}") THEN Bump(s)
    ELSE IF At(s, "..") THEN Expect(Push(Bump(s), Node("Rest", <<>>, <<>>)), "}")
    ELSE LET p == FieldPattern(s) IN IF At(p, ",") THEN FieldPatterns(Bump(p)) ELSE Expect(p, "}")

PLeaf(s, k) == Bump(Push(s, Node(k, <<Peek(s)>>, <<>>)))
Bracketed(s, close) == IF At(s, close) THEN Bump(s) ELSE SubPatterns(s, close)
NamedPattern(s) ==
    LET n == Bump(s)
    IN CASE At(n, "(") -> Wrap(s, ListTo("pattern", ")", Bump(n)), 0, "Variant", <<Peek(s)>>)
         [] At(n, "{") -> Wrap(s, FieldPatterns(Bump(n)), 0, "PStruct", <<Peek(s)>>)
         [] OTHER -> PLeaf(s, "Binding")
SimplePattern(s) ==
    CASE Bad(s) -> s
      [] Peek(s) = "-" ->
            IF s.in[2] \in Numbers
            THEN Bump(Bump(Push(s, Node("PLiteral", <<"-", s.in[2]>>, <<>>))))
            ELSE Fail(s, "E0010")
      [] Peek(s) = "_" -> PLeaf(s, "Wildcard")
      [] Peek(s) \in Numbers -> RangePattern(PLeaf(s, "PLiteral"))
      [] Peek(s) \in Strings \cup {"true", "false"} -> PLeaf(s, "PLiteral")
      [] Peek(s) \in Symbols -> SymbolLeaf(s, "Binding")
      [] Peek(s) = "(" -> Wrap(s, Bracketed(Bump(s), ")"), 0, "PTuple", <<>>)
      [] Peek(s) = "[" -> Wrap(s, Bracketed(Bump(s), "]"), 0, "PArray", <<>>)
      [] Peek(s) \in Names -> NamedPattern(s)
      [] OTHER -> Fail(s, "E0010")

RECURSIVE Alternatives(_)
Alternatives(s) == IF At(s, "|") THEN Alternatives(SimplePattern(Bump(s))) ELSE s
OrPattern(s) ==
    LET p == SimplePattern(s)
    IN IF At(p, "|") THEN Wrap(s, Alternatives(p), 0, "Or", <<>>) ELSE p
\* A pattern has no part in the depth of the expression around it.
PatternRule(s) == [Leave(OrPattern(Enter(s))) EXCEPT !.d = s.d]

Primitives == {"Number", "Integer", "Rational", "F64", "Bool", "String"}
\* `Array<T>` and its like take types between `<` and `>`, `Fn` and `MFn` a
\* list and a result; every other name may be a path.
ParseTypeInner(s) ==
    CASE Bad(s) -> s
      [] Peek(s) = "Self" -> PLeaf(s, "Type")
      [] Peek(s) \in {"Array", "Matrix", "Option"} ->
            Wrap(s, Expect(ParseType(Expect(Bump(s), "<")), ">"), 0, "Type", <<Peek(s)>>)
      [] Peek(s) = "Result" ->
            Wrap(s, Expect(ParseType(Expect(ParseType(Expect(Bump(s), "<")), ",")), ">"),
                 0, "Type", <<"Result">>)
      [] Peek(s) = "Tuple" ->
            Wrap(s, ListTo("type", ">", Expect(Bump(s), "<")), 0, "Type", <<"Tuple">>)
      [] Peek(s) \in {"Fn", "MFn"} ->
            Wrap(s, ParseType(Expect(ListTo("type", ")", Expect(Bump(s), "(")), "->")),
                 0, "Type", <<Peek(s)>>)
      [] Peek(s) \in Primitives -> PLeaf(s, "Type")
      [] Peek(s) \in Names -> Labels(s, Segments(Ident(s)), "Type")
      [] OTHER -> Fail(s, "E0010")
TypeRule(s) == [Leave(ParseTypeInner(Enter(s))) EXCEPT !.d = s.d]

-----------------------------------------------------------------------------
(* Statements.                                                               *)

BlockKinds == {"FnDef", "ClassDef", "Impl", "For", "ParFor", "While", "If", "IfLet",
               "WhileLet", "Match", "WithConfig"}
DefKinds == {"Let", "Const", "FnDef", "MathDef", "ClassDef"}

EndStatement(s) == IF At(s, ";") THEN Bump(s)
                   ELSE IF At(s, "eof") \/ At(s, "}") THEN s ELSE Fail(s, "E0011")

\* Annotations, one leaf node each.
RECURSIVE Annotations(_)
Tier(s) == IF At(s, "(")
           THEN IF s.in[2] \in {"O0", "O1", "O2", "O3"}
                THEN Expect([Bump(Bump(s)) EXCEPT !.out = Append(Front(@),
                        Node("Ann", IF s.in[2] = "O0" THEN <<"builtin">>
                                    ELSE <<"builtin", s.in[2]>>, <<>>))], ")")
                ELSE Fail(s, "E0057")
           ELSE s
Annotation(s) ==
    CASE Bad(s) -> s
      [] Peek(s) \in {"parallel", "jit", "gpu"} -> PLeaf(s, "Ann")
      [] Peek(s) = "builtin" -> Tier(PLeaf(s, "Ann"))
      [] Peek(s) = "c_api" /\ s.in[2] = "::" ->
            IF s.in[3] = "extern" THEN Bump(Bump(PLeaf(s, "Ann"))) ELSE Fail(s, "E0070")
      [] OTHER -> Fail(s, "E0070")
Annotations(s) == IF At(s, "@") THEN Annotations(Annotation(Bump(s))) ELSE s
AnnNodes(s0, s) == IF Bad(s) THEN <<>> ELSE SubSeq(s.out, Len(s0.out) + 1, Len(s.out))
IsBuiltin(anns) == \E a \in ToSet(anns) : a.v[1] = "builtin"

Params(s) == Wrap(s, ListTo("param", ")", Expect(s, "(")), 0, "Params", <<>>)
Return(s, arrow) == Wrap(s, IF At(s, ":") \/ (arrow /\ At(s, "->")) THEN ParseType(Bump(s)) ELSE s,
                         0, "Ret", <<>>)

\* A definition from its parts: the nodes finished since s0 and its annotations.
Define(s0, s, k, name, anns) ==
    IF Bad(s) THEN s
    ELSE Push([s EXCEPT !.out = s0.out],
              Node(k, name, SubSeq(s.out, Len(s0.out) + 1, Len(s.out))
                            \o <<Node("Anns", <<>>, anns)>>))

MathAnnotated(s, r, a, name) ==
    Define(s, ParseExpr(Expect([a EXCEPT !.out = r.out], "=")), "MathDef", name, AnnNodes(r, a))
MathReturned(s, r, name) == MathAnnotated(s, r, Annotations(r), name)
TypeOf(s) == Wrap(s, IF At(s, ":") THEN ParseType(Bump(s)) ELSE s, 0, "Ret", <<>>)
\* let f(x) = e, or let pattern = e.
ParseLet(s) ==
    LET m == Eat(Bump(s), "mut")
    IN IF ~Bad(m) /\ Peek(m) \in Names /\ m.in[2] = "("
       THEN MathReturned(s, Return(Params(Bump(m)), FALSE), <<Peek(m)>>)
       ELSE Wrap(s, ParseExpr(Expect(TypeOf(ParsePattern(m)), "=")), 0, "Let",
                 IF At(Bump(s), "mut") THEN <<"mut">> ELSE <<>>)
ParseConst(s) ==
    Wrap(s, ParseExpr(Expect(ParseType(Expect(Ident(Bump(s)), ":")), "=")), 0, "Const", <<>>)

\* A function of a class, of an impl or of a program; `outer` are the
\* annotations before it.  A @builtin function may have a path for a name and a
\* signature alone.
Missing(anns, more) == SelectSeq(more, LAMBDA a : a \notin ToSet(anns))
FnBody(s, anns) == IF IsBuiltin(anns) /\ ~At(s, "{")
                   THEN Push(EndStatement(s), Node("Block", <<>>, <<>>))
                   ELSE ParseBlock(s)
FnDefined(s, b, name, anns) == Define(s, FnBody(b, anns), "FnDef", name, anns)
FnAnnotated(s, r, a, name, outer) ==
    FnDefined(s, [a EXCEPT !.out = r.out], name, AnnNodes(r, a) \o Missing(AnnNodes(r, a), outer))
FnReturned(s, r, name, outer) == FnAnnotated(s, r, Annotations(r), name, outer)
FnNamed(s, n, outer) ==
    IF Bad(n) THEN n
    ELSE FnReturned(s, Return(Params([n EXCEPT !.out = s.out]), TRUE), Top(n).v, outer)
RECURSIVE NameSegments(_)
NameSegments(s) == IF At(s, "::") THEN NameSegments(Ident(Bump(s))) ELSE s
ParseFn(s, outer) ==
    LET i == Ident(Bump(s))
    IN FnNamed(s, Labels(s, IF IsBuiltin(outer) THEN NameSegments(i) ELSE i, "Name"), outer)

RECURSIVE TakeRun(_, _), LinesOf(_, _)
\* The run of doc lines of one kind here, and the state behind it.
TakeRun(s, kind) == IF ~Bad(s) /\ Peek(s) \in kind THEN TakeRun(Bump(s), kind) ELSE s
LinesOf(s, kind) == IF ~Bad(s) /\ Peek(s) \in kind THEN <<Peek(s)>> \o LinesOf(Bump(s), kind) ELSE <<>>
TakeDocs(s) == TakeRun(s, DocLines)
Docs(s) == LinesOf(s, DocLines)
\* Docs belong to the definition after them and are dropped before anything else.
Attach(s, docs) ==
    IF Bad(s) \/ docs = <<>> \/ Top(s).k \notin DefKinds THEN s
    ELSE [s EXCEPT !.out = Append(Front(@), Node("Doc", docs, <<Top(s)>>))]

Vis(s) == IF ~At(s, "pub") THEN "private"
          ELSE IF s.in[2] = "(" THEN "module" ELSE "public"
SkipVis(s) == CASE Vis(s) = "private" -> s
                [] Vis(s) = "public" -> Bump(s)
                [] OTHER -> Expect(Expect(Bump(Bump(s)), "mod"), ")")
AnnsOf(s) == Wrap(s, Annotations(s), 0, "Anns", <<>>)
BodyIfAny(s) == IF At(s, "{") THEN ParseBlock(s) ELSE s
ParseMethod(s0, s) ==
    LET i == Ident(Bump(s))
    IN IF Bad(i) THEN i
       ELSE Wrap(s0, BodyIfAny(AnnsOf(Return(Params([i EXCEPT !.out = s0.out]), TRUE))), 0, "Method",
                 <<Vis(s0), Top(i).v[1]>>)
ParseField(s0, s) ==
    LET i == Ident(s)
    IN IF Bad(i) THEN i
       ELSE Wrap(s0, ParseType(Expect([i EXCEPT !.out = s0.out], ":")), 0, "FieldDecl",
                 <<Vis(s0), Top(i).v[1]>>)
Member(s) == IF At(SkipVis(s), "fn") THEN ParseMethod(s, SkipVis(s)) ELSE ParseField(s, SkipVis(s))
DocMember(s, docs) ==
    IF Bad(s) \/ docs = <<>> THEN s
    ELSE [s EXCEPT !.out = Append(Front(@), Node("Doc", docs, <<Top(s)>>))]
RECURSIVE Members(_), ImplFns(_)
Members(s) ==
    IF Bad(s) \/ At(TakeDocs(s), "}") THEN Bump(TakeDocs(s))
    ELSE Members(Eat(DocMember(Member(TakeDocs(s)), Docs(s)), ","))
ParseClass(s) ==
    LET n == Expect(Ident(Bump(s)), "{")
    IN IF Bad(n) THEN n ELSE Define(s, Members([n EXCEPT !.out = s.out]), "ClassDef", Top(n).v, <<>>)

Ops == {"Add", "Sub", "Mul", "Div", "Rem", "Neg", "Eq", "Cmp", "Index"}
\* A function of an `impl` has a body, also when it is @builtin.
ImplFn(s, n) ==
    IF Bad(n) THEN n
    ELSE LET r == Return(Params([n EXCEPT !.out = s.out]), TRUE)
             a == Annotations(r)
         IN Define(s, ParseBlock([a EXCEPT !.out = r.out]), "FnDef", Top(n).v, AnnNodes(r, a))
ImplFns(s) == IF Bad(s) \/ At(s, "}") THEN Bump(s)
              ELSE ImplFns(ImplFn(s, Ident(Expect(s, "fn"))))
ParseImpl(s) ==
    LET o == Expect(Expect(Bump(s), "ops"), "::")
        t == Expect(Ident(Expect(Bump(o), "for")), "{")
    IN IF Bad(t) \/ Peek(o) \notin Ops THEN Fail(t, "E0010")
       ELSE Wrap(s, ImplFns([t EXCEPT !.out = s.out]), 0, "Impl", <<Peek(o), Top(t).v[1]>>)

RECURSIVE Elifs(_), ElseOfLet(_, _)
LetHead(s) == ParseScrutinee(Expect(ParsePattern(s), "="))
ParseWhile(s) ==
    IF At(Bump(s), "let") THEN Wrap(s, ParseBlock(LetHead(Bump(Bump(s)))), 0, "WhileLet", <<>>)
    ELSE Wrap(s, ParseBlock(ParseScrutinee(Bump(s))), 0, "While", <<>>)
\* `else if` after `if let` is read as another `if let`, in a block of its own.
ElseOfLet(s0, s) ==
    IF ~At(s, "else") THEN Wrap(s0, s, 0, "IfLet", <<>>)
    ELSE IF At(Bump(s), "if")
    THEN LET r == Bump(Bump(s))
         IN Wrap(s0, Wrap(r, ElseOfLet(r, ParseBlock(LetHead(r))), 0, "Block", <<>>),
                 0, "IfLet", <<>>)
    ELSE Wrap(s0, ParseBlock(Bump(s)), 0, "IfLet", <<>>)
Elifs(s) ==
    IF ~At(s, "else") THEN s
    ELSE IF At(Bump(s), "if") THEN Elifs(ParseBlock(ParseScrutinee(Bump(Bump(s)))))
    ELSE ParseBlock(Bump(s))
ParseIf(s) ==
    IF At(Bump(s), "let") THEN ElseOfLet(s, ParseBlock(LetHead(Bump(Bump(s)))))
    ELSE Wrap(s, Elifs(ParseBlock(ParseScrutinee(Bump(s)))), 0, "If", <<>>)

ParseFor(s, k) ==
    LET r == ParseScrutinee(Expect(ParseExpr(Expect(Ident(Bump(s)), "in")), ".."))
    IN Wrap(s, ParseBlock(IF At(r, "step") THEN ParseScrutinee(Bump(r)) ELSE r), 0, k, <<>>)
ParseReturn(s) ==
    LET r == Bump(s)
    IN IF At(r, ";") \/ At(r, "}") \/ At(r, "eof") THEN Push(r, Node("Return", <<>>, <<>>))
       ELSE Wrap(s, ParseExpr(r), 0, "Return", <<>>)

RECURSIVE ConfigEntries(_), CustomItems(_)
CustomItems(s) ==
    IF Bad(s) \/ At(s, "}") THEN Bump(s)
    ELSE LET p == ParseExpr(s)
             v == ParseExpr(IF At(p, ":=") THEN Bump(p) ELSE Expect(p, "="))
         IN CustomItems(Eat(Wrap(s, v, 0, "Rule", <<>>), ","))
ConfigValue(s) ==
    IF At(s, "custom") /\ s.in[2] = "{" THEN Wrap(s, CustomItems(Bump(Bump(s))), 0, "Custom", <<>>)
    ELSE ParseExpr(s)
ConfigType(s) == IF At(s, ":=") THEN Bump(s)
                 ELSE IF At(s, ":") /\ s.in[2] # "=" THEN Expect(ParseType(Bump(s)), "=")
                 ELSE Expect(Eat(s, ":"), "=")
ConfigEntries(s) ==
    IF Bad(s) \/ At(s, "}") THEN Bump(s)
    ELSE ConfigEntries(Eat(Wrap(s, ConfigValue(ConfigType(Ident(s))), 0, "ConfigEntry", <<>>), ","))
Config(s) == Wrap(s, ConfigEntries(Expect(s, "{")), 0, "Config", <<>>)
ParseWith(s) == Wrap(s, ParseBlock(Config(Expect(Bump(s), "config"))), 0, "WithConfig", <<>>)

ParseAssign(s) ==
    LET t == ParseExpr(s)
    IN IF Bad(t) \/ Peek(t) \notin {"=", "+=", "-="} THEN Wrap(s, t, 0, "Expr", <<>>)
       ELSE Wrap(s, ParseExpr(Bump(t)), 0, "Assign", <<Peek(t)>>)

\* Annotations before a class also mark each of its methods when one is @builtin.
Annotated(n, anns) ==
    LET all == [n.c[Len(n.c)] EXCEPT !.c = @ \o anns]
        tag == SelectSeq(anns, LAMBDA a : a.v[1] = "builtin")
        mark(m) == CASE m.k = "Method" -> [m EXCEPT !.c[3].c = @ \o tag]
                     [] m.k = "Doc" /\ m.c[1].k = "Method" -> [m EXCEPT !.c[1].c[3].c = @ \o tag]
                     [] OTHER -> m
    IN [n EXCEPT !.c = [i \in DOMAIN n.c |-> IF i = Len(n.c) THEN all ELSE mark(n.c[i])]]
ApplyAnnotations(s, anns) ==
    IF Bad(s) \/ anns = <<>> THEN s
    ELSE IF Top(s).k \notin {"FnDef", "MathDef", "ClassDef"} THEN Fail(s, "E0010")
    ELSE [s EXCEPT !.out = Append(Front(@), Annotated(Top(s), anns))]

Published(s, anns) ==
    IF At(s, "fn") THEN ParseFn(s, anns)
    ELSE IF ~Bad(s) /\ Peek(s) \in {"let", "const", "class"}
         THEN ApplyAnnotations(Rule("stmt", <<>>, s), anns)
    ELSE Fail(s, "E0010")
ParsePub(s, anns, docs) ==
    Wrap(s, Attach(Published(SkipVis(s), anns), docs), 0, "Pub", <<>>)

Bare(n) == IF n.k \in {"Pub", "Doc"} THEN n.c[1] ELSE n
ParseBare(s, anns, docs) ==
    CASE Bad(s) -> s
      [] Peek(s) = "let" -> ParseLet(s)
      [] Peek(s) = "const" -> ParseConst(s)
      [] Peek(s) = "fn" -> ParseFn(s, anns)
      [] Peek(s) = "class" -> ParseClass(s)
      [] Peek(s) = "impl" -> ParseImpl(s)
      [] Peek(s) = "for" -> ParseFor(s, "For")
      [] Peek(s) = "parfor" -> ParseFor(s, "ParFor")
      [] Peek(s) = "while" -> ParseWhile(s)
      [] Peek(s) = "if" -> ParseIf(s)
      [] Peek(s) = "match" -> ParseMatch(Bump(s))
      [] Peek(s) = "return" -> ParseReturn(s)
      [] Peek(s) = "try" -> Fail(s, "E0010")
      [] Peek(s) = "with" -> ParseWith(s)
      [] Peek(s) = "pub" -> ParsePub(s, anns, docs)
      [] OTHER -> ParseAssign(s)
Terminated(s) ==
    IF Bad(s) THEN s
    ELSE IF Bare(Bare(Top(s))).k \in BlockKinds THEN Eat(s, ";")
    ELSE IF Top(s).k = "Pub" THEN s
    ELSE EndStatement(s)
\* A function has put its annotations on itself.
Marked(s, anns, docs) ==
    IF Bad(s) \/ Top(s).k = "Pub" THEN s
    ELSE Attach(IF Top(s).k = "FnDef" THEN s ELSE ApplyAnnotations(s, anns), docs)
Annotating(s, a, docs) ==
    Terminated(Marked(ParseBare([a EXCEPT !.out = s.out], AnnNodes(s, a), docs), AnnNodes(s, a), docs))
ParseStmt(s, docs) ==
    Annotating(s, Annotations(s), docs)

RECURSIVE Stmts(_)
\* Docs before a `}` and module docs in a block document nothing.
Stmts(s) ==
    IF ~Bad(s) /\ Peek(s) \in ModuleDocs THEN Stmts(Bump(s))
    ELSE IF Bad(s) \/ At(TakeDocs(s), "}") THEN Bump(TakeDocs(s))
    ELSE Stmts(Rule("stmt", Docs(s), TakeDocs(s)))
BlockRule(s) == Leave(Wrap(s, Stmts(Expect(Enter(s), "{")), 0, "Block", <<>>))

-----------------------------------------------------------------------------
(* Programs: module docs, a config block, imports, then statements.          *)

Alias(s) == IF At(s, "as") THEN Ident(Bump(s)) ELSE s
RECURSIVE ImportItems(_), Program(_)
ImportItems(s) ==
    LET i == Wrap(s, Alias(Ident(s)), 0, "ImportItem", <<>>)
    IN IF At(i, ",") THEN ImportItems(Bump(i)) ELSE i
ParseImport(s, docs) ==
    LET p == ModulePath(Bump(s))
        r == IF At(s, "import") THEN Wrap(s, Alias(p), 0, "Import", docs)
             ELSE LET i == Expect(p, "import")
                  IN Wrap(s, IF At(i, "*") THEN PLeaf(i, "Star") ELSE ImportItems(i), 0, "From", docs)
    IN EndStatement(r)

Begun(s) == \E n \in ToSet(s.out) : n.k # "ModuleDoc"
Begins(s) == \E n \in ToSet(s.out) : n.k \notin {"ModuleDoc", "ConfigBlock", "Import", "From"}
Program(s) ==
    IF Bad(s) \/ At(s, "eof") THEN s
    ELSE IF Peek(s) \in ModuleDocs
         THEN Program(IF s.out # <<>> THEN TakeRun(s, ModuleDocs)
                      ELSE Push(TakeRun(s, ModuleDocs), Node("ModuleDoc", LinesOf(s, ModuleDocs), <<>>)))
    ELSE IF At(TakeDocs(s), "config")
         THEN IF Begun(s) THEN Fail(s, "E0020")
              ELSE Program(Wrap(s, Config(Bump(TakeDocs(s))), 0, "ConfigBlock", <<>>))
    ELSE IF At(TakeDocs(s), "import") \/ At(TakeDocs(s), "from")
         THEN IF Begins(s) THEN Fail(s, "E0010") ELSE Program(ParseImport(TakeDocs(s), Docs(s)))
    ELSE IF At(TakeDocs(s), "eof") THEN TakeDocs(s)
    ELSE Program(Rule("stmt", Docs(s), TakeDocs(s)))

Rule(what, arg, s) ==
    CASE Bad(s) -> s
      [] what = "expr" -> ExprRule(s, arg)
      [] what = "pattern" -> PatternRule(s)
      [] what = "type" -> TypeRule(s)
      [] what = "param" -> ParseParam(s, TRUE)
      [] what = "lambda param" -> ParseParam(s, FALSE)
      [] what = "stmt" -> ParseStmt(s, arg)
      [] what = "block" -> BlockRule(s)
      [] what = "program" -> Program(s)

\* A text is parsed when it lexes and the program ends where the text does.
Parse(text) == Rule("program", 0, NewParser(Lex(text)))
=============================================================================
