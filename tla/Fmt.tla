-------------------------------- MODULE Fmt ---------------------------------
(* `prima fmt` over one file: read, parse, print, then show the text, compare *)
(* it with the file (--check) or write it back (--write).  The tool is run    *)
(* any number of times; nobody else touches the file while it runs.           *)
EXTENDS Parser, Printer

CONSTANTS Texts        \* the files the tool is run on

VARIABLES file,        \* the text of the file
          mode,        \* what this run of the tool was asked for
          phase,       \* "idle", "read" or "parsed"
          program,     \* the nodes of the program of this run
          exit         \* how the last run ended

vars == <<file, mode, phase, program, exit>>

Modes == {"print", "check", "write"}

Init ==
    /\ file \in Texts
    /\ mode = "print"
    /\ phase = "idle"
    /\ program = <<>>
    /\ exit = "none"

Start(m) ==
    /\ phase = "idle"
    /\ mode' = m
    /\ phase' = "read"
    /\ UNCHANGED <<file, program, exit>>

\* The parser ends with an error: it is reported and the file left alone.
SyntaxErrors ==
    /\ phase = "read"
    /\ Bad(Parse(file))
    /\ exit' = "failure"
    /\ phase' = "idle"
    /\ UNCHANGED <<file, mode, program>>

Parsed ==
    /\ phase = "read"
    /\ ~Bad(Parse(file))
    /\ program' = Parse(file).out
    /\ phase' = "parsed"
    /\ UNCHANGED <<file, mode, exit>>

Check ==
    /\ phase = "parsed"
    /\ mode = "check"
    /\ exit' = IF FormatProgram(program) = file THEN "success" ELSE "failure"
    /\ phase' = "idle"
    /\ program' = <<>>
    /\ UNCHANGED <<file, mode>>

Write ==
    /\ phase = "parsed"
    /\ mode = "write"
    /\ file' = FormatProgram(program)
    /\ exit' = "success"
    /\ phase' = "idle"
    /\ program' = <<>>
    /\ UNCHANGED mode

Show ==
    /\ phase = "parsed"
    /\ mode = "print"
    /\ exit' = "success"
    /\ phase' = "idle"
    /\ program' = <<>>
    /\ UNCHANGED <<file, mode>>

Next == (\E m \in Modes : Start(m)) \/ SyntaxErrors \/ Parsed \/ Check \/ Write \/ Show

Spec == Init /\ [][Next]_vars

-----------------------------------------------------------------------------
\* An accepted text is used up, and leaves the recursion budget as it was and
\* struct literals allowed: every rule that takes a level or sets the switch
\* gives it back, on each of its ways out.
ParserBalanced ==
    phase = "parsed" =>
        LET s == Parse(file)
        IN s.in = <<"eof">> /\ s.nest = 0 /\ ~s.noStruct /\ s.out = program

(* The shapes the printer is known to change.                                *)
RECURSIVE NodesOf(_), EndsInLambda(_), FirstPart(_), Height(_)
NodesOf(n) == {n} \cup UNION {NodesOf(n.c[i]) : i \in DOMAIN n.c}
Nodes(p) == UNION {NodesOf(p[i]) : i \in DOMAIN p}
Height(n) == 1 + Max({0} \cup {Height(n.c[i]) : i \in DOMAIN n.c})
PostfixKinds == {"Call", "MethodCall", "Field", "Index", "Try"}
\* The body of a lambda goes on as far as the tokens do.
EndsInLambda(e) ==
    \/ e.k = "Lambda"
    \/ e.k = "Binary" /\ RootPrec(e.c[2]) >= BinopRbp(e.v[1]) /\ EndsInLambda(e.c[2])
    \/ e.k = "Unary" /\ RootPrec(e.c[1]) >= PrinterUnaryBp /\ EndsInLambda(e.c[1])
\* The innermost expression that begins where the text of e does.
FirstPart(e) ==
    IF \/ e.k \in PostfixKinds /\ RootPrec(e.c[1]) = AtomBp
       \/ e.k = "Binary" /\ RootPrec(e.c[1]) >= LeftMin(e.v[1])
    THEN FirstPart(e.c[1]) ELSE e

LosesParentheses(n) ==
    \/ n.k \in PostfixKinds /\ n.c[1].k \in {"Lambda", "StructLiteral"}  \* (|x| x)(1), (T { x }).f
    \/ n.k = "Call" /\ n.c[1].k = "Field"                          \* (x.f)(1), a method call without
    \/ /\ n.k = "Binary" /\ EndsInLambda(n.c[1])                   \* (|x| x) + 1
       /\ RootPrec(n.c[1]) >= LeftMin(n.v[1])
    \/ n.k = "Expr" /\ FirstPart(n.c[1]).k = "Match"               \* (match x { .. }).f;
    \/ n.k = "Assign" /\ RootPrec(n.c[1]) = AtomBp /\ FirstPart(n.c[1]).k = "Match"
    \/ /\ n.k = "ConfigEntry" /\ FirstPart(Last(n.c)).k = "StructLiteral"
       /\ FirstPart(Last(n.c)).c[1].v = <<"custom">>               \* x := (custom { y })
LosesATree(n) ==
    \/ n.k = "Symbol"                                              \* \pi, printed pi
    \/ n.k = "Variant" /\ n.c = <<>>                               \* T(), printed T
    \/ n.k = "Tuple" /\ Len(n.c) = 1                               \* (x,), printed (x)
    \/ n.k = "Lambda" /\ Len(n.c) = 1                              \* | | x, printed || x
    \/ n.k = "Interp" /\ n.v # <<>> /\ Last(Expr0(n.c[1])) = "}"   \* a blank joins the format spec
    \/ n.k = "MathDef" /\ n.c[2].c # <<>>                          \* the result type, printed ->
    \/ n.k = "Method" /\ (n.c[3].c # <<>> \/ Len(n.c) = 3)         \* annotations before fn; `;` for a body
    \/ n.k = "Impl" /\ \E i \in DOMAIN n.c : n.c[i].c[4].c # <<>>
Kept(p) == \A n \in Nodes(p) : ~LosesParentheses(n) /\ ~LosesATree(n)

\* Trees whose text can take more of the parser's budgets than the file did: a
\* signed exponent is printed in parentheses, `else if let` as a nested block,
\* and a group that loses its parentheses no longer starts to count afresh.
MayOutgrow(p) ==
    \E n \in Nodes(p) :
        \/ n.k = "Binary" /\ n.v = <<"^">> /\ n.c[2].k = "Unary"
        \/ n.k = "IfLet"
        \/ Height(n) > MaxExprDepth

SameProgram(r) == ~Bad(r) /\ r.out = program

\* What `--write` leaves in the file parses to the tree the file had before
\* (fmt.rs:6-9), for every program with none of the shapes above; one of those
\* that may outgrow the parser's budgets can be refused for that, and only that.
WriteKeepsProgram ==
    [][phase = "parsed" /\ mode = "write" /\ Kept(program) =>
         \/ SameProgram(Parse(file'))
         \/ MayOutgrow(program) /\ Parse(file').err = "E0012"]_vars

\* "Parentheses are re-inserted from operator precedence when the AST would
\* otherwise re-parse to a different tree" (fmt.rs:6-9): a program that loses
\* something only has other reasons to.
ParenthesesReinserted ==
    [][phase = "parsed" /\ mode = "write" /\ (\A n \in Nodes(program) : ~LosesATree(n)) =>
         SameProgram(Parse(file')) \/ Parse(file').err = "E0012"]_vars

\* "`prima fmt` re-emits strings/f-strings losslessly and idempotently"
\* (docs/CHANGELOG.md:504): printing what was written prints it once more.
FStringsIdempotent ==
    [][phase = "parsed" /\ mode = "write" /\ (\E n \in Nodes(program) : n.k = "Interp") =>
         LET r == Parse(file') IN ~Bad(r) /\ FormatProgram(r.out) = file']_vars
=============================================================================
