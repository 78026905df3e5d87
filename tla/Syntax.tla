------------------------------- MODULE Syntax -------------------------------
(* The lexer and the parser of prima-syntax: texts, tokens and syntax trees. *)
(*                                                                           *)
(* A text is a sequence of atoms: words, numbers, operator characters, " "   *)
(* and newlines; the spelling of a word or of a literal is abstracted to one *)
(* atom.  Newlines are layout (statements end with `;`): the lexer drops     *)
(* them, so the places where a rule of the parser refuses one are left out.  *)
(* A tree is a node [k: kind, v: labels, c: children].  The parser is a      *)
(* function of its own state: the tokens left, the nodes finished (a stack), *)
(* the depth of the last expression, the recursion budget used, the          *)
(* struct-literal switch and the first error.  Every rule leaves one node.   *)
EXTENDS Integers, SequencesExt

CONSTANTS Names,           \* the words that are not keywords
          Literals,        \* the literals of a text, as atoms
          Strings,         \* those among them that are strings
          MaxExprDepth,    \* MAX_EXPR_DEPTH, 2000 in the code
          MaxRecursion     \* MAX_PARSE_RECURSION, 512 in the code

ASSUME LimitsAssumption == MaxExprDepth \in Nat \ {0} /\ MaxRecursion \in Nat \ {0}

Keywords == {"let", "mut", "const", "fn", "return", "for", "in", "while", "if",
             "else", "step", "class", "self", "Self", "try", "match", "parfor",
             "config", "with", "pub", "import", "from", "as", "impl", "true", "false"}
Word(a) == a \in Names \cup Keywords
\* The TeX symbols; the token, and with it the tree, has the name alone.
SymbolName == [s \in {"\\pi"} |-> "pi"]
Symbols == DOMAIN SymbolName
DocLines == {"/// d"}        \* a line of documentation
ModuleDocs == {"//! m", "//! n"}   \* lines of documentation of the module

-----------------------------------------------------------------------------
(* The lexer.  Operators are read by longest match, so two atoms that stand  *)
(* side by side may be one token.                                            *)

Munch == [p \in {<<"|", "|">>, <<"|", ">">>, <<"-", ">">>, <<"=", "=">>, <<"=", ">">>,
                 <<":", ":">>, <<":", "=">>, <<".", ".">>, <<"..", "=">>, <<"*", "*">>,
                 <<"@", ".">>, <<"!", "=">>, <<"<", "=">>, <<">", "=">>, <<"+", "=">>,
                 <<"-", "=">>, <<"&", "&">>} |->
          CASE p = <<"|", "|">> -> "||"  [] p = <<"|", ">">> -> "|>"
            [] p = <<"-", ">">> -> "->"  [] p = <<"=", "=">> -> "=="
            [] p = <<"=", ">">> -> "=>"  [] p = <<":", ":">> -> "::"
            [] p = <<":", "=">> -> ":="  [] p = <<".", ".">> -> ".."
            [] p = <<"..", "=">> -> "..=" [] p = <<"*", "*">> -> "**"
            [] p = <<"@", ".">> -> "@."  [] p = <<"!", "=">> -> "!="
            [] p = <<"<", "=">> -> "<="  [] p = <<">", "=">> -> ">="
            [] p = <<"+", "=">> -> "+="  [] p = <<"-", "=">> -> "-="
            [] OTHER -> "&&"]

\* The token atom i belongs to, as far as it is read when i is; a blank is part
\* of none.  A token ends where the next atom does not make it a longer one.
LexAll(text) ==
    LET read[i \in DOMAIN text] ==
            IF text[i] \in {" ", "\n"} THEN ""
            ELSE IF i = 1 THEN text[i]
            ELSE IF <<read[i - 1], text[i]>> \in DOMAIN Munch THEN Munch[<<read[i - 1], text[i]>>]
            ELSE IF Word(text[i]) /\ Word(read[i - 1]) THEN "error" ELSE text[i]
        Ends(i) == i = Len(text) \/ <<read[i], text[i + 1]>> \notin DOMAIN Munch
    IN SelectSeq([i \in DOMAIN text |-> IF Ends(i) THEN read[i] ELSE ""], LAMBDA t : t # "")

\* The end of the interpolation that starts at i: the first `}` at depth 0.
InterpEnd(text, i) ==
    LET Depth(j) == Len(SelectSeq(SubSeq(text, i, j), LAMBDA a : a = "{"))
                    - Len(SelectSeq(SubSeq(text, i, j), LAMBDA a : a = "}"))
        ends == {j \in i..Len(text) : text[j] = "}" /\ Depth(j) = -1}
    IN IF ends = {} THEN 0 ELSE CHOOSE j \in ends : \A k \in ends : j <= k

\* The first colon at depth 0 that no colon follows: it starts the format
\* spec.  The scan sees characters, so the second colon of `::` is one.
SpecColon(text, i, end) ==
    LET Depth(j) == Len(SelectSeq(SubSeq(text, i, j), LAMBDA a : a = "{"))
                    - Len(SelectSeq(SubSeq(text, i, j), LAMBDA a : a = "}"))
        cs == {j \in i..(end - 1) : text[j] \in {":", "::"} /\ Depth(j) = 0}
    IN IF cs = {} THEN 0 ELSE CHOOSE j \in cs : \A k \in cs : j <= k

\* The tokens of an interpolation: `f{`, its expression, `f:` and the spec when
\* there is one, `f}`.
LexInterp(text, i, end) ==
    LET c == SpecColon(text, i, end)
        body == IF c = 0 THEN SubSeq(text, i, end - 1)
                ELSE SubSeq(text, i, c - 1) \o (IF text[c] = "::" THEN <<":">> ELSE <<>>)
        spec == IF c = 0 THEN <<>> ELSE <<"f:">> \o SubSeq(text, c + 1, end - 1)
    IN <<"f{">> \o LexAll(body) \o spec \o <<"f}">>

RECURSIVE LexFString(_, _), Lex(_)
\* An f-string body from atom i to its closing quote, then the rest of the text.
LexFString(text, i) ==
    IF i > Len(text) THEN <<"error">>
    ELSE IF text[i] = "\"" THEN <<"f>">> \o Lex(SubSeq(text, i + 1, Len(text)))
    ELSE IF text[i] \in {"{", "}"} /\ i < Len(text) /\ text[i + 1] = text[i]
         THEN <<"f.", text[i]>> \o LexFString(text, i + 2)
    ELSE IF text[i] = "}" \/ (text[i] = "{" /\ InterpEnd(text, i + 1) = 0) THEN <<"error">>
    ELSE IF text[i] = "{"
         THEN LexInterp(text, i + 1, InterpEnd(text, i + 1))
              \o LexFString(text, InterpEnd(text, i + 1) + 1)
    ELSE <<"f.", text[i]>> \o LexFString(text, i + 1)

Lex(text) ==
    IF ~Contains(text, "f\"") THEN LexAll(text)
    ELSE LET q == SelectInSeq(text, LAMBDA a : a = "f\"")
         IN LexAll(SubSeq(text, 1, q - 1)) \o <<"f<">> \o LexFString(text, q + 1)

-----------------------------------------------------------------------------
(* The parser's state and its cursor.                                        *)

Node(k, v, c) == [k |-> k, v |-> v, c |-> c]

NewParser(toks) ==
    [in |-> Append(toks, "eof"), out |-> <<>>, d |-> 0, nest |-> 0,
     noStruct |-> FALSE, err |-> ""]

Bad(s) == s.err # ""
Fail(s, e) == IF Bad(s) THEN s ELSE [s EXCEPT !.err = e]
Peek(s) == Head(s.in)
At(s, t) == ~Bad(s) /\ Peek(s) = t
Bump(s) == IF Bad(s) \/ Len(s.in) = 1 THEN s ELSE [s EXCEPT !.in = Tail(@)]
Expect(s, t) == IF At(s, t) THEN Bump(s) ELSE Fail(s, "E0010")
Eat(s, t) == IF At(s, t) THEN Bump(s) ELSE s
Push(s, n) == IF Bad(s) THEN s ELSE [s EXCEPT !.out = Append(@, n)]

\* The nodes finished since s0, and the `under` nodes below them, become one.
Wrap(s0, s, under, k, v) ==
    IF Bad(s) THEN s
    ELSE LET n == Len(s0.out) - under
         IN [s EXCEPT !.out = Append(SubSeq(s.out, 1, n),
                                     Node(k, v, SubSeq(s.out, n + 1, Len(s.out))))]

Max2(a, b) == IF a > b THEN a ELSE b
Deeper(s0, s) == [s EXCEPT !.d = Max2(s0.d, s.d)]
SetDepth(s, d) == IF d > MaxExprDepth THEN Fail(s, "E0012") ELSE [s EXCEPT !.d = d]
Enter(s) == IF s.nest >= MaxRecursion THEN Fail(s, "E0012") ELSE [s EXCEPT !.nest = @ + 1]
Leave(s) == [s EXCEPT !.nest = @ - 1]

\* A name, left as a leaf node.
Ident(s) ==
    IF Bad(s) THEN s
    ELSE IF Peek(s) \in Names THEN Bump(Push(s, Node("Name", <<Peek(s)>>, <<>>)))
    ELSE Fail(s, "E0010")

SymbolLeaf(s, k) == Bump(Push(s, Node(k, <<SymbolName[Peek(s)]>>, <<>>)))
\* A segment of a path may be a symbol.
Segment(s) == IF ~Bad(s) /\ Peek(s) \in Symbols THEN SymbolLeaf(s, "Name") ELSE Ident(s)
RECURSIVE Segments(_)
Segments(s) == IF At(s, "::") THEN Segments(Segment(Bump(s))) ELSE s
\* The labels of the nodes finished since s0, as the labels of one node.
Labels(s0, s, k) ==
    IF Bad(s) THEN s
    ELSE LET ns == SubSeq(s.out, Len(s0.out) + 1, Len(s.out))
         IN [s EXCEPT !.out = Append(s0.out,
                Node(k, [i \in DOMAIN ns |-> ns[i].v[1]], <<>>))]
ModulePath(s) == Labels(s, Segments(Segment(s)), "Path")

Top(s) == Last(s.out)
=============================================================================
