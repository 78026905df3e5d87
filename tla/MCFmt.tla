------------------------------- MODULE MCFmt --------------------------------
(* Instances of Fmt: every expression of two levels over one name and one     *)
(* number, written with all its parentheses, a program for each form of       *)
(* statement, and one for each shape the printer changes.                     *)
EXTENDS Fmt

McNames == {"x", "y", "f", "p", "T", "m", "mod", "ops", "Add", "parallel", "builtin", "c_api", "extern",
            "O0", "O1", "custom", "pi", "Array", "Result", "Option", "Tuple", "Fn", "MFn",
            "Integer", "Bool"}
McLiterals == {"0", "1", "2", "'s'"}
McStrings == {"'s'"}

Group(t) == <<"(">> \o t \o <<")">>
Atoms == {<<"x">>, <<"1">>}
Operators(S, R) ==
    {Group(<<u>> \o a) : u \in {"-", "!"}, a \in S}
    \cup {Group(a \o <<" ", o, " ">> \o b) : o \in {"||", "==", "+", "*", "^"}, a \in S, b \in R}
Chains(S) ==
    UNION {{a \o <<"(", "1", ")">>, a \o <<".", "f">>, a \o <<".", "f", "(", "x", ")">>,
            a \o <<"[", "1", "]">>, a \o <<"?">>} : a \in S}
Containers(S) ==
    UNION {{<<"[">> \o a \o <<",", "1", "]">>, <<"{">> \o a \o <<"}">>, <<"(">> \o a \o <<",", "1", ")">>,
            <<"{", "1", ":">> \o a \o <<"}">>, <<"p", "[">> \o a \o <<"..", "]">>, <<"p", "[", "..">> \o a \o <<"]">>,
            <<"[">> \o a \o <<" ", "for", " ", "y", " ", "in", " ">> \o a \o <<" ", "if", " ", "y", "]">>,
            <<"{", "1", ":">> \o a \o <<" ", "for", " ", "y", " ", "in", " ", "p", "}">>,
            <<"T", "{", "x", ",", "y", ":">> \o a \o <<",", "..", "p", "}">>,
            <<"f\"", "s", "{", "{", "{">> \o a \o <<"}", "\"">>} : a \in S}
Templates(S) == UNION {{<<"f\"", "{">> \o a \o <<":", "x", "}", "}", "}", "\"">>,
                        <<"f\"", "{", " ", "{">> \o a \o <<"}", " ", "}", "\"">>} : a \in S}
One == Operators({<<"x">>}, Atoms)
Two == Operators(One \cup Atoms, One \cup {<<"x">>}) \cup Chains(One \cup Atoms)
       \cup Containers(One) \cup Templates(One \cup Atoms) \cup Chains(Containers({<<"x">>}))
       \cup Containers(Containers({<<"x">>}) \ {t \in Containers({<<"x">>}) : Head(t) = "f\""})
Closures == {<<"|", "x", ",", "y", ":", "Integer", "|">> \o a : a \in One}
            \cup {<<"match", " ">> \o a \o <<"{", "_", "=>">> \o a \o <<"}">> : a \in One}
            \cup {Group(<<"match", " ", "x", "{", "1", "=>", "x", "}">>) \o <<".", "f">>}

Let(a) == <<"let", " ", "y", "=">> \o a \o <<";">>
Expressions == {Let(a) : a \in Two \cup Closures}

Times(k, t) == FlattenSeq([i \in 1..k |-> t])
\* Texts within the budgets and beyond them.
Nested == {Let(Times(k, <<"(">>) \o <<"x">> \o Times(k, <<")">>)) : k \in {MaxRecursion \div 2, MaxRecursion + 1}}
          \cup {Let(<<"x">> \o Times(k, <<" ", "+", " ", "x">>)) : k \in {MaxExprDepth \div 2, MaxExprDepth + 1}}

Body == <<"{", "f", "(", "x", ")", "}">>
Forms == {
    <<"let", " ", "mut", " ", "x", ":", "Array", "<", "Result", "<", "Integer", ",", "T", ">", ">", " ", "=", "x", ";">>,
    <<"/// d", "\n", "pub", " ", "let", " ", "f", "(", "x", ",", "y", ":", "Integer", ")", "=", "x", ";">>,
    <<"let", " ", "(", "x", ",", "[", "y", ",", "..", "]", ")", "=", "p", ";">>,
    <<"let", " ", "T", "{", "x", ",", "y", ":", "p", ",", "..", "}", "=", "p", ";">>,
    <<"pub", " ", "const", " ", "x", ":", "Fn", "(", "Integer", ",", "T", ")", "->", "Bool", "=", "y", ";">>,
    <<"@", "parallel", " ", "/// d", "\n", "x", ";">>,
    <<"/// d", "\n", "@", "parallel", " ", "pub", " ", "fn", " ", "f", "(", "x", ":", "Integer", ")", "->", "Integer", "@", "jit"
      , "{", "return", " ", "x", ";", "}">>,
    <<"@", "builtin", " ", "fn", " ", "T", "::", "f", "(", ")", ";", "x", ";">>,
    <<"@", "builtin", "(", "O1", ")", " ", "fn", " ", "f", "(", ")", ":", "Integer", Body[1], "}">>,
    <<"/// d", "\n", "class", " ", "T", "{", "/// d", "\n", "pub", "(", "mod", ")", "x", ":", "Option", "<", "T", ">", ",",
      "pub", " ", "fn", " ", "f", "(", "self", ",", "y", ":", "Integer", ")", ":", "Integer">> \o Body \o <<"}", "x", ";">>,
    <<"impl", " ", "ops", "::", "Add", " ", "for", " ", "T", "{", "fn", " ", "f", "(", "self", ")">> \o Body \o <<"}">>,
    <<"for", " ", "x", " ", "in", " ", "1", "..", "p", " ", "step", " ", "2">> \o Body,
    <<"parfor", " ", "x", " ", "in", " ", "1", "..", "2">> \o Body \o <<"p", "[", "x", "]", "+=", "1", ";">>,
    <<"while", " ", "x", "==", "1", "{", "while", " ", "let", " ", "Option", "(", "_", ")", "=", "p">> \o Body \o <<"}">>,
    <<"if", " ", "x">> \o Body \o <<"else", " ", "if", " ", "y">> \o Body \o <<"else">> \o Body \o <<";", "x", "=", "1">>,
    <<"if", " ", "let", " ", "1", "..=", "2", "=", "x">> \o Body \o <<"else", " ", "if", " ", "-", "1", "|", "'s'", "=", "y">>
      \o Body \o <<"else">> \o Body,
    <<"match", " ", "x", "{", "1", "..", "2", " ", "if", " ", "y", "=>", "x", ",", "T", "(", "y", ",", "_", ")", "=>", "y", ";", "true", "=>", "1", "}">>,
    <<"fn", " ", "f", "(", ")", "{", "/// d", "\n", "x", ";", "return", "}">>,
    <<"with", " ", "config", "{", "x", ":=", "1", ",", "y", ":", "Bool", "=", "true", "}">> \o Body,
    <<"//! m", "\n", "//! n", "\n", "config", "{", "x", "=", "custom", "{", "x", ":=", "1", ",", "y", "=", "x", "}", "}",
      "/// d", "\n", "import", " ", "m", "::", "p", " ", "as", " ", "x", ";", "from", " ", "m", " ", "import", " ", "x", " ", "as", " ", "y", ",", "p", ";",
      "from", " ", "m", " ", "import", " ", "*", ";", "let", " ", "x", "=", "m", "::", "x", ";">>,
    <<"import", " ", "m", "::", "\\pi", ";", "//! n", "\n", "//! m", "\n", "let", " ", "\\pi", "=", "m", "::", "\\pi", ";">>,
    <<"match", " ", "x", "{", "\\pi", "=>", "1", "}">>,
    \* signed exponents: within the budget as written, beyond it as printed
    Let(<<"x">> \o Times(4, <<"^", "-", "x">>)),
    \* files with a syntax error
    <<"impl", " ", "ops", "::", "Add", " ", "for", " ", "T", "{", "fn", " ", "f", "(", "self", ")", "@", "builtin", ";", "}">>,
    <<"let", " ", "x", "=", "1", "let", " ", "y", "=", "1", ";">>,
    <<"x", ";", "import", " ", "m", ";">>,
    <<"x", "|>", "f", ";">>,
    <<"config", "{", "}", "config", "{", "}">>,
    <<"let", " ", "y", "=", "(", "x", ";">>,
    <<"let", " ", "f", "=", "|", "|", "x", ";">> }

\* One program for each shape the printer changes and then leaves alone.
Closure == Group(<<"|", "x", "|", " ", "x">>)
MatchOne(p) == <<"match", " ", "x", "{">> \o p \o <<"=>", "1", "}">>
Changed == {
    Let(Closure \o <<"(", "1", ")">>),
    Let(Closure \o <<" ", "+", " ", "1">>),
    Let(Group(<<"-">> \o Closure) \o <<" ", "*", " ", "1">>),
    Let(Group(<<"T", "{", "x", "}">>) \o <<".", "f">>),
    Let(Group(<<"x", ".", "f">>) \o <<"(", "1", ")">>),
    Group(MatchOne(<<"_">>)) \o <<".", "f", ";">>,
    Group(MatchOne(<<"_">>)) \o <<"=", "x", ";">>,
    <<"config", "{", "x", ":=", "(", "custom", "{", "y", "}", ")", "}">>,
    Let(<<"\\pi">>),
    Let(<<"x", "*", "\\pi", "(", "x", ")">>),
    MatchOne(<<"T", "(", ")">>),
    Let(<<"(", "x", ",", ")">>),
    Let(<<"|", " ", "|", " ", "x">>),
    <<"let", " ", "f", "(", "x", ")", ":", "Integer", "=", "x", ";">>,
    <<"class", " ", "T", "{", "fn", " ", "f", "(", "self", ")", "@", "jit">> \o Body \o <<"}">>,
    <<"class", " ", "T", "{", "fn", " ", "f", "(", "self", ")", "}">>,
    <<"impl", " ", "ops", "::", "Add", " ", "for", " ", "T", "{", "fn", " ", "f", "(", "self", ")", "@", "jit">> \o Body \o <<"}">> }

\* f-strings, with and without a format spec.  One of them has an interpolation
\* that ends in `}`: it grows with every write, so it is no text of McTexts.
FStrings == {Let(t) : t \in Templates(One \cup Atoms)}
            \cup {Let(<<"f\"", "{", " ", "{", "1", "}", ":", "x", "}", "\"">>)}

McTexts == Expressions \cup Forms \cup Nested \cup Changed
=============================================================================
