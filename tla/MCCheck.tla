------------------------------- MODULE MCCheck -------------------------------
(* Files of up to three lines: an import or a definition, any line, and a use. *)
EXTENDS Check

McNames == {"x", "y", "z", "a", "b", "c", "d", "i", "k", "f", "g", "h", "w", "m", "n", "q", "e", "s", "v", "T",
            "at", "get", "new", "ops", "Add", "add", "builtin", "c_api", "extern", "O1", "custom", "prec", "len", "zz", "step1",
            "Some", "None", "Ok", "Err", "map", "println", "Integer", "Bool", "Option", "U", "int", "parallel", "jit", "gpu"}
McLiterals == {"1", "2", "3", "'s'"}
McStrings == {"'s'"}
McNumberOf == [l \in {"1", "2", "3"} |-> CASE l = "1" -> 1 [] l = "2" -> 2 [] OTHER -> 3]

Spaced(l) == FlattenSeq([i \in DOMAIN l |-> <<l[i], " ">>])

\* The trees of two modules: m, a file beside the program, with
\*   pub let c = 1;  pub fn g(a) { h(a) }  fn h(a) { a }
\* and e, of the tool itself, with @builtin(O1) pub fn k(a: Integer) { a }
Var(n) == Node("Path", <<n>>, <<>>)
Takes(ps) == Node("Params", <<>>, <<Node("Param", <<"name">>, <<Node("Name", <<"a">>, <<>>)>> \o ps)>>)
Gives(e) == Node("Block", <<>>, <<Node("Expr", <<>>, <<e>>)>>)
NoType == Node("Ret", <<>>, <<>>)
Fn(n, ps, e, anns) == Node("FnDef", <<n>>, <<Takes(ps), NoType, Gives(e), Node("Anns", <<>>, anns)>>)
Pub(n) == Node("Pub", <<>>, <<n>>)
McModules ==
    [p \in {<<"m">>, <<"e">>} |->
       IF p = <<"e">>
       THEN <<Pub(Fn("k", <<Node("Type", <<"Integer">>, <<>>)>>, Var("a"), <<Node("Ann", <<"builtin", "O1">>, <<>>)>>))>>
       ELSE <<Pub(Node("Let", <<>>, <<Node("Binding", <<"c">>, <<>>), NoType, Node("Literal", <<"1">>, <<>>)>>)),
              Pub(Fn("g", <<>>, Node("Call", <<>>, <<Var("h"), Var("a")>>), <<>>)),
              Fn("h", <<>>, Var("a"), <<>>)>>]

Imports0 == {
    <<"from", "m", "import", "g", ";">>,
    <<"import", "m", ";">>,
    <<"import", "m", "as", "n", ";">>,
    <<"from", "m", "import", "c", "as", "x", ";">>,
    <<"from", "m", "import", "h", ";">>,
    <<"from", "m", "import", "w", ";">>,
    <<"import", "q", ";">>,
    <<"from", "e", "import", "k", ";">>,
    <<"from", "m", "import", "*", ";">> }
Definitions == {
    <<"let", "x", "=", "1", ";">>,
    <<"let", "(", "x", ",", "y", ")", "=", "(", "1", ",", "2", ")", ";">>,
    <<"let", "(", "1", ",", "x", ")", "=", "(", "2", ",", "1", ")", ";">>,
    <<"const", "c", ":", "Integer", "=", "1", ";">>,
    <<"let", "f", "(", "a", ")", "=", "a", "+", "x", ";">>,
    <<"let", "f", "=", "|", "a", "|", "a", "+", "1", ";">>,
    <<"fn", "f", "(", "a", ")", "{", "return", "a", ";", "g", "(", "a", ")", ";", "}">>,
    <<"fn", "f", "(", "a", ")", ":", "Option", "<", "Integer", ">", "{", "let", "b", "=", "Some", "(", "a", ")", "?", ";", "Some", "(", "b", ")", "}">>,
    <<"fn", "g", "(", "a", ")", "{", "if", "a", "==", "1", "{", "return", "2", ";", "}", "println", "(", "a", ")", ";", "}">>,
    <<"fn", "h", "(", ")", "{", "None", "(", ")", "?", "}">>,
    <<"fn", "g", "(", ")", "{", "fn", "f", "(", "a", ")", "{", "a", "}", "f", "(", "1", ")", "}">>,
    <<"fn", "f", "(", "a", ",", "a", ")", "{", "self", "}">>,
    <<"fn", "f", "(", "a", ")", "{", "x", "=", "g", "(", "a", ")", ";", "y", "}">>,
    <<"class", "T", "{", "x", ":", "Integer", ",", "fn", "new", "(", "a", ")", ":", "T", "{", "T", "{", "x", ":", "a", "}", "}",
      "fn", "get", "(", "self", ")", ":", "Integer", "{", "self", ".", "x", "}", "}">>,
    <<"class", "T", "{", "x", ":", "U", ",", "x", ":", "T", ",", "fn", "at", "(", "a", ",", "self", ")", "{", "self", "}", "}">> }
Others == {
    <<"let", "x", ":", "Bool", "=", "1", ";">>,
    <<"@", "builtin", "fn", "len", "(", "a", ")", ";">>,
    <<"@", "builtin", "fn", "zz", "(", "a", ":", "Integer", ")", ";">>,
    <<"@", "builtin", "(", "O1", ")", "fn", "zz", "(", "a", ":", "Integer", ")", "{", "a", "}">>,
    <<"@", "c_api", "::", "extern", "fn", "f", "(", "a", ":", "c_api", "::", "int", ")", "{", "a", "}">>,
    <<"@", "c_api", "::", "extern", "pub", "fn", "f", "(", "a", ":", "c_api", "::", "int", ")", "->", "c_api", "::", "int", "{", "a", "}">>,
    <<"impl", "ops", "::", "Add", "for", "T", "{", "fn", "add", "(", "self", ")", "{", "self", "}", "}">>,
    <<"impl", "ops", "::", "Add", "for", "T", "{", "fn", "add", "(", "self", ",", "b", ")", "{", "self", "}", "}">>,
    <<"x", "=", "2", ";">> ,
    <<"println", "(", "x", ")", ";", "let", "y", "=", "[", "1", ",", "(", "1", ",", "!", "x", ")", "]", ";">>,
    <<"let", "z", "=", "T", "::", "new", "(", "1", ")", ".", "get", "(", ")", ";">>,
    <<"let", "z", "=", "T", "{", "x", ":", "2", "}", ";", "let", "T", "{", "x", "}", "=", "T", "{", "..", "z", "}", ";">>,
    <<"g", "(", "2", ")", ";">>,
    <<"self", ";">>,
    <<"with", "config", "{", "k", ":=", "1", "}", "{", "f", "(", "1", ")", ";", "}">>,
    <<"with", "config", "{", "prec", ":=", "1", "}", "{", "let", "b", "=", "x", ";", "fn", "h", "(", ")", "{", "b", "}", "}">>,
    <<"for", "i", "in", "1", "..", "3", "{", "fn", "g", "(", "a", ")", "{", "i", "}", "f", "(", "i", ")", ";", "}">>,
    <<"while", "let", "Some", "(", "y", ")", "=", "None", "(", ")", "{", "g", "(", "y", ")", ";", "}">>,
    <<"if", "let", "Some", "(", "y", ")", "=", "f", "(", "1", ")", "{", "let", "w", "=", "y", ";", "}", "else", "{", "return", ";", "}">>,
    <<"match", "x", "{", "1", "=>", "f", "(", "1", ")", ",", "y", "if", "y", "==", "2", "=>", "y", ",", "_", "=>", "m", "::", "c", ",", "}">>,
    <<"let", "v", "=", "[", "f", "(", "i", ")", "for", "i", "in", "[", "1", ",", "2", "]", "if", "i", "==", "x", "]", ";">>,
    <<"let", "v", "=", "map", "(", "|", "a", "|", "g", "(", "a", ")", ",", "[", "1", "]", ")", ";">>,
    <<"k", "(", "'s'", ")", ";", "k", "(", "1", ")", ";">> }
Uses == {
    <<"None", "(", ")", "?", ";", "x", ";">>,
    <<"map", "(", "g", ",", "[", "1", "]", ")", ";">>,
    <<"m", "::", "g", "(", "1", ")", ";", "n", "::", "h", "(", "1", ")", ";">>,
    <<"return", "h", "(", ")", ";">> }
LastLines == {
    <<"f", "(", "1", ")", ";">>,
    <<"if", "x", "==", "1", "{", "let", "y", "=", "x", ";", "g", "(", "y", ")", ";", "}", "else", "{", "return", "1", ";", "h", "(", ")", ";", "}">> }
All(S) == {Spaced(l) : l \in S}
StringLine == <<"let", " ", "s", "=", "f\"", "{", "None", "(", ")", "?", "}", "\"", ";">>
McMenuAt == <<All(Imports0 \cup Definitions), All(Imports0 \cup Definitions \cup Others \cup Uses \cup LastLines) \cup {StringLine}, All(LastLines)>>
McEmbedded == {<<"e">>}
McKnownKeys == {"prec"}
McRootNames == {"Some", "None", "Ok", "Err", "map", "println", "len"}
McRegistered == {"len", "println"}
=============================================================================
