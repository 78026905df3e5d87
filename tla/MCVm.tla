---------------------------------- MODULE MCVm ----------------------------------
(***************************************************************************)
(* Bodies for Vm.  Registers: every expression of two levels over the      *)
(* parameters and a literal, in every kind of statement that compiles into *)
(* a slot.  Control: every pair of statements of a pool in which each      *)
(* statement form, each fused form and each fallback occurs.               *)
(***************************************************************************)
EXTENDS Vm

x == Var("x")
y == Var("y")
a == Var("a")
g == Var("g")
n(i) == Lit(Num(i))
t == Lit(Bool(TRUE))
Bin(o, l, r) == Node(o, <<l, r>>)
At2(l, r) == Node("at", <<l, r>>)
Push1(v) == Change("a", "push", <<v>>)
PopA == Change("a", "pop", <<>>)

(* Registers *)
Leaves == {x, y, n(2)}
Level1 == Leaves \cup {Bin(o, l, r) : o \in {"+", "-", "*"}, l \in Leaves, r \in Leaves}
                 \cup {Node("neg", <<x>>), Bin("%", x, n(2))}
Level2 == {Bin(o, l, r) : o \in {"+", "-"}, l \in Level1, r \in Level1}
          \cup {Bin("*", l, r) : l \in Leaves, r \in Level1}
Params == <<"x", "y">>
RegisterBodies ==
  {<<Set("x", "=", e), Do(Bin("+", x, y))>> : e \in Level2}
  \cup {<<Let("z", e), Set("z", o, y), Return(Var("z"))>> : e \in Level1, o \in {"+", "-"}}
  \cup {<<Set("y", o, e), Do(y)>> : o \in {"+", "-"}, e \in Level1}
Registers == {Func(Params, b) : b \in RegisterBodies}

(* Control *)
Bump(v) == Set(v, "+", n(1))
Pool == {
  Let("a", Node("array", <<n(1), x, n(3)>>)), Let("z", Bin("+", x, At2(a, x))), Let("z", At2(a, Bin("-", x, n(1)))),
  Set("x", "=", y), Set("x", "+", At2(a, y)), Set("y", "=", Bin("+", y, Bin("*", x, At2(a, x)))),
  Set("y", "-", Bin("*", x, n(2))), Set("g", "=", n(5)), Set("g", "+", n(1)), Set("x", "=", Bin("*", n(2), Node("neg", <<g>>))),
  Put("a", x, y), Put("a", x, n(7)), Put("a", x, Bin("+", y, n(1))), Put("a", n(0), x), Put("a", At2(a, n(0)), x),
  Put("h", n(0), x), Put("h", PopA, x), Put("a", Node("neg", <<n(1)>>), PopA),
  Do(Push1(x)), Do(Push1(n(4))), Do(Push1(Bin("+", x, n(1)))), Do(PopA), Do(Change("h", "push", <<n(1)>>)),
  Do(Change("a", "reverse", <<>>)), Let("z", Node("array", <<PopA, Node("len", <<a>>)>>)),
  If(At2(a, x), <<Bump("y")>>, <<>>), If(Bin("==", x, n(1)), <<Return(y)>>, <<>>),
  If(Bin("<", x, y), <<Set("x", "=", n(3))>>, <<Set("y", "=", n(3))>>),
  If(Bin("&&", Bin("<", x, y), Node("not", <<Bin("==", y, n(2))>>)), <<Let("w", x), Set("y", "=", Var("w"))>>, <<Bump("x")>>),
  If(x, <<Bump("x")>>, <<>>),
  While(Bin("<", x, y), <<Bump("x")>>), While(Bin("<=", Bin("*", x, x), y), <<Bump("x"), Set("g", "+", x)>>),
  While(Bin("<=", Bin("*", x, x), y), <<Bump("x")>>), While(Bin("<", Node("len", <<a>>), n(4)), <<Do(Push1(x))>>),
  For("i", n(0), y, <<>>, <<Set("x", "+", Var("i"))>>), For("i", x, Bin("+", y, n(1)), <<>>, <<Bump("x")>>),
  For("i", n(0), Bin("*", y, n(2)), <<n(2)>>, <<Put("a", n(0), Var("i"))>>),
  For("i", n(0), n(3), <<>>, <<Let("w", Var("i")), If(Bin("==", Var("w"), n(2)), <<Return(x)>>, <<>>)>>),
  For("i", n(0), y, <<>>, <<Do(Push1(n(9)))>>), For("i", n(0), g, <<>>, <<Set("x", "+", Var("i"))>>),
  For("i", n(0), Bin("-", y, n(1)), <<>>, <<For("j", n(0), n(2), <<>>, <<Bump("x")>>)>>),
  For("i", n(0), y, <<>>, <<Set("x", "=", Bin("-", Bin("*", x, n(2)), Bin("+", x, Var("i"))))>>) }
Tails == { <<Do(x)>>, <<Return(Node("array", <<y, a>>))>>, <<If(Bin("<", x, y), <<Return(x)>>, <<>>)>> }
Control == {Func(Params, <<s1, s2>> \o s3) : s1 \in Pool, s2 \in Pool, s3 \in Tails}
           \cup {Func(<<"a", "x", "y">>, <<s1>> \o s3) : s1 \in Pool, s3 \in Tails} 
           \cup {Func(Params, <<Let("z", Node("pos", <<x>>)), Set("y", "+", Var("z"))>> \o s3) : s3 \in Tails}
           \cup {Func(<<>>, <<>>), Func(<<>>, <<For("i", n(0), t, <<>>, <<Bump("g")>>)>>)}

(* Bodies that depart: a loop that assigns its variable, a loop the        *)
(* formula takes, and a `let` in a block.                                  *)
ResetsItsVariable == {Func(Params, <<For("i", n(0), n(2), <<>>, <<Set("i", "=", v)>>)>>) : v \in {n(0), x}}
SumsIntoGlobal == {Func(Params, <<For("i", n(1), y, <<>>, <<Set("g", "+", Var("i"))>>), Do(g)>>)}
ShadowsInBlock == {Func(Params, <<If(Bin("<", x, y), <<Let("x", n(7))>>, <<>>), Return(x)>>)}
AnswersDiffer == SumsIntoGlobal \cup ShadowsInBlock

(* Spec, with the ENABLED of its weak fairness written out: until it is    *)
(* done a call can always take a step.  TLC checks this form much faster.  *)
McSpec == Init /\ [][Next]_vars /\ ([]<>(phase = "done") \/ []<><<TRUE>>_vars)

McFunctions == Registers \cup Control
McArguments == {Num(1), Num(2)}
McGlobals == ("g" :> Num(3)) @@ ("h" :> Array(<<Num(1), Num(2)>>))

=============================================================================
