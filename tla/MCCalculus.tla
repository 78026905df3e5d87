------------------------------ MODULE MCCalculus ------------------------------
(* Expressions in x and y with the numbers 2 and -1, \pi, \i and \e, at    *)
(* a point where x is positive and one where it is negative.               *)
EXTENDS Calculus

MCAtoms == {Sym("x"), Sym("y"), Whole(2), Whole(-1), Sym("pi"), Sym("i"), Sym("e")}
MCOperators == {"add", "sub", "mul", "div", "pow"}
MCFunctions == {"sqrt", "abs", "exp", "ln", "sin", "cos", "tan"}
MCVariables == <<"x", "y">>
MCPoints == {[x |-> 3, y |-> 7], [x |-> P - 2, y |-> 5]}
MCTargets == {Whole(0)}

PlainAtoms == {Sym("x"), Sym("y"), Whole(2)}
==============================================================================
