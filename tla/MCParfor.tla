------------------------------- MODULE MCParfor -------------------------------
(* Bodies of one or two steps over two arrays: own slot, a shared slot,    *)
(* a neighbour's slot, out-of-bounds slots, an unknown array; ranges that  *)
(* go up, down, by two, over the bounds and over the integer limit.        *)
EXTENDS Parfor

InitialMC == [A |-> <<10, 20, 30, 40, 50>>, B |-> <<1, 2, 3>>]

Own(a) == [arr |-> a, mul |-> 1, add |-> 0]
Left(a) == [arr |-> a, mul |-> 1, add |-> -1]
First(a) == [arr |-> a, mul |-> 0, add |-> 0]

Step(k, at, from, call) == [kind |-> k, at |-> at, from |-> from, call |-> call]

WritesMC ==
  {Step(k, at, from, call) :
     k \in {"set", "add"}, at \in {Own("A"), First("A"), Left("B")},
     from \in {Nothing, Own("A"), Left("A")}, call \in {"none"}}

OthersMC ==
  {Step("eval", Nothing, Nothing, c) : c \in {"builtin", "user", "host"}}
    \cup {Step("other", Nothing, Nothing, "none"),
          Step("set", Own("C"), Nothing, "none"),
          Step("set", Own("A"), Own("C"), "none"),
          Step("set", Own("A"), Nothing, "builtin"),
          Step("set", Own("A"), Nothing, "user")}

BodiesMC ==
  {<<s>> : s \in WritesMC \cup OthersMC}
    \cup {<<s, t>> : s \in WritesMC, t \in WritesMC}
    \cup {<<s, t>> : s \in {Step("set", Own("B"), Nothing, "none")}, t \in OthersMC}

Up(a, b, s) == [start |-> a, end |-> b, step |-> s]

RangesMC == {Up(0, 5, 1), Up(0, 3, 1), Up(1, 3, 1), Up(2, -1, -1), Up(1, 6, 2), Up(0, 3, 0),
             Up(3, 7, 3), Up(2, 2, 1), Up(-7, 7, 1)}
=============================================================================
