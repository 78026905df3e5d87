-------------------------------- MODULE Field --------------------------------
(***************************************************************************)
(* Numbers to evaluate symbolic expressions with: the residues modulo a    *)
(* prime, in place of the code's f64.  Sums, products and quotients are    *)
(* exact, so two expressions with the same meaning have the same value,    *)
(* with none of a float's rounding.  The elementary functions are fixed    *)
(* functions of residues that keep the identities the code relies on:      *)
(* sin and cos at the multiples of a right angle, sin^2 + cos^2 = 1,       *)
(* sqrt(v)^2 = v, ln(1) = 0, ln(e) = 1, exp(0) = 1, e^(i angle).  What a   *)
(* float has no number for (a quotient by zero, the root or the logarithm  *)
(* of a negative number) is Nan.                                           *)
(***************************************************************************)
EXTENDS Integers, TLC

CONSTANTS
  P,          \* the prime; -1 has a root modulo P
  PiValue,    \* the residue of \pi
  EValue,     \* the residue of \e
  IValue,     \* a root of -1, the residue of \i
  Small       \* bound: exponents and angles are at most Small / 2

ASSUME FieldAssumption ==
  /\ P \in Nat /\ P > 2 /\ Small \in Nat
  /\ PiValue \in 1..(P - 1) /\ EValue \in 1..(P - 1)
  /\ (IValue * IValue) % P = P - 1

Nan == P

Reals(a, b) == a # Nan /\ b # Nan

FAdd(a, b) == IF Reals(a, b) THEN (a + b) % P ELSE Nan
FMul(a, b) == IF Reals(a, b) THEN (a * b) % P ELSE Nan
FNeg(a) == FMul(a, P - 1)
FSub(a, b) == FAdd(a, FNeg(b))

Reciprocal == (0 :> Nan) @@ (Nan :> Nan) @@
  [v \in 1..(P - 1) |-> CHOOSE w \in 1..(P - 1) : (v * w) % P = 1]

FDiv(a, b) == FMul(a, Reciprocal[b])

Int2(k) == k % P

Ratio(n, d) == FDiv(Int2(n), Int2(d))

(* The sign of a small fraction is its own; the others split in halves. *)
Fractions(sign) == {Ratio(sign * n, d) : n \in 1..Small, d \in 1..4}

Positive == LET up == Fractions(1)
                down == Fractions(-1)
            IN {v \in 1..(P - 1) : v \in up \/ (v \notin down /\ 2 * v < P)}

FAbs(v) == IF v \in Positive \union {0, Nan} THEN v ELSE FNeg(v)

FSignum(v) == FDiv(v, FAbs(v))

FSqrt == (Nan :> Nan) @@
  [v \in 0..(P - 1) |->
     LET roots == {w \in Positive \union {0} : (w * w) % P = v}
     IN IF roots = {} THEN Nan ELSE CHOOSE w \in roots : TRUE]

(* The right angles of an angle: k for k \pi / 2. *)
Angles == (Nan :> {}) @@
  [v \in 0..(P - 1) |-> {k \in (-Small)..Small : FMul(Int2(k), FDiv(PiValue, 2)) = v}]

IsAngle(v) == Angles[v] # {}

Quadrant(v) == (CHOOSE k \in Angles[v] : TRUE) % 4

FSin(v) == IF IsAngle(v) THEN <<0, 1, 0, P - 1>>[Quadrant(v) + 1]
           ELSE FDiv(FMul(2, v), FAdd(1, FMul(v, v)))

FCos(v) == IF IsAngle(v) THEN <<1, 0, P - 1, 0>>[Quadrant(v) + 1]
           ELSE FDiv(FSub(1, FMul(v, v)), FAdd(1, FMul(v, v)))

FTan(v) == FDiv(FSin(v), FCos(v))

FExp(v) == FAdd(v, 1)

FLn(v) == IF v = EValue THEN 1
          ELSE IF v \in Positive THEN FSub(v, 1) ELSE Nan

Power[k \in Nat] == [v \in 0..(P - 1) |-> IF k = 0 THEN 1 ELSE (Power[k - 1][v] * v) % P]

WholePower(b, k) == IF b = Nan THEN Nan
                    ELSE IF k >= 0 THEN Power[k][b] ELSE FDiv(1, Power[-k][b])

Halves == (Nan :> {}) @@ [e \in 0..(P - 1) |-> {k \in (-Small)..Small : e = Ratio(k, 2)}]

(* e^(i angle) is on the unit circle; every other power has a small whole  *)
(* or half exponent.                                                       *)
FPow(b, e) ==
  LET angle == FDiv(e, IValue)
      halves == Halves[e]
      k == CHOOSE j \in halves : TRUE
  IN IF b = EValue /\ IsAngle(angle) /\ angle # 0
     THEN FAdd(FCos(angle), FMul(IValue, FSin(angle)))
     ELSE IF halves = {} THEN Nan
     ELSE IF k % 2 = 0 THEN WholePower(b, k \div 2)
     ELSE WholePower(FSqrt[b], k)
=============================================================================
