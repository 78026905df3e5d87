------------------------------ MODULE MCExprPool ------------------------------
(* Instances of ExprPool: contents with colliding hashes, with an equality *)
(* that spans two hashes (0.0 and -0.0), and with none at all (NaN).       *)
EXTENDS ExprPool

CONSTANTS x, seven, nine, pzero, nzero, nan  \* contents
CONSTANTS hA, hB                             \* hashes
CONSTANTS sA                                 \* shards

HashMC  == [d \in Data |-> IF d \in {seven, nine, pzero, nan} THEN hA ELSE hB]
EqualMC ==
  {<<d, d>> : d \in Data \ {nan}}
    \cup {p \in Data \X Data : {p[1], p[2]} = {pzero, nzero}}

ShardMC == [h \in Hashes |-> sA]
=============================================================================
