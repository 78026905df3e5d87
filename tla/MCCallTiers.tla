------------------------------ MODULE MCCallTiers ------------------------------
(* An instance of CallTiers for TLC. *)
EXTENDS CallTiers

MCBodiesF ==
  { <<"say", "call">>, <<"call", "say">>, <<"tail">>, <<"num", "call">>,
    <<"call", "limit">>, <<"limit", "say">>, <<"say", "limit">>, <<"big", "call">>,
    <<"lambda", "say", "call">>, <<"num", "tail">>, <<"call", "tail">> }

MCBodiesG ==
  { <<"say">>, <<"num">>, <<"big">>, <<"limit", "say">>, <<"say", "limit">>,
    <<"lambda", "say">> }
=============================================================================
