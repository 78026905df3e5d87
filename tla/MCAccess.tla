------------------------------- MODULE MCAccess -------------------------------
(* A module and the entry module, each with a class statement of one name, *)
(* and in the entry module a class of a name of its own.                   *)
EXTENDS Access, TLC

CONSTANTS geo, main

McModules == {geo}
McDefs == {"VecGeo", "VecMain", "Tag"}
McName == "VecGeo" :> "Vec" @@ "VecMain" :> "Vec" @@ "Tag" :> "Tag"
McHome == "VecGeo" :> geo @@ "VecMain" :> main @@ "Tag" :> main
McExported == {"VecGeo"}
McFields == "VecGeo" :> [x |-> "priv", y |-> "mod"] @@ "VecMain" :> [x |-> "priv", z |-> "pub"]
            @@ "Tag" :> [x |-> "priv"]
McMethods == "VecGeo" :> [m |-> "priv"] @@ "VecMain" :> [m |-> "pub"] @@ "Tag" :> [m |-> "pub", k |-> "mod"]
McAssociated == "VecGeo" :> [new |-> "priv"] @@ "VecMain" :> <<>> @@ "Tag" :> <<>>
===============================================================================
