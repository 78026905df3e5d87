---------------------------- MODULE MCModuleLoader ----------------------------
(* A project of five files in two directories: /main.pra (the root),       *)
(* /util.pra, /torn.pra (does not parse), /lib/main.pra, /lib/util.pra,    *)
(* where `util` and `main` name different files from / and from /lib, and  *)
(* `lib::util` and (from /lib) `util` are the same file.                   *)
EXTENDS ModuleLoader

CONSTANTS main, util, libmain, libutil, torn, gone

FilesMC == {main, util, libmain, libutil, torn}

RootDir == [p \in Paths |->
  CASE p = "lib" -> libmain [] p = "util" -> util [] p = "main" -> main
    [] p = "lib::util" -> libutil [] p = "torn" -> torn [] OTHER -> gone]

LibDir == [p \in Paths |->
  CASE p = "util" -> libutil [] p = "main" -> libmain [] p = "math" -> libutil
    [] OTHER -> gone]

FileOfMC == [f \in Files |-> IF f \in {main, util, torn} THEN RootDir ELSE LibDir]

ItemsOfMC == [t \in Targets |->
  CASE t = libutil -> {"x", "y"} [] t = util -> {"x"} [] t = "math" -> {"y"} [] OTHER -> {"z"}]

OneOf(ps, ks) == {<<[path |-> p, kind |-> k]>> : p \in ps, k \in ks}

UpToTwo(ps, ks) ==
  {<<>>} \cup OneOf(ps, ks)
    \cup {a \o b : a \in OneOf(ps, ks), b \in OneOf(ps, ks)}

ImportListsMC == [f \in Files |->
  CASE f = main -> UpToTwo({"lib", "util", "lib::util", "math"}, Kinds)
    [] f = libmain -> UpToTwo({"util", "main", "math", "rust"}, {"namespace"})
    [] f = torn -> {<<>>}
    [] f = util -> UpToTwo({"main", "lib", "lib::util", "torn"}, {"star"})
    [] OTHER -> {<<>>} \cup OneOf({"main", "util", "nope"}, {"namespace"})]
=============================================================================
