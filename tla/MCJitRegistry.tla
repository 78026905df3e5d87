---------------------------- MODULE MCJitRegistry ----------------------------
(* Two tasks beside the evaluating thread and a registry of two entries:   *)
(* every registration after the second evicts while the tasks hold clones. *)
EXTENDS JitRegistry, TLC

Interpreted == {"fallback"}
CompiledFn  == {"compiled", "fallback"}
Gradient    == {"tape"}
Symbolic    == {"expressions"}

AllForms == {Interpreted, CompiledFn, Gradient, Symbolic}
NoForms  == {}
TaskOnly == {Symbolic}

Symmetry == Permutations(Workers)
=============================================================================
