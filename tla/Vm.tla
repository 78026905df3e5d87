---------------------------------- MODULE Vm ----------------------------------
(***************************************************************************)
(* A call on the machine with the compiler's chunks, beside the same call  *)
(* in the interpreter.  The compiler claims that "observable behavior is   *)
(* never changed".  It is not, for the bodies in which Departures finds    *)
(* something; for every other body SameAnswer holds.                       *)
(***************************************************************************)
EXTENDS VmCompile, Machine

-----------------------------------------------------------------------------
(* Where the VM may differ from the interpreter.  Departures walks a body  *)
(* with the names the compiler has slots for (`flat`), those the           *)
(* interpreter has in scope (`lexical`) and those of the innermost scope.  *)

RECURSIVE Mentions(_)
Mentions(e) ==   \* names, as often as they occur
  IF e.k = "lit" THEN <<>> ELSE IF e.k = "var" THEN <<e.x>>
  ELSE FlattenSeq([i \in DOMAIN e.args |-> Mentions(e.args[i])]) \o (IF e.k = "change" THEN <<e.x>> ELSE <<>>)
RECURSIVE Parts(_)
Parts(e) ==      \* subexpressions
  {e} \cup (IF e.k \in {"lit", "var"} THEN {} ELSE UNION {Parts(e.args[i]) : i \in DOMAIN e.args})
Changes(e) == {p.x : p \in {q \in Parts(e) : q.k = "change"}}
Ops(e) == {p.op : p \in {q \in Parts(e) : q.k = "node"}}

Exprs(st) ==
  CASE st.k = "put" -> <<st.i, st.e>> [] st.k = "for" -> <<st.lo, st.hi>> \o st.by [] OTHER -> <<st.e>>
Target(st) == IF st.k \in {"set", "put"} THEN <<st.x>> ELSE <<>>
Blocks(st) == CASE st.k = "if" -> <<st.b, st.c>> [] st.k \in {"while", "for"} -> <<st.b>> [] OTHER -> <<>>
All(Q(_), es) == UNION {Q(es[i]) : i \in DOMAIN es}
MentionsOf(es) == FlattenSeq([i \in DOMAIN es |-> Mentions(es[i])])
Times(x, s) == Cardinality({i \in DOMAIN s : s[i] = x})

RECURSIVE Assigned(_)
Assigned(b) ==   \* names a block may change
  UNION {(IF b[i].k \in {"let", "set", "put"} THEN {b[i].x} ELSE {})
         \cup All(Changes, Exprs(b[i])) \cup All(Assigned, Blocks(b[i])) : i \in DOMAIN b}

Because(test, why) == IF test THEN {why} ELSE {}

(* The scope a statement leaves, and why it may depart. *)
RECURSIVE Walk(_, _), WalkAll(_, _)
WalkAll(b, w) == IF b = <<>> THEN w ELSE WalkAll(Tail(b), Walk(Head(b), w))

Inner(b, w, names) ==
  LET r == WalkAll(b, [w EXCEPT !.own = names, !.lexical = @ \cup names, !.flat = @ \cup names, !.depth = @ + 1])
  IN  [w EXCEPT !.flat = r.flat, !.why = r.why]

Walk(st, w0) ==
  LET es == Exprs(st)
      names == MentionsOf(es) \o Target(st)
      fresh == st.k = "set" /\ st.op = "=" /\ st.x \notin w0.flat
      binds == IF st.k = "let" \/ fresh THEN {st.x} ELSE {}
      why ==
        Because(\E x \in ToSet(names) \cup binds \cup (IF st.k = "for" THEN {st.x} ELSE {}) : x \in w0.flat \ w0.lexical, "leak")
        \cup Because((st.k = "let" /\ w0.depth > 0 /\ st.x \in w0.lexical \ w0.own)
                 \/ (st.k = "for" /\ (st.x \in w0.lexical \/ st.x \in ToSet(MentionsOf(es)))), "shadow")
        \cup Because(fresh /\ (st.x \in DOMAIN Globals \/ st.x \in ToSet(MentionsOf(es))), "global")
        \cup Because("pos" \in All(Ops, es), "pos")
        \cup Because("at" \in All(Ops, es), "at") \cup Because("tuple" \in All(Ops, es), "tuple")
        \cup Because(\E x \in All(Changes, es) : Times(x, names) > 1, "order")
        \cup Because(st.k = "for" /\ ( \/ \E x \in Assigned(st.b) : x \in {st.x} \cup ToSet(MentionsOf(<<st.hi>> \o st.by))
                                   \/ All(Changes, <<st.hi>> \o st.by) # {}
                                   \/ (st.by # <<>> /\ st.by[1] \notin {Lit(Num(n)) : n \in 1..9})), "bound")
        \cup Because(st.k = "put" /\ st.x \notin w0.flat, "effect")
        \cup Because(All(Changes, es) # {} \/ (st.k = "put" /\ st.x \in w0.flat), "limit")
        \cup Because(st.k = "for" /\ SumsItsVariable(st)
                 /\ (st.lo # Lit(Num(0)) \/ st.b[1].x = st.x \/ st.b[1].x \notin w0.lexical \cup DOMAIN Globals), "series")
      w == [w0 EXCEPT !.why = @ \cup why, !.flat = @ \cup binds, !.lexical = @ \cup binds, !.own = @ \cup binds]
  IN  CASE st.k = "if" -> Inner(st.c, Inner(st.b, w, {}), {})
        [] st.k = "while" -> Inner(st.b, w, {})
        [] st.k = "for" -> Inner(st.b, w, {st.x})
        [] OTHER -> w

Departures(fn) ==
  LET names == ToSet(fn.params)
      why == WalkAll(fn.body, [flat |-> names, lexical |-> names, own |-> names, depth |-> 0, why |-> {}]).why
  IN  (why \ {"at", "tuple", "effect", "limit"})
      \cup Because({"at", "tuple"} \subseteq why, "tuple index") \cup Because({"effect", "limit"} \subseteq why, "rerun")

-----------------------------------------------------------------------------
(* Properties *)

Exact == INSTANCE Script WITH LoopFormula <- FALSE
Meaning == Exact!Run(f, args, Globals)
Same == ans = Meaning.ans /\ (ans # Error => globals = Meaning.globals)

(* The chunks are what the machine relies on.  The compiler counts every   *)
(* slot its instructions name, temporaries and variables of inner blocks   *)
(* included, patches its jumps into the code, and keeps the operand stack  *)
(* in balance on every path through branches, loops and early returns.  A  *)
(* unary plus is compiled to Dup, which leaves an operand more.            *)
ChunksDisciplined ==
  phase = "call" /\ chunk.ok =>
    IF "pos" \in Departures(f) THEN Fits(chunk) ELSE Disciplined(chunk, Len(args))

(* A call through the VM, with its register allocation, fused branches,    *)
(* fallbacks and loop formula, answers what interpreting the body answers  *)
(* and leaves the globals as that leaves them, except where Departures     *)
(* finds a reason.                                                         *)
SameAnswer == phase = "done" /\ Departures(f) = {} => Same

(* What comp.rs:8 says of every body. *)
NeverChanged == phase = "done" => Same

(* The formula gives the accumulator what the loop gives it. *)
FormulaIsTheLoop == phase = "done" /\ ~chunk.ok => Same

(* A call ends: what ends in the interpreter ends on the VM. *)
CallEnds == <>(phase = "done")

=============================================================================
