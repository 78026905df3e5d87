------------------------------- MODULE VmCompile -------------------------------
(***************************************************************************)
(* The bytecode compiler (prima-runtime, vm/comp.rs): the body of a `fn`   *)
(* to a chunk.  Variables live in slots; arithmetic on slots has           *)
(* register instructions, everything else goes over the operand stack.     *)
(*                                                                         *)
(* A compiler state is the chunk so far and the scope: `locals` binds      *)
(* names to slots, the last first, and is never cut back at the end of a   *)
(* block; `slots` is how many slots there are; `free` are temporaries to   *)
(* use again; `ok` is false once the compiler refused the body.  `starts`  *)
(* is where the code of a statement starts: the compiler does not keep it, *)
(* the properties need it.                                                 *)
(*                                                                         *)
(* An instruction is a tuple, the offset of a jump last.                   *)
(***************************************************************************)
EXTENDS Script

Emit(c, op) == [c EXCEPT !.code = Append(@, op)]
Here(c) == Len(c.code)
Refuse(c) == [c EXCEPT !.ok = FALSE]

(* Offsets are relative to the jump. *)
Patch(c, at, target) == [c EXCEPT !.code[at + 1] = Append(Front(@), target - at)]
JumpBack(c, target) == Emit(c, <<"Jump", target - Here(c)>>)

-----------------------------------------------------------------------------
(* Slots *)

NoSlot == -1

SlotOf(c, x) ==
  LET I == {i \in DOMAIN c.locals : c.locals[i][1] = x}
  IN  IF I = {} THEN NoSlot ELSE c.locals[CHOOSE i \in I : \A j \in I : j <= i][2]
LocalSlot(c, e) == IF e.k = "var" THEN SlotOf(c, e.x) ELSE NoSlot
IsLocal(c, e) == LocalSlot(c, e) # NoSlot
IsImm(e) == e.k = "lit"
IsNode(op, e) == e.k = "node" /\ e.op = op

(* reserve_slot, define, alloc: the slot is the count before. *)
ReserveSlot(c) == [c EXCEPT !.slots = @ + 1]
Define(c, x, slot) == [c EXCEPT !.locals = Append(@, <<x, slot>>)]
Alloc(c, x) == Define(ReserveSlot(c), x, c.slots)

AllocTemp(c) == IF c.free = <<>> THEN ReserveSlot(c) ELSE [c EXCEPT !.free = Front(@)]
TempOf(c) == IF c.free = <<>> THEN c.slots ELSE Last(c.free)
FreeTemp(c, slot) == [c EXCEPT !.free = Append(@, slot)]

-----------------------------------------------------------------------------
(* Expressions.  Push leaves the value on the operand stack, Into in a     *)
(* slot; Operand leaves it in `reg`, a temporary unless it is a local.     *)

Operator(op) ==
  CASE op = "neg" -> <<"Neg">> [] op = "not" -> <<"Not">> [] op = "pos" -> <<"Dup">>
    [] op = "at" -> <<"Index">> [] op = "len" -> <<"Method", "len", 0>>
    [] OTHER -> <<"Binary", op>>

Commutes(op) == op \in {"+", "*"}

(* `a[i]` with a and i in slots. *)
LocalElement(c, e) == IsNode("at", e) /\ IsLocal(c, e.args[1]) /\ IsLocal(c, e.args[2])

RECURSIVE Push(_, _), PushAll(_, _), Into(_, _, _), Operand(_, _)

PushAll(c, es) == IF es = <<>> THEN c ELSE PushAll(Push(c, Head(es)), Tail(es))

Push(c, e) ==
  CASE e.k = "lit" -> Emit(c, <<"Const", e.v>>)
    [] e.k = "var" -> Emit(c, IF IsLocal(c, e) THEN <<"LoadLocal", SlotOf(c, e.x)>> ELSE <<"LoadName", e.x>>)
    [] e.k = "change" ->
         Emit(PushAll(c, e.args),
              IF SlotOf(c, e.x) # NoSlot THEN <<"MethodLocal", e.op, Len(e.args), SlotOf(c, e.x)>>
              ELSE <<"MethodName", e.op, Len(e.args)>>)
    [] LocalElement(c, e) -> Emit(c, <<"RegIndexPush", LocalSlot(c, e.args[1]), LocalSlot(c, e.args[2])>>)
    [] IsNode("array", e) -> Emit(PushAll(c, e.args), <<"MakeArray", Len(e.args)>>)
    [] IsNode("tuple", e) -> Emit(PushAll(c, e.args), <<"MakeTuple", Len(e.args)>>)
    [] OTHER -> Emit(PushAll(c, e.args), Operator(e.op))

Operand(c, e) ==
  IF IsLocal(c, e) THEN [c |-> c, reg |-> LocalSlot(c, e), temp |-> FALSE]
  ELSE [c |-> Into(AllocTemp(c), e, TempOf(c)), reg |-> TempOf(c), temp |-> TRUE]
Release(c, o) == IF o.temp THEN FreeTemp(c, o.reg) ELSE c

(* `dst = dst + l * r` *)
MulAdd(c, l, r, dst) ==
  LET a == Operand(c, l)
      b == Operand(a.c, r)
  IN  Release(Release(Emit(b.c, <<"RegMulAdd", dst, a.reg, b.reg>>), b), a)

(* One complex side goes to a temporary.  Two of them go over the stack.   *)
CombineImm(c, op, e, imm, dst) ==
  LET a == Operand(c, e) IN Release(Emit(a.c, <<"RegBinImm", op, dst, a.reg, imm.v>>), a)
CombineLeft(c, op, l, r, dst) ==
  LET a == Operand(c, l) IN Release(Emit(a.c, <<"RegBin", op, dst, a.reg, LocalSlot(c, r)>>), a)
(* Mutant of CombineRight: the complex side goes straight to dst, which l may be. *)
CombineRightInPlace(c, op, l, r, dst) == Emit(Into(c, r, dst), <<"RegBin", op, dst, LocalSlot(c, l), dst>>)
CombineRight(c, op, l, r, dst) ==
  LET b == Operand(c, r) IN Release(Emit(b.c, <<"RegBin", op, dst, LocalSlot(c, l), b.reg>>), b)
ByStack(c, e, dst) == Emit(Push(c, e), <<"SetLocalNc", dst>>)

Into(c, e, dst) ==
  IF IsLocal(c, e) THEN Emit(c, <<"RegMove", dst, LocalSlot(c, e)>>)
  ELSE IF e.k # "node" THEN ByStack(c, e, dst)
  ELSE IF e.op = "neg" /\ IsLocal(c, e.args[1]) THEN Emit(c, <<"RegNeg", dst, LocalSlot(c, e.args[1])>>)
  ELSE IF LocalElement(c, e) THEN Emit(c, <<"RegIndex", dst, LocalSlot(c, e.args[1]), LocalSlot(c, e.args[2])>>)
  ELSE IF e.op \notin Arithmetic THEN ByStack(c, e, dst)
  ELSE LET l == e.args[1]
           r == e.args[2]
       IN  CASE e.op = "+" /\ LocalSlot(c, l) = dst /\ IsNode("*", r) -> MulAdd(c, r.args[1], r.args[2], dst)
             [] IsImm(r) -> CombineImm(c, e.op, l, r, dst)
             [] Commutes(e.op) /\ IsImm(l) /\ ~IsImm(r) -> CombineImm(c, e.op, r, l, dst)
             [] IsLocal(c, r) /\ ~(Commutes(e.op) /\ IsImm(l)) -> CombineLeft(c, e.op, l, r, dst)
             [] IsLocal(c, l) /\ ~IsLocal(c, r) /\ ~IsImm(r) /\ ~(e.op = "+" /\ LocalSlot(c, l) = dst /\ IsNode("*", r)) ->
                  CombineRight(c, e.op, l, r, dst)
             [] OTHER -> ByStack(c, e, dst)

-----------------------------------------------------------------------------
(* Statements *)

RECURSIVE CompileStmt(_, _, _), CompileBlock(_, _)

CompileBlock(c, b) == IF b = <<>> THEN c ELSE CompileBlock(CompileStmt(c, Head(b), FALSE), Tail(b))

(* The initializer is compiled before the name is bound. *)
CompileLet(c, st) == Define(Into(ReserveSlot(c), st.e, c.slots), st.x, c.slots)

(* `x = e`: an x that is no local becomes one. *)
CompileSet(c, st) ==
  LET d == IF SlotOf(c, st.x) = NoSlot THEN Alloc(c, st.x) ELSE c IN Into(d, st.e, SlotOf(d, st.x))

CompileCompound(c, st) ==
  LET slot == SlotOf(c, st.x) IN
  CASE slot = NoSlot -> Refuse(c)
    [] slot # NoSlot /\ st.op = "+" /\ IsImm(st.e) ->
         Emit(c, IF Is("num", st.e.v) THEN <<"AddImmLocal", slot, Of(st.e.v)>>
                 ELSE <<"RegBinImm", "+", slot, slot, st.e.v>>)
    [] slot # NoSlot /\ st.op = "+" /\ IsLocal(c, st.e) -> Emit(c, <<"RegBin", "+", slot, slot, LocalSlot(c, st.e)>>)
    [] slot # NoSlot /\ st.op = "+" /\ ~IsImm(st.e) /\ ~IsLocal(c, st.e) -> Emit(Push(c, st.e), <<"AddToSlot", slot>>)
    [] slot # NoSlot /\ st.op = "-" ->
         Emit(Emit(Push(Emit(c, <<"LoadLocal", slot>>), st.e), <<"Binary", "-">>), <<"SetLocalNc", slot>>)

(* `a[i] = e` *)
CompilePut(c, st) ==
  LET arr == SlotOf(c, st.x)
      i == LocalSlot(c, st.i)
      o == Operand(c, st.e)
      pushed == Push(Push(c, st.i), st.e)
  IN  CASE arr = NoSlot /\ ~(Pure(st.i) /\ Pure(st.e)) -> Refuse(c)
        [] arr = NoSlot /\ Pure(st.i) /\ Pure(st.e) -> Emit(Emit(pushed, <<"IndexStoreName", st.x>>), <<"Pop">>)
        [] arr # NoSlot /\ i = NoSlot -> Emit(Emit(pushed, <<"IndexStoreLocal", arr>>), <<"Pop">>)
        [] arr # NoSlot /\ i # NoSlot /\ IsImm(st.e) -> Emit(c, <<"RegIndexStoreImm", arr, i, st.e.v>>)
        [] arr # NoSlot /\ i # NoSlot /\ ~IsImm(st.e) -> Release(Emit(o.c, <<"RegIndexStore", arr, i, o.reg>>), o)

(* `a.push(e);` leaves nothing to pop. *)
IsVoidPush(c, e) == e.k = "change" /\ e.op = "push" /\ Len(e.args) = 1 /\ SlotOf(c, e.x) # NoSlot
CompileVoidPush(c, e) ==
  LET arr == SlotOf(c, e.x)
      o == Operand(c, e.args[1])
  IN  IF IsImm(e.args[1]) THEN Emit(c, <<"RegPushImm", arr, e.args[1].v>>)
      ELSE Release(Emit(o.c, <<"RegPush", arr, o.reg>>), o)

(* Mutant of CompileDo: the value of an expression statement stays. *)
CompileDoKept(c, st, tail) == IF ~tail /\ IsVoidPush(c, st.e) THEN CompileVoidPush(c, st.e) ELSE Push(c, st.e)
CompileDo(c, st, tail) ==
  IF ~tail /\ IsVoidPush(c, st.e) THEN CompileVoidPush(c, st.e)
  ELSE IF tail THEN Push(c, st.e) ELSE Emit(Push(c, st.e), <<"Pop">>)

(* The last instruction of c jumps over what Body adds. *)
Skipping(c, Body(_)) == LET d == Body(c) IN Patch(d, Here(c) - 1, Here(d))

BranchOn(c, e) ==
  IF LocalElement(c, e) THEN Emit(c, <<"RegIndexBranchFalse", LocalSlot(c, e.args[1]), LocalSlot(c, e.args[2]), 0>>)
  ELSE Emit(Push(c, e), <<"JumpIfFalse", 0>>)
CompileIf(c, st) ==
  IF st.c = <<>> THEN Skipping(BranchOn(c, st.e), LAMBDA d : CompileBlock(d, st.b))
  ELSE Skipping(Skipping(BranchOn(c, st.e), LAMBDA d : Emit(CompileBlock(d, st.b), <<"Jump", 0>>)),
                LAMBDA d : CompileBlock(d, st.c))

(* `while a * b < c`, `while a < b` and their `<=` forms on locals test    *)
(* and branch in one instruction.                                          *)
Tests(e) == e.k = "node" /\ e.op \in {"<", "<="}
BranchUnless(c, e, a, b) == Emit(c, <<IF e.op = "<=" THEN "BranchLocalLe" ELSE "BranchLocalLt", a, b, 0>>)

FusedProduct(c, e) ==
  /\ Tests(e) /\ IsNode("*", e.args[1]) /\ IsLocal(c, e.args[2])
  /\ \A i \in 1..2 : IsLocal(c, e.args[1].args[i])

CompileLoop(test, start, b) == Skipping(test, LAMBDA d : JumpBack(CompileBlock(d, b), Here(start)))
CompileWhile(c, st) ==
  LET e == st.e
      t == TempOf(c)
      product == Emit(AllocTemp(c), <<"RegBin", "*", t, LocalSlot(c, e.args[1].args[1]), LocalSlot(c, e.args[1].args[2])>>)
  IN  IF FusedProduct(c, e)
      THEN FreeTemp(CompileLoop(BranchUnless(product, e, t, LocalSlot(c, e.args[2])), c, st.b), t)
      ELSE CompileLoop(IF Tests(e) /\ IsLocal(c, e.args[1]) /\ IsLocal(c, e.args[2])
                       THEN BranchUnless(c, e, LocalSlot(c, e.args[1]), LocalSlot(c, e.args[2]))
                       ELSE Emit(Push(c, e), <<"JumpIfFalse", 0>>), c, st.b)

(* `for _ in lo..hi { a.push(<literal>) }` *)
IsFill(c, st) ==
  /\ st.by = <<>> /\ Len(st.b) = 1 /\ st.b[1].k = "do"
  /\ IsVoidPush(c, st.b[1].e) /\ IsImm(st.b[1].e.args[1])
CompileFill(c, st) ==
  LET lo == Operand(c, st.lo)
      hi == Operand(lo.c, st.hi)
      push == st.b[1].e
  IN  Release(Release(Emit(hi.c, <<"RegFill", SlotOf(c, push.x), lo.reg, hi.reg, push.args[1].v>>), hi), lo)

(* i = lo; while i < hi { body; i += step }, the variable a slot of its    *)
(* own and bound from here on.                                             *)
BoundPlus(c, e) == e.k = "node" /\ e.op \in {"+", "-"} /\ IsLocal(c, e.args[1]) /\ IsImm(e.args[2]) /\ Is("num", e.args[2].v)
CompileTest(c, hi, slot) ==
  IF IsLocal(c, hi) THEN Emit(c, <<"BranchLocalLt", slot, LocalSlot(c, hi), 0>>)
  ELSE IF BoundPlus(c, hi)
  THEN LET k == Of(hi.args[2].v) IN
       Emit(c, <<"BranchLocalCmpSum", slot, LocalSlot(c, hi.args[1]), IF hi.op = "+" THEN k ELSE -k, 0>>)
  ELSE Emit(Emit(Push(Emit(c, <<"LoadLocal", slot>>), hi), <<"Binary", "<">>), <<"JumpIfFalse", 0>>)
CompileStep(c, by, slot) ==
  IF by = <<>> THEN Emit(c, <<"AddImmLocal", slot, 1>>)
  ELSE IF IsLocal(c, by[1]) THEN Emit(c, <<"RegBin", "+", slot, slot, LocalSlot(c, by[1])>>)
  ELSE IF IsImm(by[1]) /\ Is("num", by[1].v) THEN Emit(c, <<"AddImmLocal", slot, Of(by[1].v)>>)
  ELSE IF IsImm(by[1]) THEN Emit(c, <<"RegBinImm", "+", slot, slot, by[1].v>>)
  ELSE Emit(Push(c, by[1]), <<"AddToSlot", slot>>)

CompileTurns(start, st, slot) ==
  Skipping(CompileTest(start, st.hi, slot),
           LAMBDA d : JumpBack(CompileStep(CompileBlock(d, st.b), st.by, slot), Here(start)))
CompileFor(c, st) ==
  IF IsFill(c, st) THEN CompileFill(c, st)
  ELSE CompileTurns(Into(Alloc(c, st.x), st.lo, c.slots), st, c.slots)

CompileKind(c, st, tail) ==
  CASE st.k = "let" -> CompileLet(c, st)
    [] st.k = "set" -> IF st.op = "=" THEN CompileSet(c, st) ELSE CompileCompound(c, st)
    [] st.k = "put" -> CompilePut(c, st)
    [] st.k = "do" -> CompileDo(c, st, tail)
    [] st.k = "return" -> Emit(Push(c, st.e), <<"ReturnValue">>)
    [] st.k = "if" -> CompileIf(c, st)
    [] st.k = "while" -> CompileWhile(c, st)
    [] st.k = "for" -> CompileFor(c, st)
CompileStmt(c, st, tail) == CompileKind([c EXCEPT !.starts = @ \cup {Here(c)}], st, tail)

(* The parameters are the first slots.  A trailing expression is returned; *)
(* a body that does not end in ReturnValue gets a Nil to return.           *)
Prologue(params) ==
  [code |-> IF params = <<>> THEN <<>> ELSE <<<<"BindParams", Len(params)>>>>,
   locals |-> [i \in DOMAIN params |-> <<params[i], i - 1>>],
   slots |-> Len(params), free |-> <<>>, starts |-> {}, ok |-> TRUE]
Returning(c) ==
  IF c.code # <<>> /\ Last(c.code) = <<"ReturnValue">> THEN c
  ELSE Emit(Emit(c, <<"Const", Nil>>), <<"ReturnValue">>)
CompileFn(f) ==
  IF f.body # <<>> /\ Last(f.body).k = "do"
  THEN Emit(CompileStmt(CompileBlock(Prologue(f.params), Front(f.body)), Last(f.body), TRUE), <<"ReturnValue">>)
  ELSE Returning(CompileBlock(Prologue(f.params), f.body))

=============================================================================
