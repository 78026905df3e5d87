-------------------------------- MODULE Machine --------------------------------
(***************************************************************************)
(* One call of a `fn` with the VM on (prima-runtime, vm/exec.rs,           *)
(* vm/helpers.rs): the chunk of the body runs over its slots and the       *)
(* operand stack; a body the compiler refused, or a chunk that meets a     *)
(* capability limit, is interpreted instead, from the beginning and with   *)
(* whatever the chunk has done to the globals.                             *)
(*                                                                         *)
(* The compiler and the interpreter are parameters: run_vm executes any    *)
(* chunk it is given, and what it relies on is said of chunks (Fits,       *)
(* Disciplined).  An instruction that finds no operand or no slot goes on  *)
(* with Nil (exec.rs:66, exec.rs:136), so nothing shows that it was        *)
(* missing.  Calls inside a body are CallTiers's.                          *)
(***************************************************************************)
EXTENDS Values

CONSTANTS
  Functions,             \* functions to call: a record with its parameters
  Arguments,             \* what a parameter may be
  Globals,               \* the scope the functions are defined in
  Compiled(_),           \* the chunk the compiler makes of a function
  Interpreted(_, _, _)   \* the answer of the interpreter, and the globals it leaves

ASSUME FunctionsAssumption == \A fn \in Functions : fn.params \in Seq(STRING)
ASSUME GlobalsAssumption ==
  DOMAIN Globals \subseteq STRING /\ Globals = [x \in DOMAIN Globals |-> Globals[x]]

VARIABLES
  f, args,     \* the function called and its arguments
  chunk,       \* what the compiler makes of it
  ip, slots, stack,   \* the frame and the operand stack
  globals,
  phase,       \* "call", "vm", "ast", "done"
  ans

vars == <<f, args, chunk, ip, slots, stack, globals, phase, ans>>
code == chunk.code

-----------------------------------------------------------------------------

Init ==
  /\ f \in Functions /\ args \in [DOMAIN f.params -> Arguments]
  /\ chunk = Compiled(f)
  /\ ip = 0 /\ slots = <<>> /\ stack = <<>>
  /\ globals = Globals /\ phase = "call" /\ ans = Nil

(* try_vm_single: push a frame of Nils and the arguments, unless the       *)
(* compiler refused the body.  The chunk is compiled at the first call and *)
(* kept in the definition's VmChunkCache, so it may as well be there.      *)
Call ==
  /\ phase = "call"
  /\ IF chunk.ok
     THEN slots' = [i \in 1..chunk.slots |-> Nil] /\ stack' = args /\ phase' = "vm"
     ELSE phase' = "ast" /\ UNCHANGED <<slots, stack>>
  /\ UNCHANGED <<f, args, chunk, ip, globals, ans>>

(* The interpreter runs the body from the beginning. *)
Interpret ==
  /\ phase = "ast" /\ phase' = "done"
  /\ LET r == Interpreted(f, args, globals) IN ans' = r.ans /\ globals' = r.globals
  /\ UNCHANGED <<f, args, chunk, ip, slots, stack>>

-----------------------------------------------------------------------------
(* Instructions *)

Running == phase = "vm" /\ ip < Len(code)
op == code[ip + 1]
At(names) == Running /\ op[1] \in names

Slot(s) == slots[s + 1]
Top(n) == IF Len(stack) >= n THEN stack[Len(stack) - n + 1] ELSE Nil
(* Mutant of Below: one operand too many is taken. *)
BelowOneMore(n) == SubSeq(stack, 1, Len(stack) - n - 1)
Below(n) == SubSeq(stack, 1, Len(stack) - n)
TopArgs(n) == [i \in 1..n |-> Top(n - i + 1)]

Static == UNCHANGED <<f, args, chunk>>
Finish(v) == phase' = "done" /\ ans' = v /\ UNCHANGED <<ip, slots, stack, globals>>
(* Mutant of Limit: the call is tried again instead of interpreted. *)
LimitRetried == phase' = "call" /\ ip' = 0 /\ slots' = <<>> /\ stack' = <<>> /\ UNCHANGED <<globals, ans>>
Limit == phase' = "ast" /\ UNCHANGED <<ip, slots, stack, globals, ans>>
Continue == phase' = phase /\ ans' = ans
Advance == ip' = ip + 1 /\ Continue

(* Replace the top n of the stack by v, or stop on an error. *)
Answer(n, v) ==
  IF v = Error THEN Finish(Error)
  ELSE stack' = Append(Below(n), v) /\ Advance /\ UNCHANGED <<slots, globals>>
Store(n, s, v) ==
  IF v = Error THEN Finish(Error)
  ELSE stack' = Below(n) /\ slots' = [slots EXCEPT ![s + 1] = v] /\ Advance /\ UNCHANGED globals
Branch(v) ==
  IF ~Is("bool", v) THEN Finish(Error)
  ELSE ip' = (IF Of(v) THEN ip + 1 ELSE ip + Last(op)) /\ Continue /\ UNCHANGED <<slots, globals>>

(* vm_index reads tuples as well. *)
Read(a, i) == IF Is("tuple", a) THEN Element(Array(Of(a)), i) ELSE Element(a, i)

(* Mutant of BindParams: the arguments stay on the stack. *)
BindParamsKept ==
  /\ At({"BindParams"}) /\ Static
  /\ slots' = [i \in DOMAIN slots |-> IF i <= op[2] THEN TopArgs(op[2])[i] ELSE slots[i]]
  /\ stack' = stack /\ Advance /\ UNCHANGED globals
BindParams ==
  /\ At({"BindParams"}) /\ Static
  /\ slots' = [i \in DOMAIN slots |-> IF i <= op[2] THEN TopArgs(op[2])[i] ELSE slots[i]]
  /\ stack' = Below(op[2]) /\ Advance /\ UNCHANGED globals

Load ==
  /\ At({"LoadLocal", "LoadName", "Const", "Dup"}) /\ Static
  /\ Answer(0, CASE op[1] = "LoadLocal" -> Slot(op[2])
                 [] op[1] = "LoadName" -> Lookup(<<globals>>, op[2])
                 [] op[1] = "Const" -> op[2]
                 [] op[1] = "Dup" -> Top(1))

Pop ==
  /\ At({"Pop"}) /\ Static
  /\ stack' = Below(1) /\ Advance /\ UNCHANGED <<slots, globals>>

Operate ==
  /\ At({"Binary", "Neg", "Not", "Index", "Method", "MakeArray", "MakeTuple"}) /\ Static
  /\ CASE op[1] = "Binary" -> Answer(2, Binary(op[2], Top(2), Top(1)))
       [] op[1] = "Neg" -> Answer(1, Negate(Top(1)))
       [] op[1] = "Not" -> Answer(1, Apply("not", <<Top(1)>>))
       [] op[1] = "Index" -> Answer(2, Read(Top(2), Top(1)))
       [] op[1] = "Method" -> Answer(1, Apply(op[2], <<Top(1)>>))
       [] op[1] = "MakeArray" -> Answer(op[2], Array(TopArgs(op[2])))
       [] op[1] = "MakeTuple" -> Answer(op[2], Tuple(TopArgs(op[2])))

SetLocal ==
  /\ At({"SetLocalNc", "AddToSlot"}) /\ Static
  /\ Store(1, op[2], IF op[1] = "AddToSlot" THEN Binary("+", Slot(op[2]), Top(1)) ELSE Top(1))

(* Register forms: no operand goes over the stack. *)
Register ==
  /\ At({"RegMove", "RegNeg", "RegBin", "RegBinImm", "AddImmLocal", "RegMulAdd", "RegIndex"}) /\ Static
  /\ CASE op[1] = "RegMove" -> Store(0, op[2], Slot(op[3]))
       [] op[1] = "RegNeg" -> Store(0, op[2], Negate(Slot(op[3])))
       [] op[1] = "RegBin" -> Store(0, op[3], Binary(op[2], Slot(op[4]), Slot(op[5])))
       [] op[1] = "RegBinImm" -> Store(0, op[3], Binary(op[2], Slot(op[4]), op[5]))
       [] op[1] = "AddImmLocal" -> Store(0, op[2], Binary("+", Slot(op[2]), Num(op[3])))
       [] op[1] = "RegMulAdd" ->
            LET product == Binary("*", Slot(op[3]), Slot(op[4])) IN
            IF product = Error THEN Finish(Error) ELSE Store(0, op[2], Binary("+", Slot(op[2]), product))
       [] op[1] = "RegIndex" -> Store(0, op[2], Read(Slot(op[3]), Slot(op[4])))

RegIndexPush ==
  /\ At({"RegIndexPush"}) /\ Static
  /\ Answer(0, Read(Slot(op[2]), Slot(op[3])))

Jump ==
  /\ At({"Jump"}) /\ Static
  /\ ip' = ip + Last(op) /\ Continue /\ UNCHANGED <<slots, stack, globals>>

JumpIfFalse ==
  /\ At({"JumpIfFalse"}) /\ Static
  /\ Branch(Top(1)) /\ (Is("bool", Top(1)) => stack' = Below(1))

BranchLocal ==
  /\ At({"BranchLocalLt", "BranchLocalLe", "BranchLocalCmpSum", "RegIndexBranchFalse"}) /\ Static
  /\ LET v == CASE op[1] = "BranchLocalLt" -> Compare("<", Slot(op[2]), Slot(op[3]))
                [] op[1] = "BranchLocalLe" -> Compare("<=", Slot(op[2]), Slot(op[3]))
                [] op[1] = "BranchLocalCmpSum" ->
                     LET sum == Binary("+", Slot(op[3]), Num(op[4]))
                     IN  IF sum = Error THEN Error ELSE Compare("<", Slot(op[2]), sum)
                [] op[1] = "RegIndexBranchFalse" -> Read(Slot(op[2]), Slot(op[3]))
     IN  Branch(v) /\ (Is("bool", v) => stack' = stack)

(* Mutating methods.  A receiver that is no array is a limit.  MethodName  *)
(* looks the method up where the receiver was meant (exec.rs:1483): there  *)
(* is no array named push, so it is a limit too.                           *)
Method ==
  /\ At({"MethodLocal"}) /\ Static
  /\ LET was == Slot(op[4])
         m == Mutated(op[2], Of(was), TopArgs(op[3]))
     IN  IF ~Is("array", was) THEN Limit
         ELSE /\ slots' = [slots EXCEPT ![op[4] + 1] = Array(m[1])]
              /\ stack' = Append(Below(op[3]), m[2]) /\ Advance /\ UNCHANGED globals

MethodName == At({"MethodName"}) /\ Static /\ Limit

(* Void pushes and fills.  A bound that is no integer is reported with its *)
(* span, which makes an error of what was meant as a limit.                *)
RegPush ==
  /\ At({"RegPush", "RegPushImm"}) /\ Static
  /\ IF ~Is("array", Slot(op[2])) THEN Limit
     ELSE Store(0, op[2], Array(Append(Of(Slot(op[2])), IF op[1] = "RegPush" THEN Slot(op[3]) ELSE op[3])))

RegFill ==
  /\ At({"RegFill"}) /\ Static
  /\ LET lo == Slot(op[3])
         hi == Slot(op[4])
         more == [i \in 1..(Of(hi) - Of(lo)) |-> op[5]]
     IN  IF ~Is("num", lo) \/ ~Is("num", hi) THEN Finish(Error)
         ELSE IF ~Is("array", Slot(op[2])) THEN Limit
         ELSE Store(0, op[2], Array(Of(Slot(op[2])) \o more))

(* Element stores.  The stack forms leave the value on the stack. *)
RegIndexStore ==
  /\ At({"RegIndexStore", "RegIndexStoreImm"}) /\ Static
  /\ LET v == IF op[1] = "RegIndexStore" THEN Slot(op[4]) ELSE op[4] IN
     IF ~Is("array", Slot(op[2])) /\ ~Is("num", Slot(op[3])) THEN Limit
     ELSE Store(0, op[2], Replaced(Slot(op[2]), Slot(op[3]), v))

IndexStoreLocal ==
  /\ At({"IndexStoreLocal"}) /\ Static
  /\ LET new == Replaced(Slot(op[2]), Top(2), Top(1)) IN
     IF new = Error THEN Finish(Error)
     ELSE /\ slots' = [slots EXCEPT ![op[2] + 1] = new]
          /\ stack' = Append(Below(2), Top(1)) /\ Advance /\ UNCHANGED globals

(* Mutant of IndexStoreName: the global is the element, not the array with it. *)
IndexStoreNameWhole ==
  /\ At({"IndexStoreName"}) /\ Static
  /\ IF ~Is("array", Lookup(<<globals>>, op[2])) THEN Limit
     ELSE IF Replaced(Lookup(<<globals>>, op[2]), Top(2), Top(1)) = Error THEN Finish(Error)
     ELSE /\ globals' = [globals EXCEPT ![op[2]] = Top(1)]
          /\ stack' = Append(Below(2), Top(1)) /\ Advance /\ UNCHANGED slots
IndexStoreName ==
  /\ At({"IndexStoreName"}) /\ Static
  /\ LET was == Lookup(<<globals>>, op[2])
         new == Replaced(was, Top(2), Top(1))
     IN  IF ~Is("array", was) THEN Limit
         ELSE IF new = Error THEN Finish(Error)
         ELSE /\ globals' = [globals EXCEPT ![op[2]] = new]
              /\ stack' = Append(Below(2), Top(1)) /\ Advance /\ UNCHANGED slots

(* ReturnValue, or the end of the code: the answer is the top of the stack. *)
ReturnValue ==
  /\ phase = "vm" /\ (At({"ReturnValue"}) \/ ip = Len(code)) /\ Static
  /\ Finish(Top(1))

Step ==
  \/ BindParams \/ Load \/ Pop \/ Operate \/ SetLocal \/ Register \/ RegIndexPush
  \/ Jump \/ JumpIfFalse \/ BranchLocal \/ Method \/ MethodName \/ RegPush \/ RegFill
  \/ RegIndexStore \/ IndexStoreLocal \/ IndexStoreName \/ ReturnValue

Ended == phase = "done" /\ UNCHANGED vars

Next == Call \/ Interpret \/ Step \/ Ended

(* The interpreter's loop takes the next step until the call has ended. *)
Fairness == WF_vars(Next)

Spec == Init /\ [][Next]_vars /\ Fairness

-----------------------------------------------------------------------------
(* What run_vm relies on.  SlotsOf are the slots an instruction names,     *)
(* Takes and Puts the operands it takes off the stack and puts there.      *)

SlotsOf(i) ==
  CASE i[1] \in {"LoadLocal", "SetLocalNc", "AddToSlot", "AddImmLocal", "IndexStoreLocal",
                 "RegPushImm", "BranchLocalCmpSum"} -> {i[2]}
    [] i[1] \in {"RegMove", "RegNeg", "RegIndexPush", "RegPush", "BranchLocalLt", "BranchLocalLe",
                 "RegIndexBranchFalse", "RegIndexStoreImm"} -> {i[2], i[3]}
    [] i[1] \in {"RegIndex", "RegMulAdd", "RegIndexStore", "RegFill"} -> {i[2], i[3], i[4]}
    [] i[1] = "RegBin" -> {i[3], i[4], i[5]}
    [] i[1] = "RegBinImm" -> {i[3], i[4]}
    [] i[1] = "MethodLocal" -> {i[4]}
    [] OTHER -> {}
Jumps == {"Jump", "JumpIfFalse", "BranchLocalLt", "BranchLocalLe", "BranchLocalCmpSum", "RegIndexBranchFalse"}

Takes(i) ==
  CASE i[1] \in {"BindParams", "MakeArray", "MakeTuple"} -> i[2]
    [] i[1] \in {"MethodLocal", "MethodName"} -> i[3]
    [] i[1] \in {"Binary", "Index", "IndexStoreLocal", "IndexStoreName"} -> 2
    [] i[1] \in {"Dup", "Pop", "Neg", "Not", "Method", "SetLocalNc", "AddToSlot", "JumpIfFalse", "ReturnValue"} -> 1
    [] OTHER -> 0
Puts(i) ==
  CASE i[1] = "Dup" -> 2
    [] i[1] \in {"LoadLocal", "LoadName", "Const", "Binary", "Neg", "Not", "Index", "Method", "MakeArray", "MakeTuple",
                 "RegIndexPush", "MethodLocal", "MethodName", "IndexStoreLocal", "IndexStoreName"} -> 1
    [] OTHER -> 0

(* The slots instructions name are slots of the frame, and jumps land in   *)
(* the code or just past it.                                               *)
Fits(c) ==
  /\ c.slots \in Nat /\ Len(c.code) \in Nat
  /\ \A i \in 1..Len(c.code) :
       /\ SlotsOf(c.code[i]) \subseteq 0..c.slots - 1
       /\ c.code[i][1] \in Jumps => i - 1 + Last(c.code[i]) \in 0..Len(c.code)

(* depth[ip] operands are on the stack before the instruction at ip: n,    *)
(* the arguments, at first, no fewer than it takes, the same on            *)
(* every path to it, and none where a statement starts.                    *)
Balanced(c, n, depth) ==
  /\ depth \in [0..Len(c.code) -> Nat] /\ depth[0] = n
  /\ \A i \in 1..Len(c.code) :
       /\ Takes(c.code[i]) \in 0..depth[i - 1]
       /\ depth[i] = depth[i - 1] - Takes(c.code[i]) + Puts(c.code[i])
       /\ c.code[i][1] \in Jumps => depth[i - 1 + Last(c.code[i])] = depth[i]
  /\ \A s \in c.starts : depth[s] = 0

(* The depths of a chunk called with n arguments, by adding up. *)
Depths(c, n) ==
  LET depth[i \in 0..Len(c.code)] ==
        IF i = 0 THEN n ELSE depth[i - 1] - Takes(c.code[i]) + Puts(c.code[i])
  IN  depth
Disciplined(c, n) == Fits(c) /\ Balanced(c, n, Depths(c, n))

-----------------------------------------------------------------------------
(* Properties *)

(* A frame has the slots its chunk asks for, and the next instruction is   *)
(* one of the chunk's, or the end of its code.                             *)
TypeOK ==
  /\ phase \in {"call", "vm", "ast", "done"}
  /\ phase = "vm" => (DOMAIN slots = 1..chunk.slots /\ ip \in 0..Len(code)) \/ ~Fits(chunk)

(* No instruction goes on with the Nil that stands for an operand or a     *)
(* slot that is not there (pop, split_args and slots.get in exec.rs).      *)
FindsItsOperands ==
  Running => (Takes(op) <= Len(stack) /\ \A s \in SlotsOf(op) : s + 1 \in DOMAIN slots)
             \/ ~Disciplined(chunk, Len(args))

(* Between two statements the operand stack is empty, whichever way they   *)
(* were reached: an operand left behind would be handed to a later         *)
(* operator, and a body that runs off its end would answer with it.        *)
StackEmptyBetweenStatements ==
  phase = "vm" /\ ip \in chunk.starts => stack = <<>> \/ ~Disciplined(chunk, Len(args))

(* When the interpreter starts over, the chunk has changed no more than    *)
(* elements of global arrays it stores into: the globals have their names, *)
(* every other value, and the arrays their lengths.                        *)
StoredNames == {code[i][2] : i \in {j \in 1..Len(code) : code[j][1] = "IndexStoreName"}}
ElementsOnly(x) ==
  x \in StoredNames /\ Is("array", Globals[x]) /\ Is("array", globals[x]) /\ DOMAIN Of(globals[x]) = DOMAIN Of(Globals[x])
RerunSeesElementStores ==
  phase # "done" =>
    (DOMAIN globals = DOMAIN Globals /\ \A x \in DOMAIN Globals : globals[x] = Globals[x] \/ ElementsOnly(x))
    \/ ~Fits(chunk)

(* A chunk that stores into no global leaves nothing behind when it gives  *)
(* up: the interpreter answers, and leaves the globals, as if the VM had   *)
(* never run (try_vm_single, is_vm_limit).                                 *)
RerunIsFirstRun ==
  [][phase = "ast" /\ StoredNames = {} /\ Fits(chunk) =>
       LET r == Interpreted(f, args, Globals) IN ans' = r.ans /\ globals' = r.globals]_vars

=============================================================================
