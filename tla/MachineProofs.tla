------------------------------ MODULE MachineProofs ------------------------------
(***************************************************************************)
(* Proofs about a call on the virtual machine (Machine): the frame, that   *)
(* no operand or slot is missing, the operand stack between statements,    *)
(* and what a call has changed when it starts over.                        *)
(*                                                                         *)
(* TypeOK says nothing of the operands.  The inductive invariant IInv adds *)
(* that a disciplined chunk has exactly depth[ip] operands on the stack    *)
(* before the instruction at ip.  Every instruction takes Takes and puts   *)
(* Puts (one lemma XKeeps for each action), an instruction that jumps goes *)
(* where the depth is the same, so the number is right on every path.      *)
(* GInv is the invariant of the globals; it needs nothing of the chunk but *)
(* that it fits its frame.                                                 *)
(*                                                                         *)
(* That the compiler's chunks are disciplined is not proved (its operators *)
(* are recursive): TLC checks it of every body of the run                  *)
(* (ChunksDisciplined in Vm).                                              *)
(***************************************************************************)
EXTENDS Machine, SequenceTheorems, TLAPS

(* The depth before the next instruction. *)
Depth(k) == Depths(chunk, Len(args))[k]
Regular == Disciplined(chunk, Len(args))

IInv ==
  /\ phase \in {"call", "vm", "ast", "done"}
  /\ \E S : args \in Seq(S)
  /\ phase = "call" => ip = 0
  /\ phase = "vm" /\ Fits(chunk) => DOMAIN slots = 1..chunk.slots /\ ip \in 0..Len(code)
  /\ phase = "vm" /\ Regular => (\E S : stack \in Seq(S)) /\ Len(stack) = Depth(ip)

-----------------------------------------------------------------------------
(* The operand stack *)

LEMMA BelowFacts ==
  ASSUME NEW n \in 0..Len(stack), NEW S, stack \in Seq(S)
  PROVE  Below(n) \in Seq(S) /\ Len(Below(n)) = Len(stack) - n
<1>1. Len(stack) \in Nat
  BY LenProperties
<1>2. Len(stack) - n \in 0..Len(stack)
  BY <1>1
<1>3. SubSeq(stack, 1, Len(stack) - n) \in Seq(S) /\ Len(SubSeq(stack, 1, Len(stack) - n)) = Len(stack) - n
  <2>1. CASE Len(stack) - n = 0
    BY <1>1, <2>1, SubSeqProperties, EmptySeq
  <2>2. CASE Len(stack) - n # 0
    BY <1>1, <1>2, <2>2, SubSeqProperties
  <2> QED BY <2>1, <2>2
<1> QED BY <1>3 DEF Below

LEMMA PushedFacts ==
  ASSUME NEW n \in 0..Len(stack), NEW v, NEW S, stack \in Seq(S)
  PROVE  Append(Below(n), v) \in Seq(S \cup {v}) /\ Len(Append(Below(n), v)) = Len(stack) - n + 1
<1>1. Below(n) \in Seq(S \cup {v}) /\ Len(Below(n)) = Len(stack) - n
  BY BelowFacts
<1> QED BY <1>1, AppendProperties

(* The depth at an instruction, after it, and where it may jump to. *)
LEMMA DepthFacts ==
  ASSUME Regular, ip \in 0..Len(code), ip < Len(code)
  PROVE  /\ Depth(ip) \in Nat /\ Takes(op) \in 0..Depth(ip) /\ ip + 1 \in 0..Len(code)
         /\ Depth(ip + 1) = Depth(ip) - Takes(op) + Puts(op)
         /\ op[1] \in Jumps => ip + Last(op) \in 0..Len(code) /\ Depth(ip + Last(op)) = Depth(ip + 1)
<1>1. Fits(chunk) /\ Balanced(chunk, Len(args), Depths(chunk, Len(args)))
  BY DEF Regular, Disciplined
<1>2. PICK d : d = Depths(chunk, Len(args))
  OBVIOUS
<1>3. Balanced(chunk, Len(args), d)
  BY <1>1, <1>2
<1>4. Len(code) \in Nat
  BY <1>1 DEF Fits, code
<1>5. PICK i \in 1..Len(code) : i = ip + 1
  BY <1>4
<1>6. i - 1 = ip /\ code[i] = op
  BY <1>4, <1>5 DEF op
<1>7. /\ d[i - 1] \in Nat /\ Takes(code[i]) \in 0..d[i - 1]
      /\ d[i] = d[i - 1] - Takes(code[i]) + Puts(code[i])
      /\ code[i][1] \in Jumps => d[i - 1 + Last(code[i])] = d[i]
  <2>1. d \in [0..Len(code) -> Nat] /\ i - 1 \in 0..Len(code)
    BY <1>3, <1>4, <1>5 DEF Balanced, code
  <2>2. /\ Takes(code[i]) \in 0..d[i - 1]
        /\ d[i] = d[i - 1] - Takes(code[i]) + Puts(code[i])
        /\ code[i][1] \in Jumps => d[i - 1 + Last(code[i])] = d[i]
    BY <1>3, <1>5, Zenon DEF Balanced, code
  <2> QED BY <2>1, <2>2
<1>8. code[i][1] \in Jumps => i - 1 + Last(code[i]) \in 0..Len(code)
  BY <1>1, <1>5 DEF Fits, code
<1> QED BY <1>2, <1>4, <1>5, <1>6, <1>7, <1>8 DEF Depth

(* The jumps of a chunk that fits land in its code. *)
LEMMA FitFacts ==
  ASSUME Fits(chunk), ip \in 0..Len(code), ip < Len(code)
  PROVE  /\ Len(code) \in Nat /\ ip + 1 \in 0..Len(code)
         /\ op[1] \in Jumps => ip + Last(op) \in 0..Len(code)
         /\ \A s \in SlotsOf(op) : s + 1 \in 1..chunk.slots
<1>1. Len(code) \in Nat /\ chunk.slots \in Nat
  BY DEF Fits, code
<1>2. PICK i \in 1..Len(code) : i = ip + 1
  BY <1>1
<1>3. i - 1 = ip /\ code[i] = op
  BY <1>1, <1>2 DEF op
<1>4. /\ SlotsOf(code[i]) \subseteq 0..chunk.slots - 1
      /\ code[i][1] \in Jumps => i - 1 + Last(code[i]) \in 0..Len(code)
  BY <1>2 DEF Fits, code
<1> QED BY <1>1, <1>2, <1>3, <1>4

-----------------------------------------------------------------------------
(* What a step does to the frame *)

Here == phase = "vm" /\ Fits(chunk) => DOMAIN slots = 1..chunk.slots /\ ip \in 0..Len(code)
Operands == phase = "vm" /\ Regular => (\E S : stack \in Seq(S)) /\ Len(stack) = Depth(ip)

LEMMA StaticKeeps ==
  ASSUME Static
  PROVE  /\ code' = code /\ Fits(chunk)' = Fits(chunk) /\ Regular' = Regular
         /\ (\A k : Depth(k)' = Depth(k)) /\ chunk' = chunk /\ args' = args
BY DEF Static, code, Regular, Depth

(* A step that goes on is judged by where it goes and what it leaves. *)
LEMMA GoesOn ==
  ASSUME IInv, Running, Static, phase' = phase,
         Fits(chunk) => DOMAIN slots' = DOMAIN slots /\ ip' \in 0..Len(code),
         Regular => (\E S : stack' \in Seq(S)) /\ Len(stack') = Depth(ip')
  PROVE  IInv'
<1>1. phase = "vm"
  BY DEF Running
<1>2. (\E S : args \in Seq(S))'
  BY StaticKeeps DEF IInv
<1>3. Here'
  BY <1>1, StaticKeeps DEF Here, IInv
<1>4. Operands'
  <2>1. Depth(ip)' = Depth(ip')
    BY StaticKeeps DEF Depth
  <2>2. Regular' = Regular
    BY StaticKeeps
  <2> QED BY <2>1, <2>2 DEF Operands
<1> QED BY <1>1, <1>2, <1>3, <1>4 DEF IInv, Here, Operands

LEMMA Stops ==
  ASSUME IInv, Static, phase' \in {"ast", "done"}
  PROVE  IInv'
<1>1. (\E S : args \in Seq(S))'
  BY StaticKeeps DEF IInv
<1> QED BY <1>1 DEF IInv

(* A running chunk that fits, or one in balance too. *)
LEMMA RunningFacts ==
  ASSUME IInv, Running
  PROVE  /\ phase = "vm"
         /\ Fits(chunk) => /\ DOMAIN slots = 1..chunk.slots /\ ip \in 0..Len(code) /\ ip < Len(code)
                           /\ ip + 1 \in 0..Len(code)
         /\ Regular => Fits(chunk) /\ (\E S : stack \in Seq(S)) /\ Len(stack) = Depth(ip)
<1>1. phase = "vm" /\ ip < Len(code)
  BY DEF Running
<1>2. Regular => Fits(chunk)
  BY DEF Regular, Disciplined
<1>3. Fits(chunk) => DOMAIN slots = 1..chunk.slots /\ ip \in 0..Len(code)
  BY <1>1 DEF IInv
<1>4. Fits(chunk) => ip + 1 \in 0..Len(code)
  BY <1>1, <1>3, FitFacts
<1> QED BY <1>1, <1>2, <1>3, <1>4 DEF IInv

(* n operands replaced by one *)
LEMMA ReplacedKeeps ==
  ASSUME IInv, Running, Static, NEW n, NEW v, stack' = Append(Below(n), v), ip' = ip + 1, phase' = phase,
         DOMAIN slots' = DOMAIN slots, Takes(op) \in Nat => n \in 0..Takes(op) /\ Puts(op) - Takes(op) = 1 - n
  PROVE  IInv'
<1>1. Fits(chunk) => DOMAIN slots' = DOMAIN slots /\ ip' \in 0..Len(code)
  BY RunningFacts
<1>2. ASSUME Regular PROVE (\E S : stack' \in Seq(S)) /\ Len(stack') = Depth(ip')
  <2>1. /\ Depth(ip) \in Nat /\ Takes(op) \in 0..Depth(ip)
        /\ Depth(ip + 1) = Depth(ip) - Takes(op) + Puts(op)
    BY <1>2, RunningFacts, DepthFacts
  <2>2. PICK S : stack \in Seq(S)
    BY <1>2, RunningFacts
  <2>3. n \in 0..Takes(op) /\ Puts(op) - Takes(op) = 1 - n /\ Puts(op) \in Nat
    BY <2>1 DEF Puts
  <2>4. Len(stack) = Depth(ip)
    BY <1>2, RunningFacts
  <2>5. n \in 0..Len(stack)
    BY <2>1, <2>3, <2>4
  <2>6. stack' \in Seq(S \cup {v}) /\ Len(stack') = Len(stack) - n + 1
    BY <2>2, <2>5, PushedFacts
  <2>7. PICK d, t, p : d = Depth(ip) /\ t = Takes(op) /\ p = Puts(op)
    OBVIOUS
  <2>8. d \in Nat /\ t \in 0..d /\ p \in Nat /\ n \in 0..t /\ p - t = 1 - n
    BY <2>1, <2>3, <2>7
  <2>9. Len(stack') = d - n + 1 /\ Depth(ip + 1) = d - t + p
    BY <2>1, <2>4, <2>6, <2>7
  <2>10. Len(stack') = Depth(ip + 1)
    BY <2>8, <2>9
  <2> QED BY <2>6, <2>10
<1> QED BY <1>1, <1>2, GoesOn

LEMMA AnswerKeeps ==
  ASSUME IInv, Running, Static, NEW n, NEW v, Answer(n, v),
         Takes(op) \in Nat => n \in 0..Takes(op) /\ Puts(op) - Takes(op) = 1 - n
  PROVE  IInv'
<1>1. CASE v = Error
  BY <1>1, Stops DEF Answer, Finish
<1>2. CASE v # Error
  <2>1. stack' = Append(Below(n), v) /\ ip' = ip + 1 /\ phase' = phase /\ slots' = slots
    BY <1>2 DEF Answer, Advance, Continue
  <2> QED BY <2>1, ReplacedKeeps
<1> QED BY <1>1, <1>2

(* n operands taken, none left *)
LEMMA TakenKeeps ==
  ASSUME IInv, Running, Static, NEW n, stack' = Below(n), ip' = ip + 1, phase' = phase,
         DOMAIN slots' = DOMAIN slots, Takes(op) = n, Puts(op) = 0
  PROVE  IInv'
<1>1. Fits(chunk) => DOMAIN slots' = DOMAIN slots /\ ip' \in 0..Len(code)
  BY RunningFacts
<1>2. ASSUME Regular PROVE (\E S : stack' \in Seq(S)) /\ Len(stack') = Depth(ip')
  <2>1. /\ Depth(ip) \in Nat /\ n \in 0..Depth(ip) /\ Depth(ip + 1) = Depth(ip) - n
    BY <1>2, RunningFacts, DepthFacts
  <2>2. PICK S : stack \in Seq(S)
    BY <1>2, RunningFacts
  <2>3. Len(stack) = Depth(ip)
    BY <1>2, RunningFacts
  <2>4. stack' \in Seq(S) /\ Len(stack') = Len(stack) - n
    BY <2>1, <2>2, <2>3, BelowFacts
  <2> QED BY <2>1, <2>3, <2>4
<1> QED BY <1>1, <1>2, GoesOn

LEMMA StoreKeeps ==
  ASSUME IInv, Running, Static, NEW n, NEW s, NEW v, Store(n, s, v), Takes(op) = n, Puts(op) = 0
  PROVE  IInv'
<1>1. CASE v = Error
  BY <1>1, Stops DEF Store, Finish
<1>2. CASE v # Error
  <2>1. /\ stack' = Below(n) /\ ip' = ip + 1 /\ phase' = phase
        /\ slots' = [slots EXCEPT ![s + 1] = v]
    BY <1>2 DEF Store, Advance, Continue
  <2>2. DOMAIN slots' = DOMAIN slots
    BY <2>1
  <2> QED BY <2>1, <2>2, TakenKeeps
<1> QED BY <1>1, <1>2

(* A branch: the next instruction or the target, and the operand it tests. *)
LEMMA BranchKeeps ==
  ASSUME IInv, Running, Static, NEW n, NEW v, Branch(v),
         Is("bool", v) => stack' = Below(n) \/ (n = 0 /\ stack' = stack),
         Takes(op) = n, Puts(op) = 0, op[1] \in Jumps
  PROVE  IInv'
<1>1. CASE ~Is("bool", v)
  BY <1>1, Stops DEF Branch, Finish
<1>2. CASE Is("bool", v)
  <2>1. /\ stack' = Below(n) \/ (n = 0 /\ stack' = stack)
        /\ phase' = phase /\ slots' = slots
        /\ ip' = ip + 1 \/ ip' = ip + Last(op)
    BY <1>2 DEF Branch, Continue
  <2>2. Fits(chunk) => DOMAIN slots' = DOMAIN slots /\ ip' \in 0..Len(code)
    BY <2>1, RunningFacts, FitFacts
  <2>3. ASSUME Regular PROVE (\E S : stack' \in Seq(S)) /\ Len(stack') = Depth(ip')
    <3>1. /\ Depth(ip) \in Nat /\ n \in 0..Depth(ip) /\ Depth(ip + 1) = Depth(ip) - n
          /\ Depth(ip + Last(op)) = Depth(ip + 1)
      BY <2>3, RunningFacts, DepthFacts
    <3>2. PICK S : stack \in Seq(S)
      BY <2>3, RunningFacts
    <3>3. Len(stack) = Depth(ip)
      BY <2>3, RunningFacts
    <3>4. stack' \in Seq(S) /\ Len(stack') = Len(stack) - n
      BY <2>1, <3>1, <3>2, <3>3, BelowFacts
    <3>5. Depth(ip') = Depth(ip + 1)
      BY <2>1, <3>1
    <3> QED BY <3>1, <3>3, <3>4, <3>5
  <2> QED BY <2>1, <2>2, <2>3, GoesOn
<1> QED BY <1>1, <1>2

-----------------------------------------------------------------------------
(* The instructions *)

LEMMA BindParamsKeeps == ASSUME IInv, BindParams PROVE IInv'
<1>1. Running /\ Static /\ op[1] = "BindParams"
  BY DEF BindParams, At
<1>2. Takes(op) = op[2] /\ Puts(op) = 0
  BY <1>1 DEF Takes, Puts
<1>3. stack' = Below(op[2]) /\ ip' = ip + 1 /\ phase' = phase /\ DOMAIN slots' = DOMAIN slots
  BY DEF BindParams, Advance, Continue
<1> QED BY <1>1, <1>2, <1>3, TakenKeeps

LEMMA LoadKeeps == ASSUME IInv, Load PROVE IInv'
<1>1. Running /\ Static /\ op[1] \in {"LoadLocal", "LoadName", "Const", "Dup"}
  BY DEF Load, At
<1>2. PICK v : Answer(0, v)
  BY DEF Load
<1>3. Takes(op) \in Nat => 0 \in 0..Takes(op) /\ Puts(op) - Takes(op) = 1 - 0
  BY <1>1 DEF Takes, Puts
<1> QED BY <1>1, <1>2, <1>3, AnswerKeeps

LEMMA PopKeeps == ASSUME IInv, Pop PROVE IInv'
<1>1. Running /\ Static /\ op[1] = "Pop"
  BY DEF Pop, At
<1>2. Takes(op) = 1 /\ Puts(op) = 0
  BY <1>1 DEF Takes, Puts
<1>3. stack' = Below(1) /\ ip' = ip + 1 /\ phase' = phase /\ slots' = slots
  BY DEF Pop, Advance, Continue
<1> QED BY <1>1, <1>2, <1>3, TakenKeeps

LEMMA OperateKeeps == ASSUME IInv, Operate PROVE IInv'
<1>1. /\ Running /\ Static
      /\ op[1] \in {"Binary", "Neg", "Not", "Index", "Method", "MakeArray", "MakeTuple"}
  BY DEF Operate, At
<1>2. Puts(op) = 1
  BY <1>1 DEF Puts
<1>3. \E v : Answer(Takes(op), v)
  <2>1. CASE op[1] \in {"Binary", "Index"}
    <3>1. Takes(op) = 2
      BY <2>1 DEF Takes
    <3> QED BY <2>1, <3>1 DEF Operate
  <2>2. CASE op[1] \in {"Neg", "Not", "Method"}
    <3>1. Takes(op) = 1
      BY <2>2 DEF Takes
    <3> QED BY <2>2, <3>1 DEF Operate
  <2>3. CASE op[1] \in {"MakeArray", "MakeTuple"}
    <3>1. Takes(op) = op[2]
      BY <2>3 DEF Takes
    <3> QED BY <2>3, <3>1 DEF Operate
  <2> QED BY <1>1, <2>1, <2>2, <2>3
<1>4. PICK v : Answer(Takes(op), v)
  BY <1>3
<1>5. Takes(op) \in Nat => Takes(op) \in 0..Takes(op) /\ Puts(op) - Takes(op) = 1 - Takes(op)
  BY <1>2
<1> QED BY <1>1, <1>4, <1>5, AnswerKeeps

LEMMA SetLocalKeeps == ASSUME IInv, SetLocal PROVE IInv'
<1>1. Running /\ Static /\ op[1] \in {"SetLocalNc", "AddToSlot"}
  BY DEF SetLocal, At
<1>2. Takes(op) = 1 /\ Puts(op) = 0
  BY <1>1 DEF Takes, Puts
<1>3. \E s, v : Store(1, s, v)
  BY DEF SetLocal
<1> QED BY <1>1, <1>2, <1>3, StoreKeeps

RegisterForms ==
  {"RegMove", "RegNeg", "RegBin", "RegBinImm", "AddImmLocal", "RegMulAdd", "RegIndex",
   "RegPush", "RegPushImm", "RegFill", "RegIndexStore", "RegIndexStoreImm"}

LEMMA RegisterForm ==
  ASSUME op[1] \in RegisterForms
  PROVE  Takes(op) = 0 /\ Puts(op) = 0
BY DEF RegisterForms, Takes, Puts

(* A register form stores, stops on an error, or is a limit. *)
LEMMA RegisterFormKeeps ==
  ASSUME IInv, Running, Static, op[1] \in RegisterForms,
         (\E s, v : Store(0, s, v)) \/ Finish(Error) \/ Limit
  PROVE  IInv'
<1>1. CASE \E s, v : Store(0, s, v)
  BY <1>1, RegisterForm, StoreKeeps
<1>2. CASE Finish(Error) \/ Limit
  BY <1>2, Stops DEF Finish, Limit
<1> QED BY <1>1, <1>2

LEMMA RegisterKeeps == ASSUME IInv, Register PROVE IInv'
<1>1. /\ Running /\ Static
      /\ op[1] \in {"RegMove", "RegNeg", "RegBin", "RegBinImm", "AddImmLocal", "RegMulAdd", "RegIndex"}
  BY DEF Register, At
<1>2. (\E s, v : Store(0, s, v)) \/ Finish(Error)
  <2>1. CASE op[1] = "RegMulAdd"
    BY <2>1 DEF Register
  <2>2. CASE op[1] # "RegMulAdd"
    BY <1>1, <2>2 DEF Register
  <2> QED BY <2>1, <2>2
<1>3. op[1] \in RegisterForms
  BY <1>1 DEF RegisterForms
<1> QED BY <1>1, <1>2, <1>3, RegisterFormKeeps

LEMMA RegPushKeeps == ASSUME IInv, RegPush PROVE IInv'
<1>1. Running /\ Static /\ op[1] \in RegisterForms
  BY DEF RegPush, At, RegisterForms
<1>2. (\E s, v : Store(0, s, v)) \/ Limit
  BY DEF RegPush
<1> QED BY <1>1, <1>2, RegisterFormKeeps

LEMMA RegFillKeeps == ASSUME IInv, RegFill PROVE IInv'
<1>1. Running /\ Static /\ op[1] \in RegisterForms
  BY DEF RegFill, At, RegisterForms
<1>2. (\E s, v : Store(0, s, v)) \/ Finish(Error) \/ Limit
  BY DEF RegFill
<1> QED BY <1>1, <1>2, RegisterFormKeeps

LEMMA RegIndexStoreKeeps == ASSUME IInv, RegIndexStore PROVE IInv'
<1>1. Running /\ Static /\ op[1] \in RegisterForms
  BY DEF RegIndexStore, At, RegisterForms
<1>2. (\E s, v : Store(0, s, v)) \/ Limit
  BY DEF RegIndexStore
<1> QED BY <1>1, <1>2, RegisterFormKeeps

LEMMA RegIndexPushKeeps == ASSUME IInv, RegIndexPush PROVE IInv'
<1>1. Running /\ Static /\ op[1] = "RegIndexPush"
  BY DEF RegIndexPush, At
<1>2. \E v : Answer(0, v)
  BY DEF RegIndexPush
<1>3. Takes(op) = 0 /\ Puts(op) = 1
  BY <1>1 DEF Takes, Puts
<1>4. Takes(op) \in Nat => 0 \in 0..Takes(op) /\ Puts(op) - Takes(op) = 1 - 0
  BY <1>3
<1> QED BY <1>1, <1>2, <1>4, AnswerKeeps

LEMMA JumpKeeps == ASSUME IInv, Jump PROVE IInv'
<1>1. Running /\ Static /\ op[1] = "Jump"
  BY DEF Jump, At
<1>2. Takes(op) = 0 /\ Puts(op) = 0 /\ op[1] \in Jumps
  BY <1>1 DEF Takes, Puts, Jumps
<1>3. ip' = ip + Last(op) /\ phase' = phase /\ slots' = slots /\ stack' = stack
  BY DEF Jump, Continue
<1>4. Fits(chunk) => DOMAIN slots' = DOMAIN slots /\ ip' \in 0..Len(code)
  BY <1>1, <1>2, <1>3, RunningFacts, FitFacts
<1>5. ASSUME Regular PROVE (\E S : stack' \in Seq(S)) /\ Len(stack') = Depth(ip')
  <2>1. /\ Depth(ip) \in Nat /\ Depth(ip + 1) = Depth(ip) - 0 + 0
        /\ Depth(ip + Last(op)) = Depth(ip + 1)
    BY <1>1, <1>2, <1>5, RunningFacts, DepthFacts
  <2>2. (\E S : stack \in Seq(S)) /\ Len(stack) = Depth(ip)
    BY <1>1, <1>5, RunningFacts
  <2> QED BY <1>3, <2>1, <2>2
<1> QED BY <1>1, <1>3, <1>4, <1>5, GoesOn

LEMMA JumpIfFalseKeeps == ASSUME IInv, JumpIfFalse PROVE IInv'
<1>1. Running /\ Static /\ op[1] = "JumpIfFalse"
  BY DEF JumpIfFalse, At
<1>2. Takes(op) = 1 /\ Puts(op) = 0 /\ op[1] \in Jumps
  BY <1>1 DEF Takes, Puts, Jumps
<1>3. \E v : Branch(v) /\ (Is("bool", v) => stack' = Below(1))
  BY DEF JumpIfFalse
<1> QED BY <1>1, <1>2, <1>3, BranchKeeps

LEMMA BranchLocalKeeps == ASSUME IInv, BranchLocal PROVE IInv'
<1>1. /\ Running /\ Static
      /\ op[1] \in {"BranchLocalLt", "BranchLocalLe", "BranchLocalCmpSum", "RegIndexBranchFalse"}
  BY DEF BranchLocal, At
<1>2. Takes(op) = 0 /\ Puts(op) = 0 /\ op[1] \in Jumps
  BY <1>1 DEF Takes, Puts, Jumps
<1>3. \E v : Branch(v) /\ (Is("bool", v) => stack' = stack)
  BY DEF BranchLocal
<1> QED BY <1>1, <1>2, <1>3, BranchKeeps

LEMMA MethodKeeps == ASSUME IInv, Method PROVE IInv'
<1>1. Running /\ Static /\ op[1] = "MethodLocal"
  BY DEF Method, At
<1>2. Takes(op) = op[3] /\ Puts(op) = 1
  BY <1>1 DEF Takes, Puts
<1>3. Limit \/ (/\ \E v : stack' = Append(Below(op[3]), v)
                /\ ip' = ip + 1 /\ phase' = phase /\ DOMAIN slots' = DOMAIN slots)
  BY DEF Method, Advance, Continue
<1>4. CASE Limit
  BY <1>1, <1>4, Stops DEF Limit
<1> QED BY <1>1, <1>2, <1>3, <1>4, ReplacedKeeps

LEMMA MethodNameKeeps == ASSUME IInv, MethodName PROVE IInv'
BY Stops DEF MethodName, Limit

LEMMA IndexStoreLocalKeeps == ASSUME IInv, IndexStoreLocal PROVE IInv'
<1>1. Running /\ Static /\ op[1] = "IndexStoreLocal"
  BY DEF IndexStoreLocal, At
<1>2. Takes(op) = 2 /\ Puts(op) = 1
  BY <1>1 DEF Takes, Puts
<1>3. Finish(Error) \/ (/\ \E v : stack' = Append(Below(2), v)
                        /\ ip' = ip + 1 /\ phase' = phase /\ DOMAIN slots' = DOMAIN slots)
  BY DEF IndexStoreLocal, Advance, Continue
<1>4. CASE Finish(Error)
  BY <1>1, <1>4, Stops DEF Finish
<1> QED BY <1>1, <1>2, <1>3, <1>4, ReplacedKeeps

LEMMA IndexStoreNameKeeps == ASSUME IInv, IndexStoreName PROVE IInv'
<1>1. Running /\ Static /\ op[1] = "IndexStoreName"
  BY DEF IndexStoreName, At
<1>2. Takes(op) = 2 /\ Puts(op) = 1
  BY <1>1 DEF Takes, Puts
<1>3. Finish(Error) \/ Limit \/ (/\ \E v : stack' = Append(Below(2), v)
                                 /\ ip' = ip + 1 /\ phase' = phase /\ slots' = slots)
  BY DEF IndexStoreName, Advance, Continue
<1>4. CASE Finish(Error) \/ Limit
  BY <1>1, <1>4, Stops DEF Finish, Limit
<1> QED BY <1>1, <1>2, <1>3, <1>4, ReplacedKeeps

LEMMA ReturnValueKeeps == ASSUME IInv, ReturnValue PROVE IInv'
BY Stops DEF ReturnValue, Finish

-----------------------------------------------------------------------------
(* The call *)

LEMMA InitFacts == Init => IInv
<1> SUFFICES ASSUME Init PROVE IInv
  OBVIOUS
<1>1. f.params \in Seq(STRING) /\ args \in [DOMAIN f.params -> Arguments]
  BY FunctionsAssumption DEF Init
<1>2. DOMAIN f.params = 1..Len(f.params) /\ Len(f.params) \in Nat
  BY <1>1, LenProperties
<1>3. args \in Seq(Arguments)
  BY <1>1, <1>2, SeqDef
<1> QED BY <1>3 DEF Init, IInv

LEMMA CallKeeps == ASSUME IInv, Call PROVE IInv'
<1>1. args' = args /\ chunk' = chunk /\ ip' = ip /\ ip = 0 /\ phase' \in {"vm", "ast"}
  BY DEF Call, IInv
<1>2. (\E S : args \in Seq(S))'
  BY <1>1 DEF IInv
<1>3. CASE phase' = "ast"
  BY <1>2, <1>3 DEF IInv
<1>4. CASE phase' = "vm"
  <2>1. slots' = [i \in 1..chunk.slots |-> Nil] /\ stack' = args
    BY <1>4 DEF Call
  <2>2. Fits(chunk)' = Fits(chunk) /\ Regular' = Regular /\ Depth(ip)' = Depth(0)
    BY <1>1 DEF Regular, Depth
  <2>3. Here'
    <3>1. DOMAIN slots' = 1..chunk.slots
      BY <2>1
    <3>2. Fits(chunk) => ip' \in 0..Len(code)
      BY <1>1 DEF Fits, code
    <3>3. code' = code
      BY <1>1 DEF code
    <3> QED BY <1>1, <2>2, <3>1, <3>2, <3>3 DEF Here
  <2>4. Regular => Depth(0) = Len(args)
    BY DEF Regular, Disciplined, Balanced, Depth
  <2>5. Operands'
    BY <1>2, <1>1, <2>1, <2>2, <2>4 DEF Operands
  <2> QED BY <1>2, <1>4, <2>3, <2>5 DEF IInv, Here, Operands
<1> QED BY <1>1, <1>3, <1>4

LEMMA InterpretKeeps == ASSUME IInv, Interpret PROVE IInv'
BY Stops DEF Interpret, Static

LEMMA SameKeeps == ASSUME IInv, UNCHANGED vars PROVE IInv'
<1>1. /\ phase' = phase /\ args' = args /\ chunk' = chunk /\ ip' = ip /\ slots' = slots /\ stack' = stack
  BY DEF vars
<1> QED BY <1>1 DEF IInv, Regular, Depth, code

LEMMA NextFacts == IInv /\ [Next]_vars => IInv'
<1> SUFFICES ASSUME IInv, [Next]_vars PROVE IInv'
  OBVIOUS
<1>1. CASE Call
  BY <1>1, CallKeeps
<1>2. CASE Interpret
  BY <1>2, InterpretKeeps
<1>3. CASE Step
  BY <1>3, BindParamsKeeps, LoadKeeps, PopKeeps, OperateKeeps, SetLocalKeeps, RegisterKeeps, RegIndexPushKeeps,
     JumpKeeps, JumpIfFalseKeeps, BranchLocalKeeps, MethodKeeps, MethodNameKeeps, RegPushKeeps, RegFillKeeps,
     RegIndexStoreKeeps, IndexStoreLocalKeeps, IndexStoreNameKeeps, ReturnValueKeeps DEF Step
<1>4. CASE Ended \/ UNCHANGED vars
  BY <1>4, SameKeeps DEF Ended
<1> QED BY <1>1, <1>2, <1>3, <1>4 DEF Next

LEMMA Inductive == Spec => []IInv
BY InitFacts, NextFacts, PTL DEF Spec

-----------------------------------------------------------------------------
(* Theorems *)

(* A frame has the slots of its chunk and the instruction pointer stays in *)
(* the code, for every chunk that fits (push_frame, jump_target).          *)
THEOREM FrameFits == Spec => []TypeOK
<1>1. IInv => TypeOK
  BY DEF IInv, TypeOK
<1> QED BY <1>1, Inductive, PTL

(* No instruction takes an operand that is not there or names a slot that  *)
(* is not there, for every chunk in balance: pop, split_args and slots.get *)
(* never fall back on Nil.                                                 *)
THEOREM NoUnderflow == Spec => []FindsItsOperands
<1>1. IInv => FindsItsOperands
  <2> SUFFICES ASSUME IInv, Running, Regular
               PROVE  Takes(op) <= Len(stack) /\ \A s \in SlotsOf(op) : s + 1 \in DOMAIN slots
    BY DEF FindsItsOperands, Regular
  <2>1. Fits(chunk) /\ DOMAIN slots = 1..chunk.slots /\ ip \in 0..Len(code) /\ ip < Len(code)
    BY RunningFacts
  <2>2. Len(stack) = Depth(ip)
    BY RunningFacts
  <2>3. Depth(ip) \in Nat /\ Takes(op) \in 0..Depth(ip)
    BY <2>1, DepthFacts
  <2>4. \A s \in SlotsOf(op) : s + 1 \in DOMAIN slots
    BY <2>1, FitFacts
  <2> QED BY <2>2, <2>3, <2>4
<1> QED BY <1>1, Inductive, PTL

(* Between statements nothing is left on the operand stack, on every path  *)
(* and for every chunk in balance.                                         *)
THEOREM StackDiscipline == Spec => []StackEmptyBetweenStatements
<1>1. IInv => StackEmptyBetweenStatements
  <2> SUFFICES ASSUME IInv, phase = "vm", ip \in chunk.starts, Regular
               PROVE  stack = <<>>
    BY DEF StackEmptyBetweenStatements, Regular
  <2>1. Len(stack) = Depth(ip) /\ \E S : stack \in Seq(S)
    BY DEF IInv
  <2>2. Depth(ip) = 0
    BY DEF Regular, Disciplined, Balanced, Depth
  <2> QED BY <2>1, <2>2, EmptySeq
<1> QED BY <1>1, Inductive, PTL

-----------------------------------------------------------------------------
(* What a chunk does to the globals *)

Kept(x) == globals[x] = Globals[x] \/ ElementsOnly(x)
GInv ==
  phase # "done" /\ Fits(chunk) => DOMAIN globals = DOMAIN Globals /\ \A x \in DOMAIN Globals : Kept(x)

(* A name found as an array is a global. *)
LEMMA LookupFacts ==
  ASSUME NEW x, Is("array", Lookup(<<globals>>, x))
  PROVE  x \in DOMAIN globals /\ Lookup(<<globals>>, x) = globals[x]
<1>1. ~Is("array", Symbol(x))
  BY DEF Is, Symbol
<1>2. Where(<<globals>>, x) # {}
  BY <1>1 DEF Lookup
<1>3. PICK w : w = Where(<<globals>>, x)
  OBVIOUS
<1>4. w = {1} /\ x \in DOMAIN globals
  BY <1>2, <1>3 DEF Where
<1>5. Innermost(<<globals>>, x) = 1
  <2>1. \A i \in w : (\A j \in w : j <= i) <=> i = 1
    BY <1>4
  <2> QED BY <1>3, <1>4, <2>1 DEF Innermost
<1> QED BY <1>2, <1>4, <1>5 DEF Lookup

LEMMA ReplacedFacts ==
  ASSUME NEW a, NEW i, NEW v, Replaced(a, i, v) # Error
  PROVE  /\ Is("array", a) /\ Is("array", Replaced(a, i, v))
         /\ DOMAIN Of(Replaced(a, i, v)) = DOMAIN Of(a)
BY DEF Replaced, Is, Of, Array

(* Every step but a store into a global leaves the globals alone. *)
LEMMA GlobalsStay ==
  ASSUME Step, ~IndexStoreName
  PROVE  globals' = globals
<1>1. \A n, v : Answer(n, v) => globals' = globals
  BY DEF Answer, Finish
<1>2. \A n, s, v : Store(n, s, v) => globals' = globals
  BY DEF Store, Finish
<1>3. \A v : Branch(v) => globals' = globals
  BY DEF Branch, Finish
<1>4. CASE BindParams \/ Pop \/ Jump \/ MethodName \/ ReturnValue
  BY <1>4 DEF BindParams, Pop, Jump, MethodName, Limit, ReturnValue, Finish
<1>5. CASE Load \/ RegIndexPush
  BY <1>1, <1>5 DEF Load, RegIndexPush
<1>6. CASE Operate
  <2>1. \E n, v : Answer(n, v)
    BY <1>6 DEF Operate, At
  <2> QED BY <1>1, <2>1
<1>7. CASE SetLocal \/ RegPush \/ RegFill \/ RegIndexStore
  BY <1>2, <1>7 DEF SetLocal, RegPush, RegFill, RegIndexStore, Limit, Finish
<1>8. CASE Register
  <2>1. (\E n, s, v : Store(n, s, v)) \/ Finish(Error)
    BY <1>8 DEF Register, At
  <2> QED BY <1>2, <2>1 DEF Finish
<1>9. CASE JumpIfFalse \/ BranchLocal
  BY <1>3, <1>9 DEF JumpIfFalse, BranchLocal
<1>10. CASE Method \/ IndexStoreLocal
  BY <1>10 DEF Method, IndexStoreLocal, Limit, Finish
<1> QED BY <1>4, <1>5, <1>6, <1>7, <1>8, <1>9, <1>10 DEF Step

LEMMA UnchangedKeeps ==
  ASSUME GInv, phase # "done", chunk' = chunk, globals' = globals
  PROVE  GInv'
BY DEF GInv, Kept, ElementsOnly, StoredNames, code

LEMMA StoreNameKeeps ==
  ASSUME IInv, GInv, IndexStoreName
  PROVE  GInv'
<1>1. Running /\ Static /\ op[1] = "IndexStoreName" /\ phase = "vm"
  BY DEF IndexStoreName, At, Running
<1>2. chunk' = chunk
  BY <1>1 DEF Static
<1>3. CASE globals' = globals
  BY <1>1, <1>2, <1>3, UnchangedKeeps
<1>4. CASE globals' # globals
  <2>1. PICK was, new : /\ was = Lookup(<<globals>>, op[2]) /\ new = Replaced(was, Top(2), Top(1))
                        /\ Is("array", was) /\ new # Error
                        /\ globals' = [globals EXCEPT ![op[2]] = new]
    BY <1>4 DEF IndexStoreName, Limit, Finish
  <2>2. op[2] \in DOMAIN globals /\ was = globals[op[2]]
    BY <2>1, LookupFacts
  <2>3. Is("array", new) /\ DOMAIN Of(new) = DOMAIN Of(was)
    BY <2>1, ReplacedFacts
  <2> SUFFICES ASSUME Fits(chunk)
               PROVE  DOMAIN globals' = DOMAIN Globals /\ \A x \in DOMAIN Globals : Kept(x)'
    BY <1>2 DEF GInv
  <2>4. DOMAIN globals' = DOMAIN globals /\ DOMAIN globals = DOMAIN Globals
    BY <1>1, <2>1 DEF GInv
  <2>5. StoredNames' = StoredNames /\ op[2] \in StoredNames
    <3>1. ip + 1 \in 1..Len(code)
      BY <1>1, RunningFacts, FitFacts
    <3> QED BY <1>1, <1>2, <3>1 DEF StoredNames, code, op
  <2>6. ASSUME NEW x \in DOMAIN Globals PROVE Kept(x)'
    <3>1. Kept(x)
      BY <1>1 DEF GInv
    <3>2. CASE x # op[2]
      <4>1. globals'[x] = globals[x]
        BY <2>1, <2>4, <3>2
      <4> QED BY <2>5, <3>1, <4>1 DEF Kept, ElementsOnly
    <3>3. CASE x = op[2]
      <4>1. globals'[x] = new
        BY <2>1, <2>2, <3>3
      <4>2. Is("array", Globals[x]) /\ DOMAIN Of(Globals[x]) = DOMAIN Of(was)
        BY <2>1, <2>2, <3>1, <3>3 DEF Kept, ElementsOnly
      <4> QED BY <2>3, <2>5, <3>3, <4>1, <4>2 DEF Kept, ElementsOnly
    <3> QED BY <3>2, <3>3
  <2> QED BY <2>4, <2>6
<1> QED BY <1>3, <1>4

LEMMA GlobalsInductive == Spec => []GInv
<1>1. Init => GInv
  BY DEF Init, GInv, Kept
<1>2. IInv /\ GInv /\ [Next]_vars => GInv'
  <2> SUFFICES ASSUME IInv, GInv, [Next]_vars PROVE GInv'
    OBVIOUS
  <2>1. CASE Call
    BY <2>1, UnchangedKeeps DEF Call
  <2>2. CASE Interpret
    BY <2>2 DEF Interpret, GInv
  <2>3. CASE Step /\ ~IndexStoreName
    <3>1. phase # "done" /\ chunk' = chunk
      BY <2>3 DEF Step, BindParams, Load, Pop, Operate, SetLocal, Register, RegIndexPush, Jump, JumpIfFalse,
         BranchLocal, Method, MethodName, RegPush, RegFill, RegIndexStore, IndexStoreLocal, ReturnValue,
         At, Running, Static
    <3> QED BY <2>3, <3>1, GlobalsStay, UnchangedKeeps
  <2>4. CASE IndexStoreName
    BY <2>4, StoreNameKeeps
  <2>5. CASE Ended \/ UNCHANGED vars
    BY <2>5 DEF Ended, vars, GInv, Kept, ElementsOnly, StoredNames, code
  <2> QED BY <2>1, <2>2, <2>3, <2>4, <2>5 DEF Next
<1> QED BY <1>1, <1>2, Inductive, PTL DEF Spec

(* A call that falls back to the interpreter, or is still running, has     *)
(* changed nothing outside its frame but elements of global arrays, for    *)
(* every chunk that fits: what an interpretation from the beginning meets. *)
THEOREM OnlyElementStores == Spec => []RerunSeesElementStores
<1>1. GInv => RerunSeesElementStores
  BY DEF GInv, Kept, RerunSeesElementStores
<1> QED BY <1>1, GlobalsInductive, PTL

(* The globals are a function on names until the interpreter has run. *)
Scope == phase # "done" => globals = [x \in DOMAIN globals |-> globals[x]]

LEMMA ScopeInductive == Spec => []Scope
<1>1. Init => Scope
  BY GlobalsAssumption DEF Init, Scope
<1>2. Scope /\ [Next]_vars => Scope'
  <2> SUFFICES ASSUME Scope, [Next]_vars PROVE Scope'
    OBVIOUS
  <2>1. CASE globals' = globals /\ phase # "done"
    BY <2>1 DEF Scope
  <2>2. CASE Call
    BY <2>1, <2>2 DEF Call
  <2>3. CASE Interpret
    BY <2>3 DEF Interpret, Scope
  <2>4. CASE Step /\ ~IndexStoreName
    <3>1. phase # "done"
      BY <2>4 DEF Step, BindParams, Load, Pop, Operate, SetLocal, Register, RegIndexPush, Jump, JumpIfFalse,
         BranchLocal, Method, MethodName, RegPush, RegFill, RegIndexStore, IndexStoreLocal, ReturnValue,
         At, Running
    <3> QED BY <2>1, <2>4, <3>1, GlobalsStay
  <2>5. CASE IndexStoreName
    <3>1. phase # "done"
      BY <2>5 DEF IndexStoreName, At, Running
    <3>2. CASE globals' # globals
      <4>1. PICK new : globals' = [globals EXCEPT ![op[2]] = new]
        BY <2>5, <3>2 DEF IndexStoreName, Limit, Finish
      <4> QED BY <4>1 DEF Scope
    <3> QED BY <2>1, <3>1, <3>2
  <2>6. CASE Ended \/ UNCHANGED vars
    BY <2>6 DEF Ended, vars, Scope
  <2> QED BY <2>2, <2>3, <2>4, <2>5, <2>6 DEF Next
<1> QED BY <1>1, <1>2, PTL DEF Spec

(* When the chunk stores into no global, the interpretation that follows   *)
(* its giving up is the one that would have been made without it.          *)
THEOREM FallbackIsInterpretation == Spec => RerunIsFirstRun
<1> DEFINE Same == phase = "ast" /\ StoredNames = {} /\ Fits(chunk) =>
                     ans' = Interpreted(f, args, Globals).ans /\ globals' = Interpreted(f, args, Globals).globals
<1>1. GInv /\ Scope /\ [Next]_vars => [Same]_vars
  <2> SUFFICES ASSUME GInv, Scope, Next, phase = "ast", StoredNames = {}, Fits(chunk)
               PROVE  /\ ans' = Interpreted(f, args, Globals).ans
                      /\ globals' = Interpreted(f, args, Globals).globals
    OBVIOUS
  <2>1. DOMAIN globals = DOMAIN Globals /\ \A x \in DOMAIN Globals : globals[x] = Globals[x]
    BY DEF GInv, Kept, ElementsOnly
  <2>2. globals = Globals
    BY <2>1, GlobalsAssumption DEF Scope
  <2>3. Interpret
    BY DEF Next, Call, Ended, Step, BindParams, Load, Pop, Operate, SetLocal, Register, RegIndexPush, Jump, JumpIfFalse,
       BranchLocal, Method, MethodName, RegPush, RegFill, RegIndexStore, IndexStoreLocal, IndexStoreName, ReturnValue,
       At, Running
  <2> QED BY <2>2, <2>3 DEF Interpret
<1>2. Spec => [][Same]_vars
  BY <1>1, GlobalsInductive, ScopeInductive, PTL DEF Spec
<1> QED BY <1>2 DEF RerunIsFirstRun
=============================================================================
