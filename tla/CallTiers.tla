------------------------------- MODULE CallTiers -------------------------------
(***************************************************************************)
(* Calls of a `fn` (prima-runtime, eval/apply.rs, eval/call.rs, vm/exec.rs,*)
(* vm/comp.rs, jit_fn.rs, opt.rs): one call may be answered by native      *)
(* code, run by the bytecode VM, or interpreted, by a trampoline or not,   *)
(* and goes down this list when a tier cannot go on.  Each tier has its    *)
(* cache: native code and chunks per definition, callees per call site,    *)
(* valid for one epoch of the function definitions.                        *)
(*                                                                         *)
(* The program is a function f of the environment in which `g` is a name.  *)
(* At first g is a core builtin; the program may define its own g, a `fn`  *)
(* or an MFn that reads a variable.  A body is a sequence of steps, and    *)
(* what can be observed of a call is who printed (`out`) and what the      *)
(* callees answered (`ans`).                                               *)
(***************************************************************************)
EXTENDS Naturals, Sequences, SequencesExt, FiniteSets

CONSTANTS
  Cores,       \* what g may be at first: see CoreKinds
  BodiesF,     \* bodies of f
  BodiesG,     \* bodies of a `fn` g
  Values,      \* values of the variable an MFn g reads
  Threshold,   \* JIT_CALL_THRESHOLD
  MaxEpoch     \* bound: definitions in the process

(* Steps of a body.                                                        *)
(*   say     print                                                         *)
(*   num     arithmetic                                                    *)
(*   big     exact arithmetic that leaves the machine's integers           *)
(*   limit   compiled to an instruction the VM refuses when it gets there  *)
(*   lambda  outside what the VM's compiler accepts                        *)
(*   call    g(x)                                                          *)
(*   tail    return g(x), the last step                                    *)
Steps == {"say", "num", "big", "limit", "lambda", "call", "tail"}
Calls == {"call", "tail"}

(* A builtin on values (to_f64); one that takes an expression and, given   *)
(* values, is refused (derivative); one that takes the name of a function  *)
(* (map, filter, reduce).                                                  *)
CoreKinds == {"plain", "calc", "higher"}

ASSUME StepsAssumption ==
  /\ Cores \subseteq CoreKinds
  /\ BodiesF \subseteq Seq(Steps) /\ BodiesG \subseteq Seq(Steps \ Calls)
  /\ \A b \in BodiesF : \A i \in 1..Len(b) : b[i] = "tail" => i = Len(b)
  /\ Threshold \in Nat /\ MaxEpoch \in Nat

VARIABLES
  core,      \* what the builtin named g is
  fbody, fchunk, fnative,  \* f: body, VmChunkCache, JitFnCache
  callee,    \* callee_cache at f's call sites: the epoch g was a builtin in
  g,         \* the function g is bound to
  global,    \* the variable
  epoch,     \* FUNC_EPOCH
  cfg,       \* opt_level and vm of the running call, and whether it is numeric
  acts,      \* open calls
  out,       \* who printed since the program called f
  status,    \* "idle", "run", "done" or "failed"
  ans,       \* what f answered
  meant      \* the interpreter's output and answer, and whether f is Careful

vars == <<core, fbody, fchunk, fnative, callee, g, global, epoch, cfg, acts, out,
          status, ans, meant>>
program == <<core, fbody, global, epoch, cfg, meant>>

Caches == {"unset", "none", "some"}
Tiers == {"apply", "named", "vm", "ast", "trampoline"}

(* A definition starts with empty caches. *)
Fresh(kind, body) ==
  [kind |-> kind, body |-> body, chunk |-> "unset", native |-> "unset",
   calls |-> 0, hot |-> "unset", baked |-> CHOOSE v \in Values : TRUE]

Top == acts[Len(acts)]
Body == IF Top.fn = "f" THEN fbody ELSE g.body
Here == Body[Top.pc]
AtEnd == Top.pc > Len(Body)

Act(fn, tier) == [fn |-> fn, tier |-> tier, pc |-> 1, ans |-> <<>>]
SetTop(a) == acts' = [acts EXCEPT ![Len(acts)] = a]
Advanced(a) == [Top EXCEPT !.pc = @ + 1, !.ans = @ \o a]
-----------------------------------------------------------------------------
(* What the tiers accept. *)

(* tail_call_of: a last `return g(x)` after statements without effects. A  *)
(* call of a builtin with a to_ name is one, map's is not.                 *)
TailForm(b) ==
  /\ b # <<>> /\ Last(b) = "tail"
  /\ \A i \in 1..(Len(b) - 1) :
       b[i] \in {"num", "big", "lambda"} \cup (IF core = "higher" THEN {} ELSE {"call"})

Trampolined(b) == cfg.opt = "O2" /\ TailForm(b)

(* lower_fn: the numeric subset, of whose calls to_f64 is the only one.    *)
Lowers(b) ==
  \A i \in 1..Len(b) : b[i] \in {"num", "big"} \cup (IF core = "plain" THEN Calls ELSE {})

(* compile_function_body *)
Compiles(b) == \A i \in 1..Len(b) : b[i] # "lambda"

Filled(cache, ok) == IF cache # "unset" THEN cache ELSE IF ok THEN "some" ELSE "none"

(* What native code answers to: O2, numeric arguments, no deopt on the way. *)
NativeAnswers(b, native) ==
  native = "some" /\ cfg.numeric /\ \A i \in 1..Len(b) : b[i] # "big"

NativeAns(b) == [i \in 1..Cardinality({j \in 1..Len(b) : b[j] \in Calls}) |-> <<"plain">>]
-----------------------------------------------------------------------------
(* What a call of f means: the interpreter, alone, at the call's start.    *)
AnsOfG == IF g.kind = "mfn" THEN <<g.kind, global>> ELSE <<g.kind>>

SaysOf(fn, b) == FlattenSeq([i \in 1..Len(b) |-> IF b[i] = "say" THEN <<fn>> ELSE <<>>])

StepSays(s) ==
  IF s = "say" THEN <<"f">>
  ELSE IF s \in Calls /\ g.kind = "fn" THEN SaysOf("g", g.body) ELSE <<>>

MeantOut == FlattenSeq([i \in 1..Len(fbody) |-> StepSays(fbody[i])])
MeantAns == FlattenSeq([i \in 1..Len(fbody) |->
                          IF fbody[i] \in Calls THEN <<AnsOfG>> ELSE <<>>])

CallsG(b) == \E i \in 1..Len(b) : b[i] \in Calls
SaysThen(b, says(_), refuses(_)) ==
  \E i, j \in 1..Len(b) : i < j /\ says(b[i]) /\ refuses(b[j])

(* Native code of f has the builtin in it, which g no longer is. *)
BuiltinBaked(c) ==
  /\ core = "plain" /\ g.kind # "plain" /\ c.opt = "O2" /\ c.numeric
  /\ Lowers(fbody) /\ CallsG(fbody)

(* The programs whose calls no tier tells apart: five ways to see one.     *)
Careful(c) ==
  LET tco == c.opt = "O2" /\ TailForm(fbody)
      fvm == c.vm /\ ~tco /\ Compiles(fbody)
      applies == \E s \in (IF tco THEN {"call"} ELSE Calls) : Contains(fbody, s)
      refusedF(s) == s = "limit" \/ (s \in Calls /\ g.kind = "calc")
      refusedG(s) == s = "limit"
      saysF(s) == StepSays(s) # <<>>
      saysG(s) == s = "say"
  IN  \* the VM refuses after it, or a function it called, has printed
      /\ fvm => ~SaysThen(fbody, saysF, refusedF)
      /\ c.vm /\ g.kind = "fn" /\ Compiles(g.body) /\ applies
           => ~SaysThen(g.body, saysG, refusedG)
      \* the VM evaluates a function's name as a value
      /\ fvm => ~(CallsG(fbody) /\ g.kind = "higher")
      \* the trampoline gives values to a builtin that takes expressions
      /\ tco => g.kind \notin {"calc", "higher"}
      \* native code of an MFn has the value of the variable in it
      /\ g.hot = "some" /\ c.numeric => g.baked = global
      /\ ~BuiltinBaked(c)
-----------------------------------------------------------------------------
NoCall == [opt |-> "O0", vm |-> FALSE, numeric |-> FALSE]
Nothing == [out |-> <<>>, ans |-> <<>>, careful |-> TRUE]

(* The program goes on, and forgets the call that ended. *)
Idle ==
  /\ cfg' = NoCall /\ acts' = <<>> /\ out' = <<>> /\ ans' = <<>>
  /\ status' = "idle" /\ meant' = Nothing

Init ==
  /\ core \in Cores
  /\ fbody \in BodiesF /\ fchunk = "unset" /\ fnative = "unset"
  /\ callee = {}
  /\ g = Fresh(core, <<>>)
  /\ global \in Values
  /\ epoch = 0
  /\ cfg = NoCall
  /\ acts = <<>> /\ out = <<>> /\ ans = <<>>
  /\ status = "idle"
  /\ meant = Nothing

(* Mutant: set_func does not count. *)
DefineNoEpoch(kind, b) ==
  /\ status # "run" /\ epoch < MaxEpoch
  /\ epoch' = epoch
  /\ g' = Fresh(kind, b)
  /\ Idle
  /\ UNCHANGED <<core, fbody, fchunk, fnative, callee, global>>

(* A definition of g by the program (Stmt::FnDef, Stmt::MathDef): set_func. *)
Define(kind, b) ==
  /\ status # "run" /\ epoch < MaxEpoch
  /\ epoch' = epoch + 1
  /\ g' = Fresh(kind, b)
  /\ Idle
  /\ UNCHANGED <<core, fbody, fchunk, fnative, callee, global>>

(* An assignment to the variable: no function is defined. *)
Assign(v) ==
  /\ status # "run" /\ v # global
  /\ global' = v
  /\ Idle
  /\ UNCHANGED <<core, fbody, fchunk, fnative, callee, g, epoch>>

(* Another evaluator of the process defines a function: the epoch is one   *)
(* for all of them, the environments are their own.                        *)
OtherDefines ==
  /\ epoch < MaxEpoch
  /\ epoch' = epoch + 1
  /\ UNCHANGED <<core, fbody, fchunk, fnative, callee, g, global, cfg, acts, out, status,
                 ans, meant>>

(* The program calls f, under some policy. *)
CallF(c) ==
  /\ status # "run"
  /\ cfg' = c
  /\ acts' = <<Act("f", "apply")>>
  /\ out' = <<>> /\ ans' = <<>>
  /\ status' = "run"
  /\ meant' = [out |-> MeantOut, ans |-> MeantAns, careful |-> Careful(c)]
  /\ UNCHANGED <<core, fbody, fchunk, fnative, callee, g, global, epoch>>
-----------------------------------------------------------------------------
Chunk == IF Top.fn = "f" THEN fchunk ELSE g.chunk
Native == IF Top.fn = "f" THEN fnative ELSE g.native

SetCaches(chunk, native) ==
  IF Top.fn = "f"
  THEN fchunk' = chunk /\ fnative' = native /\ UNCHANGED g
  ELSE g' = [g EXCEPT !.chunk = chunk, !.native = native] /\ UNCHANGED <<fchunk, fnative>>

(* The top call answers a to its caller, which goes on after the call. *)
Answer(a) ==
  IF Len(acts) = 1
  THEN acts' = <<>> /\ ans' = a /\ status' = "done"
  ELSE LET caller == acts[Len(acts) - 1]
           goesOn == [caller EXCEPT !.pc = @ + 1, !.ans = Append(@, <<"fn">>)]
       IN  /\ acts' = Append(SubSeq(acts, 1, Len(acts) - 2), goesOn)
           /\ UNCHANGED <<ans, status>>

(* An error nothing catches ends every open call. *)
Fail == acts' = <<>> /\ status' = "failed" /\ UNCHANGED ans

Going == UNCHANGED <<ans, status>>

(* apply_function_inner on a `fn`: native code, else the VM, else the      *)
(* interpreter.  Native code is pure, so its run is one step.              *)
Apply ==
  /\ status = "run" /\ Top.tier = "apply"
  /\ LET tco == Trampolined(Body)
         native == IF cfg.opt = "O2" /\ ~tco THEN Filled(Native, Lowers(Body)) ELSE Native
         answered == cfg.opt = "O2" /\ ~tco /\ NativeAnswers(Body, native)
         tryVm == cfg.vm /\ ~tco /\ ~answered
         chunk == IF tryVm THEN Filled(Chunk, Compiles(Body)) ELSE Chunk
     IN  /\ SetCaches(chunk, native)
         /\ IF answered THEN Answer(NativeAns(Body))
            ELSE /\ Going
                 /\ SetTop(Act(Top.fn, IF tco THEN "trampoline"
                                       ELSE IF tryVm /\ chunk = "some" THEN "vm" ELSE "ast"))
  /\ UNCHANGED <<program, callee, out>>

(* A statement of the body that every interpreter of it can run. *)
Plain ==
  /\ status = "run" /\ Top.tier # "apply" /\ ~AtEnd
  /\ Here \in (IF Top.tier \in {"vm", "named"} THEN {"say", "num", "big"}
               ELSE Steps \ Calls)
  /\ out' = IF Here = "say" THEN Append(out, Top.fn) ELSE out
  /\ SetTop(Advanced(<<>>))
  /\ Going
  /\ UNCHANGED <<program, callee, g, fchunk, fnative>>

Return ==
  /\ status = "run" /\ Top.tier # "apply" /\ AtEnd
  /\ Answer(Top.ans)
  /\ UNCHANGED <<program, callee, g, fchunk, fnative, out>>

(* Mutant: no answer from the VM is taken for an answer of a named call. *)
RefusedNamedAnswers ==
  IF Top.tier = "named" THEN Answer(<<>>)
  ELSE SetTop(Act(Top.fn, "ast")) /\ Going

(* Mutant: a refused body is applied again. *)
RefusedAgain ==
  SetTop(Act(Top.fn, "apply")) /\ Going

(* Ok(None) of try_vm_single: a body called by name from the VM is applied *)
(* (and may be tried on the VM again), an applied one is interpreted, both *)
(* from the start.                                                         *)
Refused ==
  SetTop(Act(Top.fn, IF Top.tier = "named" THEN "apply" ELSE "ast")) /\ Going

VmRefuses ==
  /\ status = "run" /\ Top.tier \in {"vm", "named"} /\ ~AtEnd
  /\ Here = "limit"
  /\ Refused
  /\ UNCHANGED <<program, callee, g, fchunk, fnative, out>>
-----------------------------------------------------------------------------
(* Calls of g in f. *)
InVm == status = "run" /\ Top.tier = "vm" /\ ~AtEnd /\ Here \in Calls
InAst == status = "run" /\ Top.tier \in {"ast", "trampoline"} /\ ~AtEnd /\ Here \in Calls
Jumps == Top.tier = "trampoline" /\ Here = "tail"

(* Mutant: an entry of the cache is used whatever its epoch. *)
HitAnyEpoch == callee # {}

(* The cached callee is used: its epoch is the current one. *)
Hit == epoch \in callee

(* Mutant: the epoch of the next definition is written. *)
NextEpoch == {epoch + 1}

(* cache_callee *)
CachedNow == {epoch}

(* vm_call_name for a builtin, from the cache or the environment, and      *)
(* dispatch_builtin.  The arguments are evaluated before: the name of a    *)
(* function is not a value.  The environment is this thread's, so that     *)
(* reading the epoch and resolving the name is one step.                   *)
VmCallCore ==
  /\ InVm /\ (Hit \/ g.kind \in CoreKinds)
  /\ \/ /\ core = "higher" /\ g.kind = "higher"
        /\ Fail
        /\ UNCHANGED callee
     \/ /\ core = "calc"
        /\ callee' = IF Hit THEN callee ELSE CachedNow
        /\ Refused
     \/ /\ core = "plain"
        /\ callee' = IF Hit THEN callee ELSE CachedNow
        /\ SetTop(Advanced(<<<<"plain">>>>))
        /\ Going
  /\ UNCHANGED <<program, g, fchunk, fnative, out>>

(* vm_call_name for a `fn`: its chunk through try_vm_named, or             *)
(* apply_function (at once if it ends in a tail call, as no body of g does).*)
VmCallFn ==
  /\ InVm /\ ~Hit /\ g.kind = "fn"
  /\ LET chunk == Filled(g.chunk, Compiles(g.body))
     IN  /\ g' = [g EXCEPT !.chunk = chunk]
         /\ acts' = Append(acts, Act("g", IF chunk = "some" THEN "named" ELSE "apply"))
  /\ Going
  /\ UNCHANGED <<program, callee, fchunk, fnative, out>>

(* eval_call for a builtin; the trampoline resolves the callee by itself   *)
(* and applies it to values, which calc and higher builtins reject.        *)
AstCallCore ==
  /\ InAst /\ g.kind \in CoreKinds
  /\ IF Jumps /\ g.kind # "plain" THEN Fail
     ELSE SetTop(Advanced(<<<<g.kind>>>>)) /\ Going
  /\ UNCHANGED <<program, callee, g, fchunk, fnative, out>>

(* A call of a `fn`, or the trampoline's jump: f's frame is g's, on the    *)
(* interpreter, with what f had to answer.                                 *)
AstCallFn ==
  /\ InAst /\ g.kind = "fn"
  /\ acts' = IF Jumps THEN <<[Act("g", "ast") EXCEPT !.ans = Append(Top.ans, <<"fn">>)]>>
             ELSE Append(acts, Act("g", "apply"))
  /\ Going
  /\ UNCHANGED <<program, callee, g, fchunk, fnative, out>>

(* apply_function_inner on an MFn: code compiled at the threshold answers  *)
(* numeric calls from then on (calls are counted up to it).  body_dag      *)
(* evaluates the body when it is compiled, and the variable with it.  A    *)
(* body that cannot be compiled is never tried again.                      *)
CallMfn ==
  /\ (InVm /\ ~Hit) \/ InAst
  /\ g.kind = "mfn"
  /\ LET counts == cfg.numeric /\ g.hot = "unset"
         compiles == counts /\ cfg.opt = "O2" /\ g.calls + 1 >= Threshold
         native == cfg.numeric /\ g.hot = "some"
     IN  /\ SetTop(Advanced(<<<<"mfn", IF native THEN g.baked ELSE global>>>>))
         /\ \E hot \in IF compiles THEN {"some", "none"} ELSE {g.hot} :
              g' = [g EXCEPT !.calls = IF counts /\ @ < Threshold THEN @ + 1 ELSE @,
                             !.hot = hot,
                             !.baked = IF hot # g.hot THEN global ELSE @]
  /\ Going
  /\ UNCHANGED <<program, callee, fchunk, fnative, out>>

Run == \/ Apply \/ Plain \/ Return \/ VmRefuses \/ VmCallCore \/ VmCallFn
       \/ AstCallCore \/ AstCallFn \/ CallMfn

Next ==
  \/ \E b \in BodiesG : Define("fn", b)
  \/ Define("mfn", <<>>)
  \/ \E v \in Values : Assign(v)
  \/ OtherDefines
  \/ \E c \in [opt : {"O0", "O2"}, vm : BOOLEAN, numeric : BOOLEAN] : CallF(c)
  \/ Run

Spec == Init /\ [][Next]_vars

(* A call goes on once it was made. *)
FairSpec == Spec /\ WF_vars(Run)
-----------------------------------------------------------------------------
Answers == {<<k>> : k \in CoreKinds \cup {"fn"}} \cup ({"mfn"} \X Values)

(* Types of the calls' state; a cached epoch is one that has been. *)
TypeOK ==
  /\ core \in CoreKinds /\ global \in Values /\ epoch \in Nat
  /\ fbody \in Seq(Steps) /\ fchunk \in Caches /\ fnative \in Caches
  /\ callee \subseteq 0..epoch
  /\ g \in [kind : CoreKinds \cup {"fn", "mfn"}, body : Seq(Steps \ Calls), chunk : Caches,
            native : Caches, calls : Nat, hot : Caches, baked : Values]
  /\ cfg \in [opt : {"O0", "O2"}, vm : BOOLEAN, numeric : BOOLEAN]
  /\ acts \in Seq([fn : {"f", "g"}, tier : Tiers, pc : Nat \ {0}, ans : Seq(Answers)])
  /\ out \in Seq({"f", "g"}) /\ ans \in Seq(Answers)
  /\ status \in {"idle", "run", "done", "failed"}
  /\ meant \in [out : Seq({"f", "g"}), ans : Seq(Answers), careful : BOOLEAN]

(* A callee taken from a call site's cache is the one the environment      *)
(* answers, whatever was defined since it was cached, and by whom.         *)
CacheIsLookup == Hit => g.kind = core

Ended == status \in {"done", "failed"}

(* Whatever tiers a careful program's call goes through, and whatever      *)
(* earlier calls left in the caches, it prints what the interpreter prints *)
(* and answers what the interpreter answers, and does not fail.            *)
SameAsInterpreter ==
  Ended /\ meant.careful => status = "done" /\ out = meant.out /\ ans = meant.ans

Count(s, e) == Cardinality({i \in 1..Len(s) : s[i] = e})

(* A call that answers, careful or not, has printed everything at least    *)
(* as often as the interpreter: falling back from a tier loses nothing.    *)
(* Native code with another g in it is the exception.                      *)
NothingLost ==
  status = "done" /\ ~BuiltinBaked(cfg) =>
    \A e \in {"f", "g"} : Count(out, e) >= Count(meant.out, e)

(* A call ends: a body refused by one tier is not handed back to it.       *)
CallEnds == status = "run" ~> status # "run"

(* vm/comp.rs on constructs outside the VM's subset: "the caller falls     *)
(* back to the AST interpreter -- observable behavior is never changed".   *)
PrintsOnce ==
  status = "done" => \A e \in {"f", "g"} : Count(out, e) <= Count(meant.out, e)

(* The specification on opt_level: it "never changes observable semantics  *)
(* (results, error timing, Result propagation)".  An MFn answers from the  *)
(* variable's value, however often it was called before.                   *)
HotAnswersAgree ==
  status = "done" /\ g.kind = "mfn" /\ ~BuiltinBaked(cfg) => ans = meant.ans
=============================================================================
