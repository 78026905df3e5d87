-------------------------------- MODULE Session --------------------------------
(***************************************************************************)
(* One evaluator (prima-runtime, eval/entry.rs, eval/stmt.rs,              *)
(* eval/class.rs): the policy stack `config`, `current_module`, and the    *)
(* two receiver stacks `self_stack` and `self_values`, through a sequence  *)
(* of entry points, dependency loads, calls, `with config` blocks, errors, *)
(* returns and `?` propagations.                                           *)
(*                                                                         *)
(* `frames` is the native call stack of the interpreter: what Rust's own   *)
(* stack remembers (the module to restore, the receiver), and, as          *)
(* auxiliary fields that no action reads to decide what happens, the       *)
(* policy and stack height the frame's body is meant to run under.         *)
(***************************************************************************)
EXTENDS Naturals, Sequences, FiniteSets

CONSTANTS
  Modules,       \* dependency modules
  Root,          \* the root module's current_module, the empty string
  Keys,          \* policies of a config block; "vm" and "opt_level" are two
  Vals,          \* values of the policies
  Default,       \* Config::default
  VmOff,         \* the value of "vm" in DEFAULT_CONFIG
  Blocks,        \* config blocks: functions on a subset of Keys
  NoBlock,       \* a module without a config block
  Polluting,     \* keys only the entry module may set
  NativeLevels,  \* opt_levels that select a layered method's Rust body
  Instances,     \* class instances (receivers of user methods)
  Builtins,      \* receivers of builtin-class methods: strings, arrays, ...
  Nobody,        \* no receiver
  MaxFrames      \* bound: depth of the interpreter's call stack

ASSUME KeysAssumption ==
  /\ {"vm", "opt_level"} \subseteq Keys
  /\ Default \in [Keys -> Vals] /\ VmOff \in Vals
  /\ \A b \in Blocks : b \in [DOMAIN b -> Vals] /\ DOMAIN b \subseteq Keys
  /\ NoBlock \notin Blocks
  /\ Polluting \subseteq Keys \ {"vm"}
ASSUME NamesAssumption ==
  /\ Root \notin Modules
  /\ Nobody \notin Instances \cup Builtins
  /\ Instances \cap Builtins = {}

VARIABLES
  config,          \* Evaluator::config, a stack of policies
  current_module,
  self_stack,      \* instance receivers of the methods being run
  self_values,     \* builtin-class receivers of the methods being run
  module_items,    \* modules whose public items are collected
  kept,            \* a root environment is kept for call_function
  entry,           \* "file" (eval_file*) or "memory" (eval_program, eval_value*)
  phase,           \* "idle", "imports" (evaluating dependencies) or "body"
  flow,            \* how the top frame is being left: see Flows
  frames

vars == <<config, current_module, self_stack, self_values, module_items,
          kept, entry, phase, flow, frames>>

selfs == <<self_stack, self_values>>

Flows == {"run", "return", "propagate", "error"}

Kinds == {"load", "root", "func", "method", "with"}

Configs == [Keys -> Vals]

(* DEFAULT_CONFIG, what current_config answers when the stack is empty. *)
Bottom == [Default EXCEPT !["vm"] = VmOff]

(* Config::apply on a clone, for a block all of whose entries are valid. *)
Overlay(cfg, b) == [k \in Keys |-> IF k \in DOMAIN b THEN b[k] ELSE cfg[k]]

(* current_config *)
Current(stack) == IF stack = <<>> THEN Bottom ELSE stack[Len(stack)]

(* Vec::pop, which leaves an empty vector alone. *)
Pop(stack) == IF stack = <<>> THEN stack ELSE SubSeq(stack, 1, Len(stack) - 1)

(* push_module_config *)
Pushed(stack, b) ==
  IF b = NoBlock THEN stack ELSE Append(stack, Overlay(Current(stack), b))

(* The policy a body opened now with block b is meant to run under. *)
Meant(b) ==
  LET outer == IF frames = <<>> THEN Default ELSE frames[Len(frames)].policy
  IN  IF b = NoBlock THEN outer ELSE Overlay(outer, b)

Top == frames[Len(frames)]

Frame(kind, b, prev, rcv) ==
  [kind |-> kind, policy |-> Meant(b), prev |-> prev, rcv |-> rcv,
   height |-> Len(config')]

Open(kind, b, prev, rcv) == frames' = Append(frames, Frame(kind, b, prev, rcv))

Close == frames' = Pop(frames)

Init ==
  /\ config = <<Default>>
  /\ current_module = Root
  /\ self_stack = <<>> /\ self_values = <<>>
  /\ module_items = {}
  /\ kept = FALSE
  /\ entry = "file"
  /\ phase = "idle"
  /\ flow = "run"
  /\ frames = <<>>
-----------------------------------------------------------------------------
(* Entry points.  eval_file and eval_file_keep_env forget the collected    *)
(* items; the in-memory entry points keep them.                            *)
Enter(e) ==
  /\ phase = "idle"
  /\ config' = <<Default>>
  /\ module_items' = IF e = "file" THEN {} ELSE module_items
  /\ entry' = e
  /\ phase' = "imports"
  /\ UNCHANGED <<current_module, selfs, kept, flow, frames>>

(* An entry point returns an error met before the root module's body: only *)
(* the file entry points reset the policy stack.                           *)
GiveUp(stack) ==
  /\ config' = IF entry = "file" THEN <<Default>> ELSE stack
  /\ phase' = "idle"
  /\ flow' = "run"

(* eval_module stops early: a polluting policy (E0021), an import that     *)
(* cannot be bound, or a config block that does not apply.  Nothing is     *)
(* pushed and the module is restored.  The same for the imports of the     *)
(* root module.                                                            *)
ImportFails ==
  /\ phase = "imports"
  /\ GiveUp(config)
  /\ UNCHANGED <<current_module, selfs, module_items, kept, entry, frames>>

(* Mutant: policies of a dependency's block are not checked (E0021). *)
AllowedAll(b) == TRUE

(* A block a dependency may declare (E0021 otherwise). *)
Allowed(b) == b # NoBlock => DOMAIN b \cap Polluting = {}

(* eval_module, up to the module's first statement. *)
LoadModule(m, b) ==
  /\ phase = "imports"
  /\ entry = "memory" => m \notin module_items
  /\ Allowed(b)
  /\ current_module' = m
  /\ config' = Pushed(config, b)
  /\ Open("load", b, current_module, Nobody)
  /\ phase' = "body"
  /\ UNCHANGED <<selfs, module_items, kept, entry, flow>>

(* Mutant: the module is restored on success only. *)
LeaveLoadNoRestore ==
  /\ phase = "body" /\ Top.kind = "load" /\ flow # "return"
  /\ Close
  /\ \/ /\ flow = "run"
        /\ config' = Pop(config)
        /\ current_module' = Top.prev
        /\ module_items' = module_items \cup {current_module}
        /\ phase' = "imports"
        /\ UNCHANGED flow
     \/ /\ flow \in {"error", "propagate"}
        /\ GiveUp(Pop(config))
        /\ UNCHANGED <<current_module, module_items>>
  /\ UNCHANGED <<selfs, kept, entry>>

(* eval_module, from the module's last statement, or an error, to the end. *)
(* The policy stack is popped whether or not a block was pushed.  On an    *)
(* error the entry point gives up.                                         *)
LeaveLoad ==
  /\ phase = "body" /\ Top.kind = "load" /\ flow # "return"
  /\ current_module' = Top.prev
  /\ Close
  /\ \/ /\ flow = "run"
        /\ config' = Pop(config)
        /\ module_items' = module_items \cup {current_module}
        /\ phase' = "imports"
        /\ UNCHANGED flow
     \/ /\ flow \in {"error", "propagate"}
        /\ GiveUp(Pop(config))
        /\ UNCHANGED module_items
  /\ UNCHANGED <<selfs, kept, entry>>

(* A top-level `return` of a dependency is dropped: the next statement runs. *)
IgnoreReturn ==
  /\ phase = "body" /\ Top.kind = "load" /\ flow = "return"
  /\ flow' = "run"
  /\ UNCHANGED <<config, current_module, selfs, module_items, kept, entry, phase, frames>>

(* eval_root, eval_program_in: the imports are bound and the entry's block *)
(* is applied on top of what the dependencies left.                        *)
BeginRoot(b) ==
  /\ phase = "imports"
  /\ config' = Pushed(config, b)
  /\ Open("root", b, current_module, Nobody)
  /\ phase' = "body"
  /\ UNCHANGED <<current_module, selfs, module_items, kept, entry, flow>>

(* The root body ends, by its last statement, an error, a `?` nothing      *)
(* caught, or a top-level `return` (E0080): the entry point resets the     *)
(* policies.                                                               *)
LeaveRoot ==
  /\ phase = "body" /\ Top.kind = "root"
  /\ config' = <<Default>>
  /\ Close
  /\ kept' \in {kept, kept \/ (entry = "file" /\ flow = "run")}
  /\ phase' = "idle"
  /\ flow' = "run"
  /\ UNCHANGED <<current_module, selfs, module_items, entry>>

(* call_function: the host (the C ABI) calls into a kept environment.      *)
HostCall ==
  /\ phase = "idle" /\ kept
  /\ config' = config
  /\ Open("func", NoBlock, current_module, Nobody)
  /\ phase' = "body"
  /\ UNCHANGED <<current_module, selfs, module_items, kept, entry, flow>>
-----------------------------------------------------------------------------
(* Statements and expressions of the frame being run. *)
Running == phase = "body" /\ flow = "run"

CanOpen == Running /\ Len(frames) < MaxFrames

(* apply_function, call_associated: a `fn`, a closure, an associated       *)
(* function.  Nothing of the session changes.                              *)
CallFunc ==
  /\ CanOpen
  /\ config' = config
  /\ Open("func", NoBlock, current_module, Nobody)
  /\ UNCHANGED <<current_module, selfs, module_items, kept, entry, phase, flow>>

(* Mutant: a builtin-class receiver goes to the instances' stack. *)
CallMethodOneStack(r) ==
  /\ CanOpen
  /\ r \in Builtins => Current(config)["opt_level"] \notin NativeLevels
  /\ self_stack' = Append(self_stack, r)
  /\ config' = config
  /\ Open("method", NoBlock, current_module, r)
  /\ UNCHANGED <<current_module, self_values, module_items, kept, entry, phase, flow>>

(* call_method with a body to run: a user class's method, or, below the    *)
(* opt_level of its Rust body, a layered builtin-class method.             *)
CallMethod(r) ==
  /\ CanOpen
  /\ r \in Builtins => Current(config)["opt_level"] \notin NativeLevels
  /\ self_stack' = IF r \in Instances THEN Append(self_stack, r) ELSE self_stack
  /\ self_values' = IF r \in Instances THEN self_values ELSE Append(self_values, r)
  /\ config' = config
  /\ Open("method", NoBlock, current_module, r)
  /\ UNCHANGED <<current_module, module_items, kept, entry, phase, flow>>

(* with config { b } { ... }: the block is applied to a clone, pushed, and *)
(* popped however the body ends.                                           *)
EnterWith(b) ==
  /\ CanOpen
  /\ config' = Append(config, Overlay(Current(config), b))
  /\ Open("with", b, current_module, Nobody)
  /\ UNCHANGED <<current_module, selfs, module_items, kept, entry, phase, flow>>

(* Mutant: `let r = self.eval_block(..)?;` skips the pop. *)
LeaveWithEarlyReturn ==
  /\ phase = "body" /\ Top.kind = "with"
  /\ config' = IF flow \in {"error", "propagate"} THEN config ELSE Pop(config)
  /\ Close
  /\ UNCHANGED <<current_module, selfs, module_items, kept, entry, phase, flow>>

LeaveWith ==
  /\ phase = "body" /\ Top.kind = "with"
  /\ config' = Pop(config)
  /\ Close
  /\ UNCHANGED <<current_module, selfs, module_items, kept, entry, phase, flow>>

(* Leaving a function or a method consumes a `return`, and catch_propagate *)
(* turns a `?` into the call's value; an error goes on.  A host call ends  *)
(* with its first frame.                                                   *)
CallEnds ==
  /\ Close
  /\ flow' = IF flow = "error" /\ Len(frames) > 1 THEN "error" ELSE "run"
  /\ phase' = IF Len(frames) = 1 THEN "idle" ELSE "body"

LeaveFunc ==
  /\ phase = "body" /\ Top.kind = "func"
  /\ CallEnds
  /\ UNCHANGED <<config, current_module, selfs, module_items, kept, entry>>

(* Mutant: `self.eval_block_tail(..)?` skips the pop of the receiver. *)
LeaveMethodEarlyReturn ==
  /\ phase = "body" /\ Top.kind = "method"
  /\ IF flow \in {"error", "propagate"}
     THEN UNCHANGED selfs
     ELSE /\ self_stack' = IF Top.rcv \in Instances THEN Pop(self_stack) ELSE self_stack
          /\ self_values' = IF Top.rcv \in Instances THEN self_values ELSE Pop(self_values)
  /\ CallEnds
  /\ UNCHANGED <<config, current_module, module_items, kept, entry>>

LeaveMethod ==
  /\ phase = "body" /\ Top.kind = "method"
  /\ self_stack' = IF Top.rcv \in Instances THEN Pop(self_stack) ELSE self_stack
  /\ self_values' = IF Top.rcv \in Instances THEN self_values ELSE Pop(self_values)
  /\ CallEnds
  /\ UNCHANGED <<config, current_module, module_items, kept, entry>>

(* A statement fails (a config block that does not apply included), a `?`  *)
(* meets an Err or a None, a `return` is run.                              *)
Interrupt(f) ==
  /\ Running
  /\ flow' = f
  /\ UNCHANGED <<config, current_module, selfs, module_items, kept, entry, phase, frames>>

Next ==
  \/ \E e \in {"file", "memory"} : Enter(e)
  \/ ImportFails
  \/ \E m \in Modules, b \in Blocks \cup {NoBlock} : LoadModule(m, b)
  \/ LeaveLoad \/ IgnoreReturn
  \/ \E b \in Blocks \cup {NoBlock} : BeginRoot(b)
  \/ LeaveRoot
  \/ HostCall
  \/ CallFunc \/ LeaveFunc
  \/ \E r \in Instances \cup Builtins : CallMethod(r)
  \/ LeaveMethod
  \/ \E b \in Blocks : EnterWith(b)
  \/ LeaveWith
  \/ \E f \in Flows \ {"run"} : Interrupt(f)

Spec == Init /\ [][Next]_vars
-----------------------------------------------------------------------------
(* Types of the session's state. *)
TypeOK ==
  /\ config \in Seq(Configs)
  /\ current_module \in Modules \cup {Root}
  /\ self_stack \in Seq(Instances)
  /\ self_values \in Seq(Builtins)
  /\ module_items \subseteq Modules
  /\ kept \in BOOLEAN
  /\ entry \in {"file", "memory"}
  /\ phase \in {"idle", "imports", "body"}
  /\ flow \in Flows
  /\ frames \in Seq([kind : Kinds, policy : Configs, prev : Modules \cup {Root},
                     rcv : Instances \cup Builtins \cup {Nobody}, height : Nat])

(* Two policies that agree on everything but the choice of the VM. *)
SameButVm(c, d) == \A k \in Keys \ {"vm"} : c[k] = d[k]

(* Whatever sequence of loads, calls, `with` blocks, errors and caught     *)
(* propagations led here, a body runs under its own block on top of its    *)
(* caller's policy, and between entries the defaults are back.  The stack  *)
(* itself does not nest that way: eval_module pops without having pushed.  *)
PolicyNests ==
  SameButVm(Current(config), IF frames = <<>> THEN Default ELSE Top.policy)

(* The open methods with a receiver in S among the first n frames, and how *)
(* many they are.                                                          *)
OpenMethods(fs, S, n) == {i \in 1..n : fs[i].kind = "method" /\ fs[i].rcv \in S}
MethodCount(fs, S, n) == Cardinality(OpenMethods(fs, S, n))

(* A stack holds the receivers in S of the open methods, in order. *)
ListsReceivers(stack, fs, S) ==
  /\ Len(stack) = MethodCount(fs, S, Len(fs))
  /\ \A i \in OpenMethods(fs, S, Len(fs)) : stack[MethodCount(fs, S, i)] = fs[i].rcv

(* Each receiver stack lists the open methods of its kind, so that a       *)
(* private member is open exactly while a method of its class runs, also   *)
(* after an error or a `?` went through one.                               *)
SelfStacksMatchCalls ==
  /\ ListsReceivers(self_stack, frames, Instances)
  /\ ListsReceivers(self_values, frames, Builtins)

(* current_module (the owner of new classes, the prefix of @builtin keys,  *)
(* the subject of pub(mod) checks) is the module being loaded and is the   *)
(* root everywhere else, also after a load that failed.                    *)
ModuleTracksLoad ==
  /\ frames = <<>> => current_module = Root
  /\ frames # <<>> => (current_module # Root <=> frames[1].kind = "load")

(* A dependency runs with the default of a policy only the entry module    *)
(* may set, except inside a `with` block that sets it.                     *)
EntryPolicyOnly ==
  frames # <<>> /\ frames[1].kind = "load" /\ (\A i \in 2..Len(frames) : frames[i].kind # "with")
    => \A k \in Polluting : Current(config)[k] = Default[k]

(* config.rs on the field vm: "default `true`".  While no block sets it,   *)
(* the VM is on.                                                           *)
VmDefaultOn == frames # <<>> => Current(config)["vm"] = Top.policy["vm"]

(* eval.rs on self_values: the `.pra` bodies of builtin-class methods      *)
(* resolve `self` through this stack instead of self_stack.  What the      *)
(* interpreter answers for `self`:                                         *)
Self == IF self_stack # <<>> THEN self_stack[Len(self_stack)]
        ELSE IF self_values # <<>> THEN self_values[Len(self_values)] ELSE Nobody

SelfIsReceiver == (frames # <<>> /\ Top.kind = "method") => Self = Top.rcv
=============================================================================
